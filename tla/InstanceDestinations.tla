------------------------- MODULE InstanceDestinations -------------------------
(***************************************************************************)
(* Where an instance keeps its cache: the flags of the installation, the   *)
(* environment of the user, the registration (the arguments of the         *)
(* process) and the config file of the instance together decide it, once   *)
(* for the summary that the installation prints (cmd/hfdesk/service.go)    *)
(* and once in the process that is started later (service/host.go).        *)
(* A directory is a path; the empty path is "not set".                     *)
(***************************************************************************)
EXTENDS Sequences

Unset == <<>>
Hub(root) == Append(root, "hub")
Or(a, b) == IF a # Unset THEN a ELSE b   \* the first that is set

(* DefaultCacheDirs: the cache of the user, or one below the state dir. *)
DefaultRoot(in) == IF in.scope = "user" THEN Or(in.env.home, <<"home">>) ELSE <<"state", "cache">>
DefaultHub(in) == IF in.scope = "user" THEN Or(in.env.hub, Hub(DefaultRoot(in)))
                  ELSE Hub(DefaultRoot(in))

(* buildInstallOptions: a cache root of the command line takes its hub along. *)
BuildInstallOptions(in) ==
    [cache |-> Or(in.flags.cache, DefaultRoot(in)),
     hub   |-> CASE in.flags.hub # Unset -> in.flags.hub
                 [] in.flags.hub = Unset /\ in.flags.cache # Unset -> Hub(in.flags.cache)
                 [] OTHER -> DefaultHub(in)]

(* RunArgs and the flags of "service run": an option that is not set is    *)
(* not on the command line, and comes back as not set.                     *)
RunArgs(opts) == [a \in {b \in {"cache", "hub"} : opts[b] # Unset} |-> opts[a]]
RunOptions(args) == [a \in {"cache", "hub"} |-> IF a \in DOMAIN args THEN args[a] ELSE Unset]

(* EffectiveCacheDir, effectiveCacheDirs: what the summary says.  A config *)
(* file that cannot be read counts as one that sets nothing.               *)
EffectiveCacheDir(file, registered) ==
    IF ~file.ok THEN registered ELSE Or(file.cache, registered)

EffectiveCacheDirs(opts, file) ==
    LET configured == EffectiveCacheDir(file, Unset)
    IN IF configured # Unset THEN [cache |-> configured, hub |-> Hub(configured)]
       ELSE [cache |-> EffectiveCacheDir(file, opts.cache),
             hub   |-> IF opts.hub = Unset /\ opts.cache # Unset THEN Hub(opts.cache) ELSE opts.hub]

(* effectiveDestinations: what the host uses, if it starts at all. *)
EffectiveDestinations(opts, file) ==
    LET root == Or(file.cache, opts.cache)
    IN [cache |-> root,
        hub   |-> CASE file.cache # Unset -> Hub(root)
                    [] file.cache = Unset /\ opts.hub # Unset -> opts.hub
                    [] file.cache = Unset /\ opts.hub = Unset /\ root # Unset -> Hub(root)
                    [] OTHER -> Unset]

(* pinCacheEnvironment: the environment that the supervisor hands over is  *)
(* replaced where the instance has a value of its own.                     *)
PinCacheEnvironment(dest, env) == [home |-> Or(dest.cache, env.home), hub |-> Or(dest.hub, env.hub)]

(* The process: HF_HOME and HF_HUB_CACHE after the host prepared itself;   *)
(* "bare" is the environment of the supervisor.                            *)
UsedByHost(in) ==
    PinCacheEnvironment(EffectiveDestinations(RunOptions(RunArgs(BuildInstallOptions(in))), in.file), in.bare)
NamedBySummary(in) ==
    LET dirs == EffectiveCacheDirs(BuildInstallOptions(in), in.file)
    IN [home |-> dirs.cache, hub |-> dirs.hub]

LOCAL Dir == {Unset, <<"x">>, <<"y">>}
LOCAL Env == [home : Dir, hub : Dir]
DestinationInputs == [scope : {"user", "system"}, flags : [cache : Dir, hub : Dir], env : Env,
                      bare : {[home |-> Unset, hub |-> Unset], [home |-> <<"y">>, hub |-> <<"z">>]},
                      file : {[ok |-> FALSE, cache |-> Unset]} \union [ok : {TRUE}, cache : Dir]]
=============================================================================
