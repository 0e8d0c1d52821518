------------------------------ MODULE UnitWords ------------------------------
(***************************************************************************)
(* manager_linux.go: words in a unit file.  A word is rendered (quoted when*)
(* it must be) and later read back by a parser that follows the rules of   *)
(* systemd.  The characters that matter are one each.                      *)
(***************************************************************************)
EXTENDS Naturals, Sequences, SequencesExt, Folds

Chars == {"a", " ", "'", "\"", "\\", "%", "$"}
Special(command) == {" ", "'", "\"", "\\", "%"} \union (IF command THEN {"$"} ELSE {})

(* systemdQuoteAlways, systemdQuoteCommandAlways. *)
Escaped(c, command) == CASE c = "\"" -> <<"\\", "\"">>
                         [] c = "\\" -> <<"\\", "\\">>
                         [] c = "%" -> <<"%", "%">>
                         [] c = "$" /\ command -> <<"$", "$">>
                         [] OTHER -> <<c>>
QuoteAlways(w, command) ==
    <<"\"">> \o FlattenSeq([i \in DOMAIN w |-> Escaped(w[i], command)]) \o <<"\"">>

(* systemdQuote, systemdQuoteCommand: only when the word needs it. *)
Quote(w, command) == IF w = <<>> \/ ToSet(w) \intersect Special(command) # {}
                     THEN QuoteAlways(w, command) ELSE w

RenderLine(words, command) == Quote(words[1], command) \o <<" ">> \o Quote(words[2], command)

(***************************************************************************)
(* splitSystemdWords: one character at a time; q is the state of the       *)
(* parser: outside, inside quotes, or behind a character that the next one *)
(* completes.                                                              *)
(***************************************************************************)
LOCAL Start == [words |-> <<>>, word |-> <<>>, has |-> FALSE, q |-> "out", held |-> FALSE]
LOCAL Put(s, c) == [s EXCEPT !.word = Append(@, c), !.has = TRUE, !.held = FALSE]
Flush(s) == IF s.has THEN [s EXCEPT !.words = Append(@, s.word), !.word = <<>>, !.has = FALSE] ELSE s
ReadChar(s, c) ==
    CASE s.held /\ s.word # <<>> /\ Last(s.word) = "%" /\ c = "%" -> [s EXCEPT !.held = FALSE]
      [] s.q \in {"esc", "esc\""} -> [Put(s, c) EXCEPT !.q = IF s.q = "esc" THEN "out" ELSE "\""]
      [] s.q = "'" -> IF c = "'" THEN [s EXCEPT !.q = "out", !.held = FALSE] ELSE Put(s, c)
      [] s.q = "\"" /\ c = "\"" -> [s EXCEPT !.q = "out", !.held = FALSE]
      [] s.q = "\"" /\ c = "\\" -> [s EXCEPT !.q = "esc\"", !.held = FALSE]
      [] s.q = "out" /\ c = " " -> [Flush(s) EXCEPT !.held = FALSE]
      [] s.q = "out" /\ c \in {"'", "\""} -> [s EXCEPT !.q = c, !.has = TRUE, !.held = FALSE]
      [] s.q = "out" /\ c = "\\" -> [s EXCEPT !.q = "esc", !.has = TRUE, !.held = FALSE]
      [] c = "%" /\ s.q \in {"out", "\""} -> [Put(s, c) EXCEPT !.held = TRUE]
      [] OTHER -> Put(s, c)
SplitWords(line) == Flush(FoldLeft(ReadChar, Start, line)).words

(* resolveSystemdDollars: a pair of dollars of the command line is one.    *)
ResolveDollars(w) ==
    LET read(s, c) == IF c = "$" /\ s.pair THEN [s EXCEPT !.pair = FALSE]
                      ELSE [out |-> Append(s.out, c), pair |-> c = "$"]
    IN FoldLeft(read, [out |-> <<>>, pair |-> FALSE], w).out

(* parseUnit, for a line of a command and for another setting. *)
ParseLine(line, command) ==
    LET words == SplitWords(line)
    IN IF command THEN [i \in DOMAIN words |-> ResolveDollars(words[i])] ELSE words

LOCAL Words == UNION {[1..n -> Chars] : n \in 0..2}
WordInputs == {[words |-> <<u, v>>, command |-> b] : u \in Words, v \in {<<>>, <<"a">>, <<"%", "$">>, <<"\\", "'">>}, b \in BOOLEAN}
=============================================================================
