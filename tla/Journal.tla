------------------------------ MODULE Journal ------------------------------
(***************************************************************************)
(* The job journal of src/src/transaction.rs (journal.jsonl): one header   *)
(* line and then one line per state of the job.  A journal is a sequence   *)
(* of lines; a line is what it holds and whether its newline reached the   *)
(* file.  Bytes that do not parse are "garbage".  Writers append at the    *)
(* end of the file, so what follows an unterminated line joins that line.  *)
(***************************************************************************)
EXTENDS Naturals, Sequences

States == {"prepared", "committing", "committed", "rolling_back"}
Line == [text : States \cup {"header", "garbage"}, end : {"newline", "eof"}]

\* What may be in the file once an append of one line was interrupted: none of
\* it, a prefix that does not parse, all but the newline, or the whole line.
Cuts == {"lost", "partial", "bare", "whole"}

Unterminated(j) == Len(j) > 0 /\ j[Len(j)].end = "eof"

AppendLine(j, line) ==
    IF Unterminated(j)
    THEN [j EXCEPT ![Len(j)] = [text |-> "garbage", end |-> line.end]]
    ELSE Append(j, line)

AppendText(j, text) == AppendLine(j, [text |-> text, end |-> "newline"])

Interrupted(j, text, cut) ==
    CASE cut = "lost"    -> j
      [] cut = "partial" -> AppendLine(j, [text |-> "garbage", end |-> "eof"])
      [] cut = "bare"    -> AppendLine(j, [text |-> text, end |-> "eof"])
      [] cut = "whole"   -> AppendText(j, text)

NewJournal == AppendText(AppendText(<<>>, "header"), "prepared")

\* Every prefix that an interrupted creation may leave of the two first lines.
NewJournalPrefixes ==
    {Interrupted(<<>>, "header", cut) : cut \in Cuts}
        \cup {Interrupted(AppendText(<<>>, "header"), "prepared", cut) : cut \in Cuts}

-----------------------------------------------------------------------------
ValidTransition(previous, next) ==
    <<previous, next>> \in {<<"prepared", "committing">>,
                            <<"committing", "committed">>,
                            <<"committing", "rolling_back">>}

\* The lines the reader takes: a last line that does not parse and has no
\* newline is dropped, any other line that does not parse is an error.
Parsed(j) ==
    IF Unterminated(j) /\ j[Len(j)].text = "garbage" THEN Len(j) - 1 ELSE Len(j)

Readable(j) ==
    /\ Parsed(j) >= 2
    /\ j[1].text = "header"
    /\ j[2].text = "prepared"
    /\ \A i \in 3..Parsed(j) : ValidTransition(j[i - 1].text, j[i].text)

\* The state read_journal returns, or "unreadable" where it returns an error.
ReadJournal(j) == IF Readable(j) THEN j[Parsed(j)].text ELSE "unreadable"
=============================================================================
