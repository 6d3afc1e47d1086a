----------------------- MODULE FileTransaction_proofs -----------------------
(***************************************************************************)
(* Proofs about FileTransaction, for every number of entries: the journal, *)
(* types, safety properties, and that it implements AtomicFileSet.         *)
(***************************************************************************)
EXTENDS FileTransaction, SequenceTheorems, TLAPS

-----------------------------------------------------------------------------
(***************************************************************************)
(* What the journal's reader makes of what its writers leave behind.       *)
(***************************************************************************)

\* The journal while a commit runs, the same with only the newline of
\* "committing" missing, and with a garbled line after it.
Committing == AppendText(NewJournal, "committing")
BareCommitting == Interrupted(NewJournal, "committing", "bare")
TornCommitting == Interrupted(Committing, "committed", "partial")
CommittingJournals == {Committing, BareCommitting, TornCommitting}

\* Appending keeps the journal a sequence of lines; a terminated journal gets
\* one more line, the last line of an unterminated one is garbled.
LEMMA AppendLineFacts ==
    ASSUME NEW j \in Seq(Line), NEW line \in Line
    PROVE  /\ AppendLine(j, line) \in Seq(Line)
           /\ ~Unterminated(j) =>
                 /\ Len(AppendLine(j, line)) = Len(j) + 1
                 /\ AppendLine(j, line)[Len(j) + 1] = line
                 /\ \A i \in 1..Len(j) : AppendLine(j, line)[i] = j[i]
           /\ Unterminated(j) =>
                 /\ Len(AppendLine(j, line)) = Len(j)
                 /\ AppendLine(j, line)[Len(j)].text = "garbage"
                 /\ AppendLine(j, line)[Len(j)].end = line.end
                 /\ \A i \in 1..(Len(j) - 1) : AppendLine(j, line)[i] = j[i]
<1>1. CASE ~Unterminated(j)
  BY <1>1, AppendProperties DEF AppendLine
<1>2. CASE Unterminated(j)
  <2> DEFINE g == [text |-> "garbage", end |-> line.end]
  <2>1. g \in Line /\ g.text = "garbage" /\ g.end = line.end
    BY DEF Line
  <2>2. Len(j) \in 1..Len(j) /\ Len(j) \in Nat
    BY <1>2, LenProperties DEF Unterminated
  <2>3. AppendLine(j, line) = [j EXCEPT ![Len(j)] = g]
    BY <1>2 DEF AppendLine
  <2> HIDE DEF g
  <2> QED BY <1>2, <2>1, <2>2, <2>3, ExceptSeq
<1> QED BY <1>1, <1>2

\* Complete and interrupted appends leave a sequence of lines.
LEMMA InterruptedType ==
    ASSUME NEW j \in Seq(Line), NEW text \in States \cup {"header"}, NEW cut \in Cuts
    PROVE  /\ AppendText(j, text) \in Seq(Line)
           /\ Interrupted(j, text, cut) \in Seq(Line)
<1>1. \A b \in {"newline", "eof"} : /\ [text |-> text, end |-> b] \in Line
                                    /\ [text |-> "garbage", end |-> b] \in Line
  BY DEF Line
<1>2. AppendText(j, text) \in Seq(Line)
  BY <1>1, AppendLineFacts DEF AppendText
<1>3. Interrupted(j, text, cut) \in Seq(Line)
  BY <1>1, <1>2, AppendLineFacts DEF Interrupted, Cuts
<1> QED BY <1>2, <1>3

-----------------------------------------------------------------------------
\* A journal whose lines are all terminated.
Terminated(j) == \A i \in 1..Len(j) : j[i].end = "newline"

\* Appending a state to a terminated journal.
LEMMA AppendToTerminated ==
    ASSUME NEW j \in Seq(Line), Terminated(j), NEW line \in Line
    PROVE  /\ AppendLine(j, line) \in Seq(Line)
           /\ Len(AppendLine(j, line)) = Len(j) + 1
           /\ AppendLine(j, line)[Len(j) + 1] = line
           /\ \A i \in 1..Len(j) : AppendLine(j, line)[i] = j[i]
           /\ line.end = "newline" => Terminated(AppendLine(j, line))
<1>1. ~Unterminated(j)
  BY LenProperties DEF Terminated, Unterminated
<1>2. Len(j) \in Nat
  BY LenProperties
<1> DEFINE k == AppendLine(j, line)
<1>3. /\ k \in Seq(Line) /\ Len(k) = Len(j) + 1 /\ k[Len(j) + 1] = line
      /\ \A i \in 1..Len(j) : k[i] = j[i]
  BY <1>1, AppendLineFacts
<1> HIDE DEF k
<1>4. ASSUME line.end = "newline", NEW i \in 1..Len(k)
      PROVE  k[i].end = "newline"
  <2>1. i \in 1..Len(j) \/ i = Len(j) + 1
    BY <1>2, <1>3
  <2> QED BY <1>3, <1>4, <2>1 DEF Terminated
<1>5. line.end = "newline" => Terminated(k)
  BY <1>4 DEF Terminated
<1> QED BY <1>3, <1>5 DEF k

\* What write_new_journal leaves: a header and a "prepared" line, both complete.
LEMMA NewJournalFacts ==
    /\ NewJournal \in Seq(Line) /\ Len(NewJournal) = 2 /\ Terminated(NewJournal)
    /\ NewJournal[1].text = "header" /\ NewJournal[2].text = "prepared"
<1> DEFINE hdr == [text |-> "header", end |-> "newline"]
           prp == [text |-> "prepared", end |-> "newline"]
           one == AppendLine(<<>>, hdr)
<1>1. /\ hdr \in Line /\ hdr.text = "header" /\ hdr.end = "newline"
      /\ prp \in Line /\ prp.text = "prepared" /\ prp.end = "newline"
  BY DEF Line, States
<1>2. <<>> \in Seq(Line) /\ Terminated(<<>>) /\ Len(<<>>) = 0
  BY DEF Terminated
<1>3. NewJournal = AppendLine(one, prp)
  BY DEF NewJournal, AppendText
<1> HIDE DEF hdr, prp
<1>4. one \in Seq(Line) /\ Len(one) = 1 /\ one[1] = hdr /\ Terminated(one)
  <2>1. /\ one \in Seq(Line) /\ Len(one) = Len(<<>>) + 1 /\ one[Len(<<>>) + 1] = hdr
        /\ Terminated(one)
    BY <1>1, <1>2, AppendToTerminated
  <2> QED BY <1>2, <2>1
<1> HIDE DEF one
<1>5. LET two == AppendLine(one, prp)
      IN  /\ two \in Seq(Line) /\ Len(two) = Len(one) + 1 /\ Terminated(two)
          /\ two[Len(one) + 1] = prp /\ \A i \in 1..Len(one) : two[i] = one[i]
  BY <1>1, <1>4, AppendToTerminated
<1>6. NewJournal[1] = hdr /\ NewJournal[2] = prp
  BY <1>3, <1>4, <1>5
<1> QED BY <1>1, <1>3, <1>4, <1>5, <1>6

-----------------------------------------------------------------------------
(* What read_journal returns after one more line.                          *)

\* A state that may follow the last one is the state read next, with or
\* without its newline.
LEMMA ReadAfterState ==
    ASSUME NEW j \in Seq(Line), Terminated(j), Readable(j),
           NEW text \in States, ValidTransition(ReadJournal(j), text),
           NEW end \in {"newline", "eof"}
    PROVE  ReadJournal(AppendLine(j, [text |-> text, end |-> end])) = text
<1> DEFINE line == [text |-> text, end |-> end]
           k == AppendLine(j, line)
<1>1. line \in Line /\ line.text = text /\ text # "garbage"
  BY DEF Line, States
<1> HIDE DEF line
<1>2. /\ k \in Seq(Line) /\ Len(k) = Len(j) + 1 /\ k[Len(j) + 1] = line
      /\ \A i \in 1..Len(j) : k[i] = j[i]
  BY <1>1, AppendToTerminated
<1>3. Len(j) \in Nat /\ Parsed(j) = Len(j) /\ Len(j) >= 2
  BY LenProperties DEF Parsed, Unterminated, Terminated, Readable
<1> HIDE DEF k
<1>4. Parsed(k) = Len(j) + 1
  BY <1>1, <1>2 DEF Parsed
<1>5. k[1].text = "header" /\ k[2].text = "prepared"
  BY <1>2, <1>3 DEF Readable
<1>6. ASSUME NEW i \in 3..Parsed(k)
      PROVE  ValidTransition(k[i - 1].text, k[i].text)
  <2>1. CASE i \in 3..Len(j)
    BY <1>2, <1>3, <2>1 DEF Readable
  <2>2. CASE i = Len(j) + 1
    BY <1>1, <1>2, <1>3, <2>2 DEF ReadJournal
  <2> QED BY <1>3, <1>4, <2>1, <2>2
<1>7. Readable(k)
  BY <1>3, <1>4, <1>5, <1>6 DEF Readable
<1> QED BY <1>1, <1>2, <1>4, <1>7 DEF ReadJournal, k, line

\* A torn line at the end of the file is not there for the reader.
LEMMA ReadAfterTorn ==
    ASSUME NEW j \in Seq(Line), Terminated(j)
    PROVE  ReadJournal(AppendLine(j, [text |-> "garbage", end |-> "eof"]))
               = ReadJournal(j)
<1> DEFINE line == [text |-> "garbage", end |-> "eof"]
           k == AppendLine(j, line)
<1>1. line \in Line /\ line.text = "garbage" /\ line.end = "eof"
  BY DEF Line
<1> HIDE DEF line
<1>2. /\ k \in Seq(Line) /\ Len(k) = Len(j) + 1 /\ k[Len(j) + 1] = line
      /\ \A i \in 1..Len(j) : k[i] = j[i]
  BY <1>1, AppendToTerminated
<1>3. Len(j) \in Nat /\ Parsed(j) = Len(j)
  BY LenProperties DEF Parsed, Unterminated, Terminated
<1> HIDE DEF k
<1>4. Parsed(k) = Len(j)
  BY <1>1, <1>2, <1>3 DEF Parsed, Unterminated
<1>5. CASE Len(j) < 2
  BY <1>3, <1>4, <1>5 DEF ReadJournal, Readable, k, line
<1>6. CASE Len(j) >= 2
  <2>1. /\ k[1] = j[1] /\ k[2] = j[2] /\ k[Len(j)] = j[Len(j)]
        /\ \A i \in 3..Len(j) : k[i] = j[i] /\ k[i - 1] = j[i - 1]
    BY <1>2, <1>3, <1>6
  <2>2. Readable(k) <=> Readable(j)
    BY <1>3, <1>4, <2>1 DEF Readable
  <2> QED BY <1>3, <1>4, <2>1, <2>2 DEF ReadJournal, k, line
<1> QED BY <1>3, <1>5, <1>6

\* A garbled line that is not the last bytes of the file makes the journal
\* unreadable; one that is takes the reader back to the line before it.
LEMMA ReadAfterGarbling ==
    ASSUME NEW j \in Seq(Line), Unterminated(j), Len(j) > 2, NEW line \in Line
    PROVE  /\ line.end = "newline" => ReadJournal(AppendLine(j, line)) = "unreadable"
           /\ line.end = "eof" => Parsed(AppendLine(j, line)) = Len(j) - 1
<1> DEFINE k == AppendLine(j, line)
<1>1. /\ Len(k) = Len(j) /\ k[Len(j)].text = "garbage" /\ k[Len(j)].end = line.end
  BY AppendLineFacts
<1>2. Len(j) \in Nat
  BY LenProperties
<1> HIDE DEF k
<1>3. ASSUME line.end = "newline" PROVE ~Readable(k)
  <2>1. Parsed(k) = Len(j)
    BY <1>1, <1>3 DEF Parsed, Unterminated
  <2>2. Len(j) \in 3..Parsed(k) /\ ~ValidTransition(k[Len(j) - 1].text, k[Len(j)].text)
    BY <1>1, <1>2, <2>1 DEF ValidTransition
  <2> QED BY <2>2 DEF Readable
<1>4. ASSUME line.end = "eof" PROVE Parsed(k) = Len(j) - 1
  BY <1>1, <1>2, <1>4 DEF Parsed, Unterminated
<1> QED BY <1>3, <1>4 DEF k, ReadJournal

\* The reader returns a state or an error.
LEMMA ReadJournalRange ==
    ASSUME NEW j \in Seq(Line)
    PROVE  ReadJournal(j) \in States \cup {"unreadable"}
<1>1. CASE ~Readable(j)
  BY <1>1 DEF ReadJournal
<1>2. CASE Readable(j)
  <2>1. Len(j) \in Nat
    BY LenProperties
  <2>2. Parsed(j) \in Nat /\ Parsed(j) >= 2
    BY <1>2, <2>1 DEF Parsed, Readable
  <2>3. CASE Parsed(j) = 2
    BY <1>2, <2>3 DEF ReadJournal, Readable, States
  <2>4. CASE Parsed(j) > 2
    <3>1. Parsed(j) \in 3..Parsed(j)
      BY <2>2, <2>4
    <3>2. ValidTransition(j[Parsed(j) - 1].text, j[Parsed(j)].text)
      BY <1>2, <3>1 DEF Readable
    <3> QED BY <1>2, <3>2 DEF ReadJournal, ValidTransition, States
  <2> QED BY <2>2, <2>3, <2>4
<1> QED BY <1>1, <1>2

\* Both journals a commit may leave unterminated are long enough for that.
LEMMA GarblingUnreadable ==
    ASSUME NEW j \in Seq(Line), Unterminated(j), Len(j) \in {3, 4},
           NEW line \in Line
    PROVE  /\ line.end = "newline" => ReadJournal(AppendLine(j, line)) = "unreadable"
           /\ line.end = "eof" => Parsed(AppendLine(j, line)) = Len(j) - 1
<1>1. Len(j) > 2
  OBVIOUS
<1> QED BY <1>1, ReadAfterGarbling

-----------------------------------------------------------------------------
(* The journals of a job.                                                  *)

\* read_journal takes a new journal for a prepared job.
LEMMA ReadNewJournal ==
    ReadJournal(NewJournal) = "prepared" /\ Readable(NewJournal)
<1>1. Parsed(NewJournal) = 2
  BY NewJournalFacts DEF Parsed, Unterminated, Terminated
<1>2. Readable(NewJournal)
  BY NewJournalFacts, <1>1 DEF Readable
<1> QED BY <1>1, <1>2, NewJournalFacts DEF ReadJournal

\* The journal of a commit, as append_state leaves it, is read as committing.
LEMMA CommittingFacts ==
    /\ Committing \in Seq(Line) /\ Len(Committing) = 3 /\ Terminated(Committing)
    /\ ReadJournal(Committing) = "committing" /\ Readable(Committing)
<1> DEFINE line == [text |-> "committing", end |-> "newline"]
<1>1. line \in Line /\ line.end = "newline"
  BY DEF Line, States
<1>2. Committing = AppendLine(NewJournal, line)
  BY DEF Committing, AppendText
<1>3. ReadJournal(Committing) = "committing"
  BY <1>2, ReadAfterState, NewJournalFacts, ReadNewJournal DEF ValidTransition, States
<1>4. Readable(Committing)
  BY <1>3 DEF ReadJournal
<1> HIDE DEF line
<1>5. /\ Committing \in Seq(Line) /\ Len(Committing) = Len(NewJournal) + 1
      /\ Terminated(Committing)
  BY <1>1, <1>2, AppendToTerminated, NewJournalFacts
<1> QED BY <1>3, <1>4, <1>5, NewJournalFacts

\* Without its last newline the "committing" line is still read.
LEMMA BareCommittingFacts ==
    /\ BareCommitting \in Seq(Line) /\ Len(BareCommitting) = 3
    /\ Unterminated(BareCommitting) /\ BareCommitting # Committing
    /\ BareCommitting[1].text = "header" /\ BareCommitting[2].text = "prepared"
    /\ ReadJournal(BareCommitting) = "committing"
<1> DEFINE line == [text |-> "committing", end |-> "eof"]
<1>1. line \in Line /\ line.end = "eof"
  BY DEF Line, States
<1>2. BareCommitting = AppendLine(NewJournal, line)
  BY DEF BareCommitting, Interrupted
<1>3. ReadJournal(BareCommitting) = "committing"
  BY <1>2, ReadAfterState, NewJournalFacts, ReadNewJournal DEF ValidTransition, States
<1> HIDE DEF line
<1>4. /\ BareCommitting \in Seq(Line) /\ Len(BareCommitting) = 3
      /\ BareCommitting[3] = line
      /\ BareCommitting[1] = NewJournal[1] /\ BareCommitting[2] = NewJournal[2]
  <2>1. /\ BareCommitting \in Seq(Line)
        /\ Len(BareCommitting) = Len(NewJournal) + 1
        /\ BareCommitting[Len(NewJournal) + 1] = line
        /\ \A i \in 1..Len(NewJournal) : BareCommitting[i] = NewJournal[i]
    BY <1>1, <1>2, AppendToTerminated, NewJournalFacts
  <2> QED BY <2>1, NewJournalFacts
<1>5. Unterminated(BareCommitting)
  BY <1>1, <1>4 DEF Unterminated
<1>6. ~Unterminated(Committing)
  BY CommittingFacts DEF Terminated, Unterminated
<1> QED BY <1>3, <1>4, <1>5, <1>6, NewJournalFacts

\* A torn "committed" line is dropped by read_journal: the job is committing.
LEMMA TornCommittingFacts ==
    /\ TornCommitting \in Seq(Line) /\ Len(TornCommitting) = 4
    /\ Unterminated(TornCommitting)
    /\ TornCommitting[4] = [text |-> "garbage", end |-> "eof"]
    /\ ReadJournal(TornCommitting) = "committing"
<1> DEFINE line == [text |-> "garbage", end |-> "eof"]
<1>1. line \in Line /\ line.end = "eof"
  BY DEF Line
<1>2. TornCommitting = AppendLine(Committing, line)
  BY DEF TornCommitting, Interrupted
<1>3. ReadJournal(TornCommitting) = "committing"
  BY <1>2, ReadAfterTorn, CommittingFacts
<1> HIDE DEF line
<1>4. /\ TornCommitting \in Seq(Line) /\ Len(TornCommitting) = 4
      /\ TornCommitting[4] = line
  <2>1. /\ TornCommitting \in Seq(Line)
        /\ Len(TornCommitting) = Len(Committing) + 1
        /\ TornCommitting[Len(Committing) + 1] = line
    BY <1>1, <1>2, AppendToTerminated, CommittingFacts
  <2> QED BY <2>1, CommittingFacts
<1>5. Unterminated(TornCommitting)
  BY <1>1, <1>4 DEF Unterminated
<1> QED BY <1>3, <1>4, <1>5 DEF line

\* The creation of a journal, interrupted anywhere.
LEMMA PrefixFacts ==
    ASSUME NEW j \in NewJournalPrefixes
    PROVE  j \in Seq(Line) /\ ReadJournal(j) \in {"prepared", "unreadable"}
<1> DEFINE one == AppendText(<<>>, "header")
           g == [text |-> "garbage", end |-> "eof"]
           prp == [text |-> "prepared", end |-> "eof"]
<1>1. <<>> \in Seq(Line) /\ Len(<<>>) = 0 /\ Terminated(<<>>)
  BY DEF Terminated
<1>2. ASSUME NEW i \in Seq(Line), Len(i) \in {0, 1} PROVE ReadJournal(i) = "unreadable"
  <2>1. Len(i) \in Nat
    BY <1>2, LenProperties
  <2>2. Parsed(i) <= 1
    BY <1>2, <2>1 DEF Parsed
  <2> QED BY <2>1, <2>2 DEF ReadJournal, Readable, Parsed
<1>3. ASSUME NEW line \in Line
      PROVE  AppendLine(<<>>, line) \in Seq(Line) /\ Len(AppendLine(<<>>, line)) = 1
  <2>1. /\ AppendLine(<<>>, line) \in Seq(Line)
        /\ Len(AppendLine(<<>>, line)) = Len(<<>>) + 1
    BY <1>1, <1>3, AppendToTerminated
  <2> QED BY <1>1, <2>1
<1>4. one \in Seq(Line) /\ Len(one) = 1 /\ Terminated(one)
  <2> DEFINE hdr == [text |-> "header", end |-> "newline"]
  <2>1. hdr \in Line /\ hdr.end = "newline" /\ one = AppendLine(<<>>, hdr)
    BY DEF Line, AppendText
  <2> HIDE DEF hdr, one
  <2> QED BY <2>1, <1>1, <1>3, AppendToTerminated
<1>5. ASSUME NEW cut \in Cuts
      PROVE  /\ Interrupted(<<>>, "header", cut) \in Seq(Line)
             /\ Len(Interrupted(<<>>, "header", cut)) \in {0, 1}
  <2>1. \A b \in {"newline", "eof"} : /\ [text |-> "header", end |-> b] \in Line
                                      /\ [text |-> "garbage", end |-> b] \in Line
    BY DEF Line
  <2>2. CASE cut = "lost"
    BY <1>1, <2>2 DEF Interrupted
  <2>3. ASSUME cut # "lost"
        PROVE  \E line \in Line : Interrupted(<<>>, "header", cut) = AppendLine(<<>>, line)
    BY <2>1, <2>3 DEF Interrupted, AppendText, Cuts
  <2>4. CASE cut # "lost"
    <3>1. PICK line \in Line : Interrupted(<<>>, "header", cut) = AppendLine(<<>>, line)
      BY <2>3, <2>4
    <3>2. AppendLine(<<>>, line) \in Seq(Line) /\ Len(AppendLine(<<>>, line)) = 1
      BY <1>3
    <3> QED BY <3>1, <3>2
  <2> QED BY <2>2, <2>4
<1>6. ASSUME NEW cut \in Cuts
      PROVE  /\ Interrupted(one, "prepared", cut) \in Seq(Line)
             /\ ReadJournal(Interrupted(one, "prepared", cut)) \in {"prepared", "unreadable"}
  <2>1. Interrupted(one, "prepared", cut) \in Seq(Line)
    BY <1>4, InterruptedType DEF States
  <2>2. CASE cut = "lost"
    <3>1. Interrupted(one, "prepared", cut) = one
      BY <2>2 DEF Interrupted
    <3> HIDE DEF one
    <3>2. ReadJournal(one) = "unreadable"
      BY <1>2, <1>4
    <3> QED BY <2>1, <3>1, <3>2
  <2>3. CASE cut = "partial"
    <3>1. Interrupted(one, "prepared", cut) = AppendLine(one, g)
      BY <2>3 DEF Interrupted
    <3> HIDE DEF one, g
    <3>2. ReadJournal(AppendLine(one, g)) = ReadJournal(one)
      BY <1>4, ReadAfterTorn DEF g
    <3>3. ReadJournal(one) = "unreadable"
      BY <1>2, <1>4
    <3> QED BY <2>1, <3>1, <3>2, <3>3
  <2>4. CASE cut = "bare"
    <3>1. Interrupted(one, "prepared", cut) = AppendLine(one, prp)
      BY <2>4 DEF Interrupted
    <3>2. prp \in Line /\ prp.text = "prepared"
      BY DEF Line, States
    <3> HIDE DEF one, prp
    <3>3. /\ AppendLine(one, prp) \in Seq(Line) /\ Len(AppendLine(one, prp)) = 2
          /\ AppendLine(one, prp)[2] = prp
      <4>1. /\ AppendLine(one, prp) \in Seq(Line)
            /\ Len(AppendLine(one, prp)) = Len(one) + 1
            /\ AppendLine(one, prp)[Len(one) + 1] = prp
        BY <1>4, <3>2, AppendToTerminated
      <4> QED BY <1>4, <4>1
    <3>4. Parsed(AppendLine(one, prp)) = 2
      BY <3>2, <3>3 DEF Parsed
    <3> QED BY <2>1, <3>1, <3>2, <3>3, <3>4 DEF ReadJournal
  <2>5. CASE cut = "whole"
    BY <2>1, <2>5, ReadNewJournal DEF Interrupted, NewJournal
  <2> QED BY <2>2, <2>3, <2>4, <2>5 DEF Cuts
<1> QED BY <1>2, <1>5, <1>6 DEF NewJournalPrefixes

\* The append of "committing", interrupted.
LEMMA CommittingInterrupted ==
    ASSUME NEW cut \in Cuts
    PROVE  LET j == Interrupted(NewJournal, "committing", cut)
           IN  ReadJournal(j) = "prepared" \/ j \in {Committing, BareCommitting}
<1>1. CASE cut = "lost"
  BY <1>1, ReadNewJournal DEF Interrupted
<1>2. CASE cut = "partial"
  BY <1>2, ReadNewJournal, ReadAfterTorn, NewJournalFacts DEF Interrupted
<1>3. CASE cut = "bare"
  BY <1>3 DEF BareCommitting
<1>4. CASE cut = "whole"
  BY <1>4 DEF Interrupted, Committing
<1> QED BY <1>1, <1>2, <1>3, <1>4 DEF Cuts

\* The append of a final state to the journal of a running commit, complete
\* or interrupted.
LEMMA FinalInterrupted ==
    ASSUME NEW cut \in Cuts, NEW text \in {"committed", "rolling_back"}
    PROVE  LET j == Interrupted(Committing, text, cut)
           IN  /\ cut \in {"lost", "partial"} => j \in {Committing, TornCommitting}
               /\ cut \in {"bare", "whole"} => ReadJournal(j) = text
<1>1. CASE cut = "lost"
  BY <1>1 DEF Interrupted
<1>2. CASE cut = "partial"
  BY <1>2 DEF Interrupted, TornCommitting
<1>3. /\ ReadJournal(AppendLine(Committing, [text |-> text, end |-> "eof"])) = text
      /\ ReadJournal(AppendLine(Committing, [text |-> text, end |-> "newline"])) = text
  BY CommittingFacts, ReadAfterState DEF ValidTransition, States
<1>4. CASE cut = "bare"
  BY <1>3, <1>4 DEF Interrupted
<1>5. CASE cut = "whole"
  BY <1>3, <1>5 DEF Interrupted, AppendText
<1> QED BY <1>1, <1>2, <1>4, <1>5 DEF Cuts

\* The append of "rolling_back" after a torn line: it is lost in that line.
LEMMA TornInterrupted ==
    ASSUME NEW cut \in Cuts
    PROVE  LET j == Interrupted(TornCommitting, "rolling_back", cut)
           IN  j = TornCommitting \/ ReadJournal(j) = "unreadable"
<1> DEFINE T == TornCommitting
           g == [text |-> "garbage", end |-> "eof"]
<1>1. T \in Seq(Line) /\ Len(T) = 4 /\ Unterminated(T) /\ T[4] = g /\ g \in Line
  BY TornCommittingFacts DEF Line
<1>2. [T EXCEPT ![4] = g] = T
  <2>1. DOMAIN T = 1..4 /\ T = [i \in 1..4 |-> T[i]]
    BY <1>1
  <2> HIDE DEF T, g
  <2> QED BY <1>1, <2>1
<1>3. ASSUME NEW line \in Line, line.end = "eof" PROVE AppendLine(T, line) = T
  BY <1>1, <1>2, <1>3 DEF AppendLine
<1>4. ASSUME NEW line \in Line, line.end = "newline"
      PROVE  ReadJournal(AppendLine(T, line)) = "unreadable"
  <2>1. Len(T) \in {3, 4}
    BY <1>1
  <2> HIDE DEF T
  <2> QED BY <1>1, <1>4, <2>1, GarblingUnreadable
<1> DEFINE b == [text |-> "rolling_back", end |-> "eof"]
           w == [text |-> "rolling_back", end |-> "newline"]
<1>5. b \in Line /\ b.end = "eof" /\ w \in Line /\ w.end = "newline" /\ g.end = "eof"
  BY DEF Line, States
<1>6. Interrupted(T, "rolling_back", cut)
          \in {T, AppendLine(T, g), AppendLine(T, b), AppendLine(T, w)}
  BY DEF Interrupted, AppendText, Cuts
<1> HIDE DEF T, g, b, w
<1>7. /\ AppendLine(T, g) = T /\ AppendLine(T, b) = T
      /\ ReadJournal(AppendLine(T, w)) = "unreadable"
  BY <1>1, <1>3, <1>4, <1>5
<1> QED BY <1>6, <1>7 DEF T

\* The same after a "committing" without newline: that state is lost too, and
\* the reader is back at "prepared", or cannot read the journal any more.
LEMMA BareInterrupted ==
    ASSUME NEW cut \in Cuts
    PROVE  LET j == Interrupted(BareCommitting, "rolling_back", cut)
           IN  j = BareCommitting \/ ReadJournal(j) \in {"prepared", "unreadable"}
<1> DEFINE B == BareCommitting
           g == [text |-> "garbage", end |-> "eof"]
           b == [text |-> "rolling_back", end |-> "eof"]
           w == [text |-> "rolling_back", end |-> "newline"]
<1>1. /\ g \in Line /\ g.end = "eof" /\ b \in Line /\ b.end = "eof"
      /\ w \in Line /\ w.end = "newline"
  BY DEF Line, States
<1>2. Interrupted(B, "rolling_back", cut)
          \in {B, AppendLine(B, g), AppendLine(B, b), AppendLine(B, w)}
  BY DEF Interrupted, AppendText, Cuts
<1> HIDE DEF g, b, w
<1>3. ASSUME NEW line \in Line, line.end = "eof"
      PROVE  ReadJournal(AppendLine(B, line)) \in {"prepared", "unreadable"}
  <2> DEFINE k == AppendLine(B, line)
  <2>1. \A i \in 1..(Len(B) - 1) : k[i] = B[i]
    BY BareCommittingFacts, AppendLineFacts
  <2>2. k[2] = B[2]
    BY <2>1, BareCommittingFacts
  <2>3. Parsed(k) = Len(B) - 1
    <3>1. B \in Seq(Line) /\ Unterminated(B) /\ Len(B) \in {3, 4}
      BY BareCommittingFacts
    <3> HIDE DEF B
    <3> QED BY <1>3, <3>1, GarblingUnreadable
  <2>4. Parsed(k) = 2
    BY <2>3, BareCommittingFacts
  <2> HIDE DEF k
  <2> QED BY <2>2, <2>4, BareCommittingFacts DEF ReadJournal, k
<1>4. ReadJournal(AppendLine(B, w)) = "unreadable"
  <2>1. B \in Seq(Line) /\ Unterminated(B) /\ Len(B) \in {3, 4}
    BY BareCommittingFacts
  <2> HIDE DEF B
  <2> QED BY <1>1, <2>1, GarblingUnreadable
<1> HIDE DEF B
<1>5. /\ ReadJournal(AppendLine(B, g)) \in {"prepared", "unreadable"}
      /\ ReadJournal(AppendLine(B, b)) \in {"prepared", "unreadable"}
  BY <1>1, <1>3
<1> QED BY <1>2, <1>4, <1>5 DEF B

\* The append of "rolling_back" by a commit or by recovery.
LEMMA RollingBackAppended ==
    ASSUME NEW j \in CommittingJournals
    PROVE  ReadJournal(AppendText(j, "rolling_back")) \in {"rolling_back", "unreadable"}
<1> DEFINE w == [text |-> "rolling_back", end |-> "newline"]
<1>1. w \in Line /\ w.end = "newline" /\ AppendText(j, "rolling_back") = AppendLine(j, w)
  BY DEF Line, States, AppendText
<1>2. CASE j = Committing
  BY <1>2, FinalInterrupted DEF Interrupted, Cuts
<1> HIDE DEF w
<1>3. CASE j = TornCommitting
  <2>1. j \in Seq(Line) /\ Unterminated(j) /\ Len(j) \in {3, 4}
    BY <1>3, TornCommittingFacts
  <2> QED BY <1>1, <2>1, GarblingUnreadable
<1>4. CASE j = BareCommitting
  <2>1. j \in Seq(Line) /\ Unterminated(j) /\ Len(j) \in {3, 4}
    BY <1>4, BareCommittingFacts
  <2> QED BY <1>1, <2>1, GarblingUnreadable
<1> QED BY <1>2, <1>3, <1>4 DEF CommittingJournals

\* However an append of "rolling_back" ends, the job is never read as committed.
LEMMA RollingBackInterrupted ==
    ASSUME NEW j \in CommittingJournals, NEW cut \in Cuts
    PROVE  LET k == Interrupted(j, "rolling_back", cut)
           IN  \/ k \in CommittingJournals /\ (k = BareCommitting => j = BareCommitting)
               \/ ReadJournal(k) \in {"rolling_back", "unreadable"}
               \/ ReadJournal(k) = "prepared" /\ j = BareCommitting
<1>0. TornCommitting # BareCommitting /\ Committing # BareCommitting
  <2>1. Len(TornCommitting) = 4 /\ Len(BareCommitting) = 3
    BY TornCommittingFacts, BareCommittingFacts
  <2>2. Committing # BareCommitting
    BY BareCommittingFacts
  <2>3. ASSUME TornCommitting = BareCommitting PROVE FALSE
    <3>1. Len(TornCommitting) = Len(BareCommitting)
      BY <2>3
    <3> QED BY <2>1, <3>1
  <2> QED BY <2>2, <2>3
<1>1. CASE j = Committing
  BY <1>0, <1>1, FinalInterrupted DEF Cuts, CommittingJournals
<1>2. CASE j = TornCommitting
  BY <1>0, <1>2, TornInterrupted DEF CommittingJournals
<1>3. CASE j = BareCommitting
  BY <1>3, BareInterrupted DEF CommittingJournals
<1> QED BY <1>1, <1>2, <1>3 DEF CommittingJournals

\* Every journal a commit may leave before "committed" is read as committing.
LEMMA ReadCommitting ==
    ASSUME NEW j \in CommittingJournals
    PROVE  j \in Seq(Line) /\ ReadJournal(j) = "committing"
  BY CommittingFacts, BareCommittingFacts, TornCommittingFacts DEF CommittingJournals

-----------------------------------------------------------------------------
(***************************************************************************)
(* The job                                                                 *)
(***************************************************************************)

\* The assumption of the theorems that name it: an append of "committed" that
\* returned an error did not leave a readable "committed" line behind.
CommitErrorsHonest == CommitErrorCuts \subseteq {"lost", "partial"}

-----------------------------------------------------------------------------
(* The inductive invariant *)

JState == IF jobDir = "journal" THEN ReadJournal(journal) ELSE "none"
Untouched == Entry \ touched

Clean(e) == target[e] = original[e] /\ backup[e] = "absent"
Swapped(e) == target[e] = NewContent(e) /\ backup[e] = original[e]
Displaced(e) == target[e] = "absent" /\ backup[e] = original[e]
Undoable(e) ==
    \/ Clean(e)
    \/ original[e] # "absent" /\ backup[e] = original[e]
    \/ original[e] = "absent"
NoBackups == \A e \in Entry : backup[e] = "absent"

Idle == {"down", "serving", "recover"}
Early == {"copy", "inspect", "write_journal", "stage", "prepared", "append_committing"}
Finishing == {"cleanup", "forget"}

\* Which call each step belongs to.
FlowInv ==
    /\ pc \in Idle \cup Early \cup Applying \cup {"append_committed"} => flow = "none"
    /\ pc \in {"append_rolling_back"} \cup Undoing => flow \in {"undo", "recover_undo"}
    /\ pc \in Finishing => flow # "none"
    /\ pc \in Early \cup Applying \cup {"append_committed"}
           \/ flow \in {"abort", "commit", "undo"} => report = "none"

\* What the journal says at each step.
JournalInv ==
    /\ pc \in {"copy", "inspect", "write_journal"} => jobDir = "dir"
    /\ pc \in {"stage", "prepared", "append_committing"} =>
           jobDir = "journal" /\ journal = NewJournal
    /\ pc \in Applying \cup {"append_committed"} =>
           jobDir = "journal" /\ journal = Committing
    /\ pc = "append_rolling_back" =>
           /\ jobDir = "journal" /\ journal \in CommittingJournals
           /\ flow = "undo" => journal # BareCommitting
    /\ pc \in Undoing =>
           jobDir = "journal" /\ JState \in {"committing", "rolling_back", "unreadable"}
                /\ journal # BareCommitting
    /\ pc \in Finishing =>
           /\ jobDir # "none"
           /\ flow = "abort" => JState \in {"none", "prepared", "unreadable"}
           /\ flow \in {"commit", "recover_commit"} => JState \in {"none", "committed"}
           /\ flow \in {"undo", "recover_undo"} =>
                  /\ JState \in {"none", "committing", "rolling_back", "unreadable"}
                  /\ journal # BareCommitting
           /\ flow = "recover_discard" => JState \in {"none", "prepared"}
    /\ JState = "committing" => journal \in CommittingJournals

\* Where the files are, as far as the journal tells.
ContentInv ==
    /\ \A e \in Entry : original[e] = "absent" => backup[e] = "absent"
    /\ JState \in {"none", "prepared"} \/ pc \in Early \/ flow = "abort"
           \/ pc = "forget" \/ (JState = "committing" /\ journal = BareCommitting)
           => NoBackups
    /\ JState = "none" => AllOld \/ AllNew
    /\ JState = "prepared" \/ pc = "write_journal"
           \/ (JState = "committing" /\ journal = BareCommitting) => AllOld
    /\ JState \in {"committing", "rolling_back", "unreadable"} =>
           \A e \in Untouched : Undoable(e)
    /\ JState = "committed" => AllNew

\* How far apply_entries, rollback_entries and cleanup_job are.
ProgressInv ==
    /\ pc = "apply" => at \in 1..(N + 1)
    /\ pc \in {"install", "replace"} => at \in Replaced
    /\ pc \in Applying => \A e \in Untouched : /\ e < at => Swapped(e)
                                               /\ e > at => Clean(e)
    /\ pc \in {"apply", "replace"} => \A e \in Untouched : e = at => Clean(e)
    /\ pc = "install" => \A e \in Untouched : e = at => Displaced(e)
    /\ pc = "append_committed" => \A e \in Untouched : Swapped(e)
    /\ pc \in Undoing => \A e \in Untouched : e > at => Clean(e)
    /\ pc = "restore" => at \in Entry /\ HasBackup(at)
    /\ pc = "rollback" => at \in 0..N
    /\ pc \in Finishing /\ flow \in {"undo", "recover_undo"} =>
           \A e \in Untouched : Clean(e)
    /\ pc \in Finishing /\ flow \in {"abort", "recover_discard"} /\ jobDir = "journal" =>
           AllOld
    /\ pc \in Finishing /\ flow \in {"commit", "recover_commit"} => AllNew

\* What was reported and what may still happen to the job.
ReportInv ==
    /\ report = "committed" =>
           AllNew /\ JState \in {"none", "committed"} /\ flow \in {"none", "recover_commit"}
    /\ report = "rolledBack" =>
           /\ \A e \in Untouched : Clean(e)
           /\ JState # "committed" /\ flow \in {"none", "recover_discard", "recover_undo"}
    /\ report = "failed" =>
           JState # "committed" /\ flow \in {"none", "recover_discard", "recover_undo"}

IInv == TypeOK /\ FlowInv /\ JournalInv /\ ContentInv /\ ProgressInv /\ ReportInv
-----------------------------------------------------------------------------
(* Types.  TypeOK is not inductive by itself: RestoreBackup counts at down *)
(* and must not be at entry 0.                                             *)

TInv == TypeOK /\ (pc = "restore" => at \in Entry)

RootType == [Entry -> Content] \X [Entry -> Content] \X SUBSET Replaced
JobType == {"none", "dir", "journal"} \X Seq(Line) \X [Entry -> Content]

\* Whatever is appended, and however that is interrupted, leaves lines.
LEMMA JournalTypes ==
    ASSUME journal \in Seq(Line)
    PROVE  /\ NewJournal \in Seq(Line) /\ NewJournalPrefixes \subseteq Seq(Line)
           /\ \A text \in {"committing", "committed", "rolling_back"} :
                 /\ AppendText(journal, text) \in Seq(Line)
                 /\ \A cut \in CrashCuts \cup CommitErrorCuts :
                       Interrupted(journal, text, cut) \in Seq(Line)
<1>1. NewJournal \in Seq(Line) /\ NewJournalPrefixes \subseteq Seq(Line)
  BY NewJournalFacts, PrefixFacts
<1>2. ASSUME NEW text \in {"committing", "committed", "rolling_back"}
      PROVE  AppendText(journal, text) \in Seq(Line)
  BY InterruptedType DEF States, Cuts
<1>3. ASSUME NEW text \in {"committing", "committed", "rolling_back"},
             NEW cut \in CrashCuts \cup CommitErrorCuts
      PROVE  Interrupted(journal, text, cut) \in Seq(Line)
  <2>1. text \in States \cup {"header"} /\ cut \in Cuts
    BY ConstantsOK DEF States
  <2> QED BY <2>1, InterruptedType
<1> QED BY <1>1, <1>2, <1>3

\* What an interrupted prepare_job_contents leaves is well-typed.
LEMMA InterruptedPrepareType ==
    ASSUME TypeOK, InterruptedPrepare
    PROVE  rootFiles' \in RootType /\ jobFiles' \in JobType
<1> USE DEF TypeOK, RootType, JobType, rootFiles, jobFiles
<1>1. CASE UNCHANGED <<rootFiles, jobFiles>>
  BY <1>1
<1>2. CASE InterruptedCreation /\ UNCHANGED rootFiles
  <2>1. jobDir' = "journal" /\ journal' \in Seq(Line) /\ original' = original
    BY <1>2, NewJournalFacts, PrefixFacts DEF InterruptedCreation
  <2> QED BY <1>2, <2>1
<1>3. CASE /\ at \in Replaced /\ prepared' = prepared \cup {at}
           /\ UNCHANGED <<target, backup, jobFiles>>
  BY <1>3
<1> QED BY <1>1, <1>2, <1>3 DEF InterruptedPrepare

\* Every step preserves the types.
LEMMA TypeStep == TInv /\ [Next]_vars => TInv'
<1> SUFFICES ASSUME TInv, [Next]_vars PROVE TInv'
  OBVIOUS
<1> USE ConstantsOK DEF TInv, TypeOK, N, Entry, Replaced, Content, Flows, PCs,
        Recoveries, Preparing, Applying, Undoing, Appends,
        Goto, Return, StartupFails, rootFiles, jobFiles, process, vars
<1>0. /\ NewJournal \in Seq(Line) /\ <<>> \in Seq(Line)
      /\ \A text \in {"committing", "committed", "rolling_back"} :
            /\ AppendText(journal, text) \in Seq(Line)
            /\ \A cut \in CrashCuts \cup CommitErrorCuts :
                  Interrupted(journal, text, cut) \in Seq(Line)
  BY JournalTypes
<1>1. CASE CreateJob
  BY <1>1 DEF CreateJob
<1>2. CASE VerifyOriginalSnapshots
  BY <1>2 DEF VerifyOriginalSnapshots, OriginalsIntact
<1>3. CASE CommitRefused
  BY <1>3 DEF CommitRefused, OriginalsIntact
<1>4. CASE CopyPayloads
  BY <1>4 DEF CopyPayloads
<1>5. CASE InspectTargets
  BY <1>5 DEF InspectTargets
<1>6. CASE WriteNewJournal
  BY <1>6, <1>0 DEF WriteNewJournal
<1>7. CASE PrepareTargetPayload
  <2>1. at \in Replaced /\ at + 1 \in 0..(N + 1)
    BY <1>7 DEF PrepareTargetPayload
  <2> QED BY <1>7, <2>1 DEF PrepareTargetPayload
<1>8. CASE PrepareDone
  BY <1>8 DEF PrepareDone
<1>9. CASE PrepareRefused
  BY <1>9 DEF PrepareRefused, AbortPrepare
<1>10. CASE AppendCommitting
  <2>1. AppendText(journal, "committing") \in Seq(Line)
    BY <1>0
  <2> QED BY <1>10, <2>1 DEF AppendCommitting, AppendState
<1>11. CASE RenameTargetToBackup
  BY <1>11 DEF RenameTargetToBackup, Swaps, CanBackup
<1>12. CASE NothingToBackup
  BY <1>12 DEF NothingToBackup, Swaps
<1>13. CASE RenamePreparedToTarget
  BY <1>13 DEF RenamePreparedToTarget, CanInstall
<1>14. CASE CheckBeforeReplace
  BY <1>14 DEF CheckBeforeReplace, Swaps
<1>15. CASE AtomicReplaceTarget
  BY <1>15 DEF AtomicReplaceTarget, CanReplace
<1>16. CASE ApplyDone
  BY <1>16 DEF ApplyDone
<1>17. CASE ApplyRefused
  BY <1>17 DEF ApplyRefused, Swaps, CanBackup, CanInstall, CanReplace,
       StartUndo
<1>18. CASE AppendCommitted
  <2>1. AppendText(journal, "committed") \in Seq(Line)
    BY <1>0
  <2> QED BY <1>18, <2>1 DEF AppendCommitted, AppendState
<1>19. CASE AppendRollingBack
  <2>1. AppendText(journal, "rolling_back") \in Seq(Line)
    BY <1>0
  <2> QED BY <1>19, <2>1 DEF AppendRollingBack, AppendState, StartRollback
<1>20. CASE DeleteBeforeRestore
  BY <1>20 DEF DeleteBeforeRestore, HasBackup
<1>21. CASE RestoreBackup
  BY <1>21 DEF RestoreBackup
<1>22. CASE AtomicRestoreBackup
  BY <1>22 DEF AtomicRestoreBackup, HasBackup
<1>23. CASE DeleteTarget
  BY <1>23 DEF DeleteTarget, CreatedByJob, HasBackup
<1>24. CASE NothingToUndo
  BY <1>24 DEF NothingToUndo, HasBackup, CreatedByJob
<1>25. CASE RollbackDone
  BY <1>25 DEF RollbackDone
<1>26. CASE RollbackRefused
  BY <1>26 DEF RollbackRefused, LeaveIncomplete
<1>27. CASE CleanupReservedFile
  BY <1>27 DEF CleanupReservedFile
<1>28. CASE CleanupReservedDone
  BY <1>28 DEF CleanupReservedDone, ReservedEmpty
<1>29. CASE RemoveJournal
  BY <1>29, <1>0 DEF RemoveJournal
<1>30. CASE RemoveJobDirectory
  BY <1>30 DEF RemoveJobDirectory, CleanedUp
<1>31. CASE CleanupRefused
  BY <1>31 DEF CleanupRefused, LeaveUncleaned
<1>32. CASE StartRecovery
  BY <1>32 DEF StartRecovery
<1>33. CASE RecoverWithoutJournal
  BY <1>33 DEF RecoverWithoutJournal
<1>34. CASE RecoverPrepared
  BY <1>34 DEF RecoverPrepared, Found, RecoverInto
<1>35. CASE RecoverPreparedWithoutRoot
  BY <1>35 DEF RecoverPreparedWithoutRoot, Found, RecoverInto
<1>36. CASE RecoverCommitting
  BY <1>36 DEF RecoverCommitting, Found, RecoverInto
<1>37. CASE RecoverRollingBack
  BY <1>37 DEF RecoverRollingBack, Found
<1>38. CASE RecoverCommitted
  BY <1>38 DEF RecoverCommitted, Found, RecoverInto
<1>39. CASE RecoveryRefused
  BY <1>39 DEF RecoveryRefused, Found
<1>40. CASE CreatePayloadDirectoryFails
  BY <1>40 DEF CreatePayloadDirectoryFails
<1>41. CASE PrepareFails
  <2>1. rootFiles' \in RootType /\ jobFiles' \in JobType
    BY <1>41, InterruptedPrepareType DEF PrepareFails
  <2> QED BY <1>41, <2>1 DEF PrepareFails, AbortPrepare, RootType, JobType
<1>42. CASE VerifyFails
  BY <1>42 DEF VerifyFails
<1>43. CASE AppendCommittingFails
  <2>1. jobDir' = jobDir /\ original' = original /\ journal' \in Seq(Line)
    BY <1>43, <1>0 DEF AppendCommittingFails, FailedAppend
  <2> QED BY <1>43, <2>1 DEF AppendCommittingFails
<1>44. CASE ApplyFails
  BY <1>44 DEF ApplyFails, StartUndo
<1>45. CASE AppendCommittedFails
  <2>1. jobDir' = jobDir /\ original' = original /\ journal' \in Seq(Line)
    BY <1>45, <1>0 DEF AppendCommittedFails, FailedAppend
  <2> QED BY <1>45, <2>1 DEF AppendCommittedFails, StartUndo
<1>46. CASE AppendRollingBackFails
  <2>1. jobDir' = jobDir /\ original' = original /\ journal' \in Seq(Line)
    BY <1>46, <1>0 DEF AppendRollingBackFails, FailedAppend
  <2>2. CASE StartRollback
    BY <1>46, <2>1, <2>2 DEF StartRollback, AppendRollingBackFails
  <2>3. CASE StartupFails /\ UNCHANGED <<rootFiles, root, touched>>
    BY <1>46, <2>1, <2>3 DEF AppendRollingBackFails
  <2> QED BY <1>46, <2>2, <2>3 DEF AppendRollingBackFails
<1>47. CASE RollbackFails
  BY <1>47 DEF RollbackFails, LeaveIncomplete
<1>48. CASE CleanupFails
  BY <1>48 DEF CleanupFails, LeaveUncleaned
<1>49. CASE RecoveryFails
  BY <1>49 DEF RecoveryFails
<1>50. CASE Crash
  <2>1. rootFiles' \in RootType /\ jobFiles' \in JobType
    <3>1. CASE pc \in Preparing /\ InterruptedPrepare
      BY <3>1, InterruptedPrepareType
    <3>2. CASE /\ pc \in DOMAIN Appends /\ FailedAppend(Appends[pc], CrashCuts)
               /\ UNCHANGED rootFiles
      <4>1. Appends[pc] \in {"committing", "committed", "rolling_back"}
        BY <3>2
      <4>2. jobDir' = jobDir /\ original' = original /\ journal' \in Seq(Line)
        BY <3>2, <4>1, <1>0 DEF FailedAppend
      <4> QED BY <3>2, <4>2 DEF RootType, JobType
    <3>3. CASE UNCHANGED <<rootFiles, jobFiles>>
      BY <3>3 DEF RootType, JobType
    <3>4. CASE HalfReplaced
      BY <3>4 DEF HalfReplaced, CanReplace, RootType, JobType
    <3>5. CASE HalfRestored
      BY <3>5 DEF HalfRestored, RootType, JobType
    <3> QED BY <1>50, <3>1, <3>2, <3>3, <3>4, <3>5 DEF Crash
  <2> QED BY <1>50, <2>1 DEF Crash, RootType, JobType
<1>51. ASSUME NEW e \in Exposed, OthersChange(e) PROVE TInv'
  <2>1. e \in Entry
    OBVIOUS
  <2> QED BY <1>51, <2>1 DEF OthersChange
<1>52. CASE RootChanges
  BY <1>52 DEF RootChanges
<1>53. CASE ReplaceFailsHalfway
  BY <1>53 DEF ReplaceFailsHalfway, HalfReplaced, StartUndo, CanReplace
<1>54. CASE RestoreFailsHalfway
  BY <1>54 DEF RestoreFailsHalfway, HalfRestored, LeaveIncomplete, HasBackup
<1>55. CASE UNCHANGED vars
  BY <1>55
<1> QED
  BY <1>1, <1>2, <1>3, <1>4, <1>5, <1>6, <1>7, <1>8, <1>9, <1>10, <1>11,
       <1>12, <1>13, <1>14, <1>15, <1>16, <1>17, <1>18, <1>19, <1>20, <1>21,
       <1>22, <1>23, <1>24, <1>25, <1>26, <1>27, <1>28, <1>29, <1>30, <1>31,
       <1>32, <1>33, <1>34, <1>35, <1>36, <1>37, <1>38, <1>39, <1>40, <1>41,
       <1>42, <1>43, <1>44, <1>45, <1>46, <1>47, <1>48, <1>49, <1>50, <1>51,
       <1>52, <1>53, <1>54, <1>55 DEF Next, Request, Step, Failure, Environment

\* Every reachable state is well-typed.
THEOREM TypeCorrect == Spec => []TypeOK
<1>1. Init => TInv
  BY ConstantsOK DEF Init, TInv, TypeOK, N, Entry, Replaced, Content, PCs, Flows
<1>2. TInv => TypeOK
  BY DEF TInv
<1> QED BY <1>1, <1>2, TypeStep, PTL DEF Spec

-----------------------------------------------------------------------------
(* IInv is inductive.                                                      *)

\* Every step keeps the call each step belongs to.
LEMMA FlowStep == TypeOK /\ FlowInv /\ [Next]_vars => FlowInv'
<1> SUFFICES ASSUME TypeOK /\ FlowInv, [Next]_vars PROVE FlowInv'
  OBVIOUS
<1> USE DEF TypeOK, FlowInv, Idle, Early, Finishing, PCs, Flows, Recoveries, Preparing,
        Applying, Undoing, Appends, Goto, Return, StartupFails, rootFiles, jobFiles, process, vars
<1>1. CASE CreateJob
  BY <1>1 DEF CreateJob
<1>2. CASE VerifyOriginalSnapshots
  BY <1>2 DEF VerifyOriginalSnapshots
<1>3. CASE CommitRefused
  BY <1>3 DEF CommitRefused
<1>4. CASE CopyPayloads
  BY <1>4 DEF CopyPayloads
<1>5. CASE InspectTargets
  BY <1>5 DEF InspectTargets
<1>6. CASE WriteNewJournal
  BY <1>6 DEF WriteNewJournal
<1>7. CASE PrepareTargetPayload
  BY <1>7 DEF PrepareTargetPayload
<1>8. CASE PrepareDone
  BY <1>8 DEF PrepareDone
<1>9. CASE PrepareRefused
  BY <1>9 DEF PrepareRefused, AbortPrepare
<1>10. CASE AppendCommitting
  BY <1>10 DEF AppendCommitting, AppendState
<1>11. CASE RenameTargetToBackup
  BY <1>11 DEF RenameTargetToBackup, Swaps
<1>12. CASE NothingToBackup
  BY <1>12 DEF NothingToBackup, Swaps
<1>13. CASE RenamePreparedToTarget
  BY <1>13 DEF RenamePreparedToTarget
<1>14. CASE CheckBeforeReplace
  BY <1>14 DEF CheckBeforeReplace, Swaps
<1>15. CASE AtomicReplaceTarget
  BY <1>15 DEF AtomicReplaceTarget
<1>16. CASE ApplyDone
  BY <1>16 DEF ApplyDone
<1>17. CASE ApplyRefused
  BY <1>17 DEF ApplyRefused, Swaps, StartUndo
<1>18. CASE AppendCommitted
  BY <1>18 DEF AppendCommitted, AppendState
<1>19. CASE AppendRollingBack
  BY <1>19 DEF AppendRollingBack, AppendState, StartRollback
<1>20. CASE DeleteBeforeRestore
  BY <1>20 DEF DeleteBeforeRestore
<1>21. CASE RestoreBackup
  BY <1>21 DEF RestoreBackup
<1>22. CASE AtomicRestoreBackup
  BY <1>22 DEF AtomicRestoreBackup
<1>23. CASE DeleteTarget
  BY <1>23 DEF DeleteTarget
<1>24. CASE NothingToUndo
  BY <1>24 DEF NothingToUndo
<1>25. CASE RollbackDone
  BY <1>25 DEF RollbackDone
<1>26. CASE RollbackRefused
  BY <1>26 DEF RollbackRefused, LeaveIncomplete
<1>27. CASE CleanupReservedFile
  BY <1>27 DEF CleanupReservedFile
<1>28. CASE CleanupReservedDone
  BY <1>28 DEF CleanupReservedDone
<1>29. CASE RemoveJournal
  BY <1>29 DEF RemoveJournal
<1>30. CASE RemoveJobDirectory
  BY <1>30 DEF RemoveJobDirectory, CleanedUp
<1>31. CASE CleanupRefused
  BY <1>31 DEF CleanupRefused, LeaveUncleaned
<1>32. CASE StartRecovery
  BY <1>32 DEF StartRecovery
<1>33. CASE RecoverWithoutJournal
  BY <1>33 DEF RecoverWithoutJournal
<1>34. CASE RecoverPrepared
  BY <1>34 DEF RecoverPrepared, RecoverInto
<1>35. CASE RecoverPreparedWithoutRoot
  BY <1>35 DEF RecoverPreparedWithoutRoot, RecoverInto
<1>36. CASE RecoverCommitting
  BY <1>36 DEF RecoverCommitting, RecoverInto
<1>37. CASE RecoverRollingBack
  BY <1>37 DEF RecoverRollingBack
<1>38. CASE RecoverCommitted
  BY <1>38 DEF RecoverCommitted, RecoverInto
<1>39. CASE RecoveryRefused
  BY <1>39 DEF RecoveryRefused
<1>40. CASE CreatePayloadDirectoryFails
  BY <1>40 DEF CreatePayloadDirectoryFails
<1>41. CASE PrepareFails
  BY <1>41 DEF PrepareFails, InterruptedPrepare, InterruptedCreation,
       AbortPrepare
<1>42. CASE VerifyFails
  BY <1>42 DEF VerifyFails
<1>43. CASE AppendCommittingFails
  BY <1>43 DEF AppendCommittingFails, FailedAppend
<1>44. CASE ApplyFails
  BY <1>44 DEF ApplyFails, StartUndo
<1>45. CASE AppendCommittedFails
  BY <1>45 DEF AppendCommittedFails, FailedAppend, StartUndo
<1>46. CASE AppendRollingBackFails
  BY <1>46 DEF AppendRollingBackFails, FailedAppend, StartRollback
<1>47. CASE RollbackFails
  BY <1>47 DEF RollbackFails, LeaveIncomplete
<1>48. CASE CleanupFails
  BY <1>48 DEF CleanupFails, LeaveUncleaned
<1>49. CASE RecoveryFails
  BY <1>49 DEF RecoveryFails
<1>50. CASE Crash
  BY <1>50 DEF Crash, FailedAppend, InterruptedPrepare, InterruptedCreation,
               HalfReplaced, HalfRestored, CanReplace, HasBackup
<1>51. ASSUME NEW e \in Exposed, OthersChange(e) PROVE FlowInv'
  BY <1>51 DEF OthersChange
<1>52. CASE RootChanges
  BY <1>52 DEF RootChanges
<1>53. CASE ReplaceFailsHalfway
  BY <1>53 DEF ReplaceFailsHalfway, HalfReplaced, StartUndo, CanReplace
<1>54. CASE RestoreFailsHalfway
  BY <1>54 DEF RestoreFailsHalfway, HalfRestored, LeaveIncomplete, HasBackup
<1>55. CASE UNCHANGED vars
  BY <1>55
<1> QED
  BY <1>1, <1>2, <1>3, <1>4, <1>5, <1>6, <1>7, <1>8, <1>9, <1>10, <1>11,
       <1>12, <1>13, <1>14, <1>15, <1>16, <1>17, <1>18, <1>19, <1>20, <1>21,
       <1>22, <1>23, <1>24, <1>25, <1>26, <1>27, <1>28, <1>29, <1>30, <1>31,
       <1>32, <1>33, <1>34, <1>35, <1>36, <1>37, <1>38, <1>39, <1>40, <1>41,
       <1>42, <1>43, <1>44, <1>45, <1>46, <1>47, <1>48, <1>49, <1>50, <1>51,
       <1>52, <1>53, <1>54, <1>55 DEF Next, Request, Step, Failure, Environment

-----------------------------------------------------------------------------
(* What each append leaves in the journal.                                 *)

\* How read_journal takes the journals that a job goes through.
LEMMA JournalFacts ==
    /\ ReadJournal(NewJournal) = "prepared"
    /\ \A j \in NewJournalPrefixes : ReadJournal(j) \in {"prepared", "unreadable"}
    /\ \A j \in CommittingJournals : ReadJournal(j) = "committing"
    /\ Committing \in CommittingJournals /\ TornCommitting \in CommittingJournals
    /\ BareCommitting \in CommittingJournals
    /\ BareCommitting \notin {<<>>, Committing, TornCommitting}
    /\ ReadJournal(AppendText(Committing, "committed")) = "committed"
<1>1. /\ ReadJournal(NewJournal) = "prepared"
      /\ \A j \in NewJournalPrefixes : ReadJournal(j) \in {"prepared", "unreadable"}
      /\ \A j \in CommittingJournals : ReadJournal(j) = "committing"
  BY ReadNewJournal, PrefixFacts, ReadCommitting
<1>2. /\ Committing \in CommittingJournals /\ TornCommitting \in CommittingJournals
      /\ BareCommitting \in CommittingJournals
  BY DEF CommittingJournals
<1>3. BareCommitting # Committing
  BY BareCommittingFacts
<1>4. BareCommitting # <<>>
  <2>1. Len(BareCommitting) = 3 /\ Len(<<>>) = 0
    BY BareCommittingFacts
  <2> QED BY <2>1
<1>5. BareCommitting # TornCommitting
  <2>1. Len(BareCommitting) = 3 /\ Len(TornCommitting) = 4
    BY BareCommittingFacts, TornCommittingFacts
  <2> QED BY <2>1
<1>6. ReadJournal(AppendText(Committing, "committed")) = "committed"
  BY FinalInterrupted DEF Interrupted, Cuts
<1> QED BY <1>1, <1>2, <1>3, <1>4, <1>5, <1>6

\* The journal after each step that writes it, complete or interrupted.
LEMMA CommittingOutcomes ==
    ASSUME NEW cut \in CrashCuts
    PROVE  LET j == Interrupted(NewJournal, "committing", cut)
           IN  ReadJournal(j) = "prepared" \/ j \in {Committing, BareCommitting}
  BY CommittingInterrupted, ConstantsOK

\* An append of "committed" leaves the job committing or committed.
LEMMA CommittedOutcomes ==
    ASSUME NEW cut \in CrashCuts \cup CommitErrorCuts
    PROVE  LET j == Interrupted(Committing, "committed", cut)
           IN  /\ j \in {Committing, TornCommitting} \/ ReadJournal(j) = "committed"
               /\ cut \in {"lost", "partial"} => j \in {Committing, TornCommitting}
<1>1. cut \in Cuts
  BY ConstantsOK
<1> QED BY <1>1, FinalInterrupted DEF Cuts

\* The same for the cuts that a crash of this instance may leave.
LEMMA RollingBackOutcomes ==
    ASSUME NEW j \in CommittingJournals, NEW cut \in CrashCuts
    PROVE  LET k == Interrupted(j, "rolling_back", cut)
           IN  \/ k \in CommittingJournals /\ (k = BareCommitting => j = BareCommitting)
               \/ ReadJournal(k) \in {"rolling_back", "unreadable"}
               \/ ReadJournal(k) = "prepared" /\ j = BareCommitting
  BY RollingBackInterrupted, ConstantsOK

\* Every step keeps what the journal says at each step.
LEMMA JournalStep == CommitErrorsHonest /\ IInv /\ [Next]_vars => JournalInv'
<1> SUFFICES ASSUME CommitErrorsHonest /\ IInv, [Next]_vars PROVE JournalInv'
  OBVIOUS
<1> USE DEF IInv, TypeOK, FlowInv, JournalInv, JState, Idle, Early, Finishing, PCs,
        Flows, Recoveries, Preparing, Applying, Undoing, Appends,
        Goto, Return, StartupFails, rootFiles, jobFiles, process, vars
<1>1. CASE CreateJob
  BY <1>1 DEF CreateJob
<1>2. CASE VerifyOriginalSnapshots
  BY <1>2 DEF VerifyOriginalSnapshots
<1>3. CASE CommitRefused
  BY <1>3 DEF CommitRefused
<1>4. CASE CopyPayloads
  BY <1>4 DEF CopyPayloads
<1>5. CASE InspectTargets
  BY <1>5 DEF InspectTargets
<1>6. CASE WriteNewJournal
  BY <1>6, JournalFacts DEF WriteNewJournal
<1>7. CASE PrepareTargetPayload
  BY <1>7 DEF PrepareTargetPayload
<1>8. CASE PrepareDone
  BY <1>8 DEF PrepareDone
<1>9. CASE PrepareRefused
  BY <1>9, JournalFacts DEF PrepareRefused, AbortPrepare
<1>10. CASE AppendCommitting
  <2>1. journal' = Committing
    BY <1>10 DEF AppendCommitting, AppendState, Committing
  <2> QED BY <1>10, <2>1, JournalFacts DEF AppendCommitting, AppendState
<1>11. CASE RenameTargetToBackup
  BY <1>11 DEF RenameTargetToBackup, Swaps
<1>12. CASE NothingToBackup
  BY <1>12 DEF NothingToBackup, Swaps
<1>13. CASE RenamePreparedToTarget
  BY <1>13 DEF RenamePreparedToTarget
<1>14. CASE CheckBeforeReplace
  BY <1>14 DEF CheckBeforeReplace, Swaps
<1>15. CASE AtomicReplaceTarget
  BY <1>15 DEF AtomicReplaceTarget
<1>16. CASE ApplyDone
  BY <1>16 DEF ApplyDone
<1>17. CASE ApplyRefused
  BY <1>17, JournalFacts DEF ApplyRefused, Swaps, StartUndo
<1>18. CASE AppendCommitted
  <2>1. ReadJournal(journal') = "committed"
    BY <1>18, JournalFacts DEF AppendCommitted, AppendState
  <2> QED BY <1>18, <2>1, JournalFacts DEF AppendCommitted, AppendState
<1>19. CASE AppendRollingBack
  <2>1. ReadJournal(journal') \in {"rolling_back", "unreadable"}
    BY <1>19, RollingBackAppended DEF AppendRollingBack, AppendState
  <2>2. journal' # BareCommitting
    BY <2>1, JournalFacts
  <2> QED BY <1>19, <2>1, <2>2 DEF AppendRollingBack, AppendState, StartRollback
<1>20. CASE DeleteBeforeRestore
  BY <1>20 DEF DeleteBeforeRestore
<1>21. CASE RestoreBackup
  BY <1>21 DEF RestoreBackup
<1>22. CASE AtomicRestoreBackup
  BY <1>22 DEF AtomicRestoreBackup
<1>23. CASE DeleteTarget
  BY <1>23 DEF DeleteTarget
<1>24. CASE NothingToUndo
  BY <1>24 DEF NothingToUndo
<1>25. CASE RollbackDone
  BY <1>25 DEF RollbackDone
<1>26. CASE RollbackRefused
  BY <1>26 DEF RollbackRefused, LeaveIncomplete
<1>27. CASE CleanupReservedFile
  BY <1>27 DEF CleanupReservedFile
<1>28. CASE CleanupReservedDone
  BY <1>28, JournalFacts DEF CleanupReservedDone
<1>29. CASE RemoveJournal
  BY <1>29, JournalFacts DEF RemoveJournal
<1>30. CASE RemoveJobDirectory
  BY <1>30 DEF RemoveJobDirectory, CleanedUp
<1>31. CASE CleanupRefused
  BY <1>31 DEF CleanupRefused, LeaveUncleaned
<1>32. CASE StartRecovery
  BY <1>32 DEF StartRecovery
<1>33. CASE RecoverWithoutJournal
  BY <1>33 DEF RecoverWithoutJournal
<1>34. CASE RecoverPrepared
  BY <1>34 DEF RecoverPrepared, Found, RecoverInto
<1>35. CASE RecoverPreparedWithoutRoot
  BY <1>35 DEF RecoverPreparedWithoutRoot, Found, RecoverInto
<1>36. CASE RecoverCommitting
  BY <1>36, JournalFacts DEF RecoverCommitting, Found, RecoverInto
<1>37. CASE RecoverRollingBack
  BY <1>37, JournalFacts DEF RecoverRollingBack, Found
<1>38. CASE RecoverCommitted
  BY <1>38 DEF RecoverCommitted, Found, RecoverInto
<1>39. CASE RecoveryRefused
  BY <1>39 DEF RecoveryRefused, Found
<1>40. CASE CreatePayloadDirectoryFails
  BY <1>40 DEF CreatePayloadDirectoryFails
<1>41. CASE PrepareFails
  <2>1. /\ jobDir' # "none" /\ JState' \in {"none", "prepared", "unreadable"}
    BY <1>41, JournalFacts DEF PrepareFails, InterruptedPrepare, InterruptedCreation
  <2> QED BY <1>41, <2>1 DEF PrepareFails, AbortPrepare
<1>42. CASE VerifyFails
  BY <1>42 DEF VerifyFails
<1>43. CASE AppendCommittingFails
  <2>1. ReadJournal(journal') = "prepared" \/ journal' \in {Committing, BareCommitting}
    BY <1>43, CommittingOutcomes DEF AppendCommittingFails, FailedAppend
  <2> QED BY <1>43, <2>1, JournalFacts DEF AppendCommittingFails
<1>44. CASE ApplyFails
  BY <1>44, JournalFacts DEF ApplyFails, StartUndo
<1>45. CASE AppendCommittedFails
  <2>1. journal' \in {Committing, TornCommitting} /\ jobDir' = "journal"
    BY <1>45, CommittedOutcomes DEF AppendCommittedFails, FailedAppend, CommitErrorsHonest
  <2> QED BY <1>45, <2>1, JournalFacts DEF AppendCommittedFails, StartUndo
<1>46. CASE AppendRollingBackFails
  <2>1. /\ \/ journal' \in CommittingJournals /\ (journal' = BareCommitting => journal = BareCommitting)
           \/ ReadJournal(journal') \in {"rolling_back", "unreadable"}
           \/ ReadJournal(journal') = "prepared" /\ journal = BareCommitting
        /\ jobDir' = "journal"
    BY <1>46, RollingBackOutcomes DEF AppendRollingBackFails, FailedAppend
  <2>2. flow = "undo" => journal' # BareCommitting /\ ReadJournal(journal') # "prepared"
    BY <1>46, <2>1, JournalFacts DEF AppendRollingBackFails
  <2>3. ReadJournal(journal') = "committing" => journal' \in CommittingJournals
    BY <2>1
  <2>4. CASE flow = "undo" /\ StartRollback
    BY <1>46, <2>1, <2>2, <2>3, <2>4, JournalFacts DEF StartRollback
  <2>5. CASE StartupFails
    BY <1>46, <2>1, <2>3, <2>5
  <2> QED BY <1>46, <2>4, <2>5 DEF AppendRollingBackFails
<1>47. CASE RollbackFails
  BY <1>47 DEF RollbackFails, LeaveIncomplete
<1>48. CASE CleanupFails
  BY <1>48 DEF CleanupFails, LeaveUncleaned
<1>49. CASE RecoveryFails
  BY <1>49 DEF RecoveryFails
<1>50. CASE Crash
  <2>1. CASE pc \in Preparing /\ InterruptedPrepare
    BY <1>50, <2>1, JournalFacts DEF Crash, InterruptedPrepare, InterruptedCreation
  <2>2. CASE pc \in DOMAIN Appends /\ FailedAppend(Appends[pc], CrashCuts)
    <3>1. CASE pc = "append_committing"
      <4>1. ReadJournal(journal') = "prepared" \/ journal' \in {Committing, BareCommitting}
        BY <2>2, <3>1, CommittingOutcomes DEF FailedAppend
      <4> QED BY <1>50, <4>1, JournalFacts DEF Crash
    <3>2. CASE pc = "append_committed"
      <4>1. journal' \in {Committing, TornCommitting} \/ ReadJournal(journal') = "committed"
        BY <2>2, <3>2, CommittedOutcomes DEF FailedAppend
      <4> QED BY <1>50, <4>1, JournalFacts DEF Crash
    <3>3. CASE pc = "append_rolling_back"
      <4>1. ReadJournal(journal') # "committing" \/ journal' \in CommittingJournals
        BY <2>2, <3>3, RollingBackOutcomes DEF FailedAppend
      <4> QED BY <1>50, <4>1, JournalFacts DEF Crash
    <3> QED BY <2>2, <3>1, <3>2, <3>3
  <2>3. CASE UNCHANGED <<rootFiles, jobFiles>>
    BY <1>50, <2>3 DEF Crash
  <2>4. CASE HalfReplaced
    BY <1>50, <2>4 DEF Crash, HalfReplaced
  <2>5. CASE HalfRestored
    BY <1>50, <2>5 DEF Crash, HalfRestored
  <2> QED BY <1>50, <2>1, <2>2, <2>3, <2>4, <2>5 DEF Crash
<1>51. ASSUME NEW e \in Exposed, OthersChange(e) PROVE JournalInv'
  BY <1>51 DEF OthersChange
<1>52. CASE RootChanges
  BY <1>52 DEF RootChanges
<1>53. CASE ReplaceFailsHalfway
  BY <1>53, JournalFacts DEF ReplaceFailsHalfway, HalfReplaced, StartUndo
<1>54. CASE RestoreFailsHalfway
  BY <1>54 DEF RestoreFailsHalfway, HalfRestored, LeaveIncomplete, HasBackup
<1>55. CASE UNCHANGED vars
  BY <1>55
<1> QED
  BY <1>1, <1>2, <1>3, <1>4, <1>5, <1>6, <1>7, <1>8, <1>9, <1>10, <1>11,
       <1>12, <1>13, <1>14, <1>15, <1>16, <1>17, <1>18, <1>19, <1>20, <1>21,
       <1>22, <1>23, <1>24, <1>25, <1>26, <1>27, <1>28, <1>29, <1>30, <1>31,
       <1>32, <1>33, <1>34, <1>35, <1>36, <1>37, <1>38, <1>39, <1>40, <1>41,
       <1>42, <1>43, <1>44, <1>45, <1>46, <1>47, <1>48, <1>49, <1>50, <1>51,
       <1>52, <1>53, <1>54, <1>55 DEF Next, Request, Step, Failure, Environment

\* Every step keeps the files where the journal expects them.
LEMMA ContentStep == CommitErrorsHonest /\ IInv /\ [Next]_vars => ContentInv'
<1> SUFFICES ASSUME CommitErrorsHonest /\ IInv, [Next]_vars PROVE ContentInv'
  OBVIOUS
<1> USE ConstantsOK DEF IInv, TypeOK, FlowInv, JournalInv, ContentInv, ProgressInv, JState,
        Untouched, AllOld, AllNew, NewContent, Undoable, Clean, Swapped, Displaced,
        NoBackups, Idle, Early, Finishing, PCs, Flows, Recoveries, Preparing, Applying,
        Undoing, Appends, N, Entry, Replaced, Content,
        Goto, Return, StartupFails, rootFiles, jobFiles, process, vars
<1>1. CASE CreateJob
  BY <1>1 DEF CreateJob
<1>2. CASE VerifyOriginalSnapshots
  BY <1>2 DEF VerifyOriginalSnapshots, OriginalsIntact
<1>3. CASE CommitRefused
  BY <1>3 DEF CommitRefused, OriginalsIntact
<1>4. CASE CopyPayloads
  BY <1>4 DEF CopyPayloads
<1>5. CASE InspectTargets
  BY <1>5 DEF InspectTargets
<1>6. CASE WriteNewJournal
  BY <1>6, JournalFacts DEF WriteNewJournal
<1>7. CASE PrepareTargetPayload
  BY <1>7 DEF PrepareTargetPayload
<1>8. CASE PrepareDone
  BY <1>8 DEF PrepareDone
<1>9. CASE PrepareRefused
  BY <1>9 DEF PrepareRefused, AbortPrepare
<1>10. CASE AppendCommitting
  <2>1. journal' = Committing
    BY <1>10 DEF AppendCommitting, AppendState, Committing
  <2> QED BY <1>10, <2>1, JournalFacts DEF AppendCommitting, AppendState
<1>11. CASE RenameTargetToBackup
  <2>1. /\ JState = "committing" /\ journal # BareCommitting /\ JState' = JState
        /\ journal' = journal
    BY <1>11, JournalFacts DEF RenameTargetToBackup
  <2>2. \A e \in Entry : original'[e] = "absent" => backup'[e] = "absent"
    BY <1>11 DEF RenameTargetToBackup, Swaps, CanBackup
  <2>3. \A e \in Untouched' : Undoable(e)'
    BY <1>11 DEF RenameTargetToBackup, Swaps, CanBackup
  <2> QED BY <1>11, <2>1, <2>2, <2>3 DEF RenameTargetToBackup
<1>12. CASE NothingToBackup
  BY <1>12 DEF NothingToBackup, Swaps
<1>13. CASE RenamePreparedToTarget
  <2>1. /\ JState = "committing" /\ journal # BareCommitting /\ JState' = JState
        /\ journal' = journal
    BY <1>13, JournalFacts DEF RenamePreparedToTarget
  <2>2. \A e \in Entry : original'[e] = "absent" => backup'[e] = "absent"
    BY <1>13 DEF RenamePreparedToTarget, CanInstall
  <2>3. \A e \in Untouched' : Undoable(e)'
    BY <1>13 DEF RenamePreparedToTarget, CanInstall
  <2> QED BY <1>13, <2>1, <2>2, <2>3 DEF RenamePreparedToTarget
<1>14. CASE CheckBeforeReplace
  BY <1>14 DEF CheckBeforeReplace, Swaps
<1>15. CASE AtomicReplaceTarget
  <2>1. /\ JState = "committing" /\ journal # BareCommitting /\ JState' = JState
        /\ journal' = journal
    BY <1>15, JournalFacts DEF AtomicReplaceTarget
  <2>2. \A e \in Entry : original'[e] = "absent" => backup'[e] = "absent"
    BY <1>15 DEF AtomicReplaceTarget, CanReplace
  <2>3. \A e \in Untouched' : Undoable(e)'
    BY <1>15 DEF AtomicReplaceTarget, CanReplace
  <2> QED BY <1>15, <2>1, <2>2, <2>3 DEF AtomicReplaceTarget
<1>16. CASE ApplyDone
  BY <1>16 DEF ApplyDone
<1>17. CASE ApplyRefused
  BY <1>17 DEF ApplyRefused, Swaps, CanBackup, CanInstall, CanReplace,
       StartUndo
<1>18. CASE AppendCommitted
  <2>1. ReadJournal(journal') = "committed" /\ jobDir' = "journal"
    BY <1>18, JournalFacts DEF AppendCommitted, AppendState
  <2> QED BY <1>18, <2>1 DEF AppendCommitted, AppendState
<1>19. CASE AppendRollingBack
  <2>1. JState = "committing" /\ JState' \in {"rolling_back", "unreadable"}
    BY <1>19, RollingBackAppended, JournalFacts DEF AppendRollingBack, AppendState
  <2> QED BY <1>19, <2>1 DEF AppendRollingBack, AppendState, StartRollback
<1>20. CASE DeleteBeforeRestore
  BY <1>20 DEF DeleteBeforeRestore, HasBackup
<1>21. CASE RestoreBackup
  BY <1>21 DEF RestoreBackup
<1>22. CASE AtomicRestoreBackup
  BY <1>22 DEF AtomicRestoreBackup, HasBackup
<1>23. CASE DeleteTarget
  BY <1>23 DEF DeleteTarget, CreatedByJob, HasBackup
<1>24. CASE NothingToUndo
  BY <1>24 DEF NothingToUndo, HasBackup, CreatedByJob
<1>25. CASE RollbackDone
  BY <1>25 DEF RollbackDone
<1>26. CASE RollbackRefused
  BY <1>26 DEF RollbackRefused, LeaveIncomplete
<1>27. CASE CleanupReservedFile
  BY <1>27 DEF CleanupReservedFile
<1>28. CASE CleanupReservedDone
  BY <1>28 DEF CleanupReservedDone, ReservedEmpty
<1>29. CASE RemoveJournal
  BY <1>29 DEF RemoveJournal
<1>30. CASE RemoveJobDirectory
  BY <1>30 DEF RemoveJobDirectory, CleanedUp
<1>31. CASE CleanupRefused
  BY <1>31 DEF CleanupRefused, LeaveUncleaned
<1>32. CASE StartRecovery
  BY <1>32 DEF StartRecovery
<1>33. CASE RecoverWithoutJournal
  BY <1>33 DEF RecoverWithoutJournal
<1>34. CASE RecoverPrepared
  BY <1>34 DEF RecoverPrepared, Found, RecoverInto
<1>35. CASE RecoverPreparedWithoutRoot
  BY <1>35 DEF RecoverPreparedWithoutRoot, Found, RecoverInto
<1>36. CASE RecoverCommitting
  BY <1>36 DEF RecoverCommitting, Found, RecoverInto
<1>37. CASE RecoverRollingBack
  BY <1>37 DEF RecoverRollingBack, Found
<1>38. CASE RecoverCommitted
  BY <1>38 DEF RecoverCommitted, Found, RecoverInto
<1>39. CASE RecoveryRefused
  BY <1>39 DEF RecoveryRefused, Found
<1>40. CASE CreatePayloadDirectoryFails
  BY <1>40 DEF CreatePayloadDirectoryFails
<1>41. CASE PrepareFails
  <2>1. \/ UNCHANGED jobFiles /\ (pc = "stage" => JState = "prepared")
        \/ /\ pc = "write_journal" /\ UNCHANGED <<target, backup, original>>
           /\ JState' \in {"prepared", "unreadable"}
    BY <1>41, JournalFacts DEF PrepareFails, InterruptedPrepare, InterruptedCreation
  <2>2. NoBackups /\ UNCHANGED <<target, backup, touched, original>>
    BY <1>41 DEF PrepareFails, InterruptedPrepare, InterruptedCreation, AbortPrepare
  <2> QED BY <1>41, <2>1, <2>2 DEF PrepareFails, AbortPrepare
<1>42. CASE VerifyFails
  BY <1>42 DEF VerifyFails
<1>43. CASE AppendCommittingFails
  <2>1. ReadJournal(journal') = "prepared" \/ journal' \in {Committing, BareCommitting}
    BY <1>43, CommittingOutcomes DEF AppendCommittingFails, FailedAppend
  <2>2. JState = "prepared" /\ JState' \in {"prepared", "committing"}
    BY <1>43, <2>1, JournalFacts DEF AppendCommittingFails, FailedAppend
  <2> QED BY <1>43, <2>2, JournalFacts DEF AppendCommittingFails, FailedAppend
<1>44. CASE ApplyFails
  BY <1>44 DEF ApplyFails, StartUndo
<1>45. CASE AppendCommittedFails
  <2>1. journal' \in {Committing, TornCommitting} /\ jobDir' = "journal"
    BY <1>45, CommittedOutcomes DEF AppendCommittedFails, FailedAppend, CommitErrorsHonest
  <2>2. JState = "committing" /\ JState' = "committing" /\ journal' # BareCommitting
    BY <1>45, <2>1, JournalFacts DEF AppendCommittedFails
  <2> QED BY <1>45, <2>2 DEF AppendCommittedFails, FailedAppend, StartUndo
<1>46. CASE AppendRollingBackFails
  <2>1. /\ \/ journal' \in CommittingJournals /\ (journal' = BareCommitting => journal = BareCommitting)
           \/ ReadJournal(journal') \in {"rolling_back", "unreadable"}
           \/ ReadJournal(journal') = "prepared" /\ journal = BareCommitting
        /\ jobDir' = "journal" /\ UNCHANGED <<rootFiles, original, touched>>
    BY <1>46, RollingBackOutcomes DEF AppendRollingBackFails, FailedAppend, StartRollback
  <2>2. /\ JState = "committing"
        /\ \/ JState' = "committing" /\ (journal' = BareCommitting => journal = BareCommitting)
           \/ JState' \in {"rolling_back", "unreadable"}
           \/ JState' = "prepared" /\ journal = BareCommitting
    BY <1>46, <2>1, JournalFacts DEF AppendRollingBackFails
  <2>3. pc' \in {"rollback", "down"} /\ flow' # "abort"
    BY <1>46 DEF AppendRollingBackFails, StartRollback
  <2> QED BY <1>46, <2>1, <2>2, <2>3
<1>47. CASE RollbackFails
  BY <1>47 DEF RollbackFails, LeaveIncomplete
<1>48. CASE CleanupFails
  BY <1>48 DEF CleanupFails, LeaveUncleaned
<1>49. CASE RecoveryFails
  BY <1>49 DEF RecoveryFails
<1>50. CASE Crash
  <2>0. pc' = "down" /\ flow' = "none" /\ touched' = touched
    BY <1>50 DEF Crash
  <2>1. CASE pc \in Preparing /\ InterruptedPrepare
    <3>1. \/ UNCHANGED jobFiles /\ (pc = "stage" => JState = "prepared")
          \/ pc = "write_journal" /\ JState' \in {"prepared", "unreadable"}
      BY <2>1, JournalFacts DEF InterruptedPrepare, InterruptedCreation
    <3>2. NoBackups /\ UNCHANGED <<target, backup, original>>
      BY <2>1 DEF InterruptedPrepare, InterruptedCreation
    <3> QED BY <2>0, <2>1, <3>1, <3>2
  <2>2. CASE /\ pc \in DOMAIN Appends /\ FailedAppend(Appends[pc], CrashCuts)
             /\ UNCHANGED rootFiles
    <3>0. jobDir' = "journal" /\ UNCHANGED <<rootFiles, original>>
      BY <2>2 DEF FailedAppend
    <3>1. CASE pc = "append_committing"
      <4>1. ReadJournal(journal') = "prepared" \/ journal' \in {Committing, BareCommitting}
        BY <2>2, <3>1, CommittingOutcomes DEF FailedAppend
      <4>2. JState = "prepared" /\ JState' \in {"prepared", "committing"}
        BY <3>0, <3>1, <4>1, JournalFacts
      <4> QED BY <2>0, <3>0, <3>1, <4>2
    <3>2. CASE pc = "append_committed"
      <4>1. journal' \in {Committing, TornCommitting} \/ ReadJournal(journal') = "committed"
        BY <2>2, <3>2, CommittedOutcomes DEF FailedAppend
      <4>2. /\ JState = "committing"
            /\ \/ JState' = "committing" /\ journal' # BareCommitting
               \/ JState' = "committed"
        BY <3>0, <3>2, <4>1, JournalFacts
      <4> QED BY <2>0, <3>0, <3>2, <4>2
    <3>3. CASE pc = "append_rolling_back"
      <4>1. \/ journal' \in CommittingJournals /\ (journal' = BareCommitting => journal = BareCommitting)
            \/ ReadJournal(journal') \in {"rolling_back", "unreadable"}
            \/ ReadJournal(journal') = "prepared" /\ journal = BareCommitting
        BY <2>2, <3>3, RollingBackOutcomes DEF FailedAppend
      <4>2. /\ JState = "committing"
            /\ \/ JState' = "committing" /\ (journal' = BareCommitting => journal = BareCommitting)
               \/ JState' \in {"rolling_back", "unreadable"}
               \/ JState' = "prepared" /\ journal = BareCommitting
        BY <3>0, <3>3, <4>1, JournalFacts
      <4> QED BY <2>0, <3>0, <3>3, <4>2
    <3> QED BY <2>2, <3>1, <3>2, <3>3
  <2>3. CASE UNCHANGED <<rootFiles, jobFiles>>
    BY <2>0, <2>3
  <2>4. CASE HalfReplaced
    <3>1. /\ JState = "committing" /\ journal # BareCommitting /\ JState' = JState
          /\ journal' = journal
      BY <2>4, JournalFacts DEF HalfReplaced
    <3>2. \A e \in Entry : original'[e] = "absent" => backup'[e] = "absent"
      BY <2>4 DEF HalfReplaced, CanReplace
    <3>3. \A e \in Untouched' : Undoable(e)'
      BY <2>0, <2>4 DEF HalfReplaced, CanReplace
    <3> QED BY <2>0, <2>4, <3>1, <3>2, <3>3 DEF HalfReplaced
  <2>5. CASE HalfRestored
    BY <2>0, <2>5 DEF HalfRestored, HasBackup
  <2> QED BY <1>50, <2>1, <2>2, <2>3, <2>4, <2>5 DEF Crash
<1>51. ASSUME NEW e \in Exposed, OthersChange(e) PROVE ContentInv'
  BY <1>51 DEF OthersChange
<1>52. CASE RootChanges
  BY <1>52 DEF RootChanges
<1>53. CASE ReplaceFailsHalfway
  <2>1. /\ JState = "committing" /\ journal # BareCommitting /\ JState' = JState
        /\ journal' = journal
    BY <1>53, JournalFacts DEF ReplaceFailsHalfway, HalfReplaced
  <2>2. \A e \in Entry : original'[e] = "absent" => backup'[e] = "absent"
    BY <1>53 DEF ReplaceFailsHalfway, HalfReplaced, CanReplace
  <2>3. \A e \in Untouched' : Undoable(e)'
    BY <1>53 DEF ReplaceFailsHalfway, HalfReplaced, StartUndo, CanReplace
  <2> QED BY <1>53, <2>1, <2>2, <2>3 DEF ReplaceFailsHalfway, HalfReplaced, StartUndo
<1>54. CASE RestoreFailsHalfway
  BY <1>54 DEF RestoreFailsHalfway, HalfRestored, LeaveIncomplete, HasBackup
<1>55. CASE UNCHANGED vars
  BY <1>55
<1> QED
  BY <1>1, <1>2, <1>3, <1>4, <1>5, <1>6, <1>7, <1>8, <1>9, <1>10, <1>11,
       <1>12, <1>13, <1>14, <1>15, <1>16, <1>17, <1>18, <1>19, <1>20, <1>21,
       <1>22, <1>23, <1>24, <1>25, <1>26, <1>27, <1>28, <1>29, <1>30, <1>31,
       <1>32, <1>33, <1>34, <1>35, <1>36, <1>37, <1>38, <1>39, <1>40, <1>41,
       <1>42, <1>43, <1>44, <1>45, <1>46, <1>47, <1>48, <1>49, <1>50, <1>51,
       <1>52, <1>53, <1>54, <1>55 DEF Next, Request, Step, Failure, Environment

\* Every step keeps the progress of the running call.
LEMMA ProgressStep == CommitErrorsHonest /\ IInv /\ [Next]_vars => ProgressInv'
<1> SUFFICES ASSUME CommitErrorsHonest /\ IInv, [Next]_vars PROVE ProgressInv'
  OBVIOUS
<1> USE ConstantsOK DEF IInv, TypeOK, FlowInv, JournalInv, ContentInv, ProgressInv, JState,
        Untouched, AllOld, AllNew, NewContent, Undoable, Clean, Swapped, Displaced, HasBackup,
        NoBackups, Idle, Early, Finishing, PCs, Flows, Recoveries, Preparing, Applying,
        Undoing, Appends, N, Entry, Replaced, Content,
        Goto, Return, StartupFails, rootFiles, jobFiles, process, vars
<1>1. CASE CreateJob
  BY <1>1 DEF CreateJob
<1>2. CASE VerifyOriginalSnapshots
  BY <1>2 DEF VerifyOriginalSnapshots, OriginalsIntact
<1>3. CASE CommitRefused
  BY <1>3 DEF CommitRefused, OriginalsIntact
<1>4. CASE CopyPayloads
  BY <1>4 DEF CopyPayloads
<1>5. CASE InspectTargets
  BY <1>5 DEF InspectTargets
<1>6. CASE WriteNewJournal
  BY <1>6 DEF WriteNewJournal
<1>7. CASE PrepareTargetPayload
  BY <1>7 DEF PrepareTargetPayload
<1>8. CASE PrepareDone
  BY <1>8 DEF PrepareDone
<1>9. CASE PrepareRefused
  BY <1>9, JournalFacts DEF PrepareRefused, AbortPrepare
<1>10. CASE AppendCommitting
  <2>1. \A e \in Untouched : Clean(e)
    BY <1>10, JournalFacts DEF AppendCommitting
  <2> QED BY <1>10, <2>1 DEF AppendCommitting, AppendState
<1>11. CASE RenameTargetToBackup
  BY <1>11 DEF RenameTargetToBackup, Swaps, CanBackup
<1>12. CASE NothingToBackup
  BY <1>12 DEF NothingToBackup, Swaps
<1>13. CASE RenamePreparedToTarget
  BY <1>13 DEF RenamePreparedToTarget, CanInstall
<1>14. CASE CheckBeforeReplace
  BY <1>14 DEF CheckBeforeReplace, Swaps
<1>15. CASE AtomicReplaceTarget
  BY <1>15 DEF AtomicReplaceTarget, CanReplace
<1>16. CASE ApplyDone
  BY <1>16 DEF ApplyDone
<1>17. CASE ApplyRefused
  BY <1>17 DEF ApplyRefused, Swaps, CanBackup, CanInstall, CanReplace,
       StartUndo
<1>18. CASE AppendCommitted
  BY <1>18 DEF AppendCommitted, AppendState
<1>19. CASE AppendRollingBack
  BY <1>19 DEF AppendRollingBack, AppendState, StartRollback
<1>20. CASE DeleteBeforeRestore
  BY <1>20 DEF DeleteBeforeRestore
<1>21. CASE RestoreBackup
  BY <1>21 DEF RestoreBackup
<1>22. CASE AtomicRestoreBackup
  BY <1>22 DEF AtomicRestoreBackup
<1>23. CASE DeleteTarget
  BY <1>23 DEF DeleteTarget, CreatedByJob
<1>24. CASE NothingToUndo
  BY <1>24 DEF NothingToUndo, CreatedByJob
<1>25. CASE RollbackDone
  BY <1>25 DEF RollbackDone
<1>26. CASE RollbackRefused
  BY <1>26 DEF RollbackRefused, LeaveIncomplete
<1>27. CASE CleanupReservedFile
  BY <1>27 DEF CleanupReservedFile
<1>28. CASE CleanupReservedDone
  BY <1>28 DEF CleanupReservedDone, ReservedEmpty
<1>29. CASE RemoveJournal
  BY <1>29 DEF RemoveJournal
<1>30. CASE RemoveJobDirectory
  BY <1>30 DEF RemoveJobDirectory, CleanedUp
<1>31. CASE CleanupRefused
  BY <1>31 DEF CleanupRefused, LeaveUncleaned
<1>32. CASE StartRecovery
  BY <1>32 DEF StartRecovery
<1>33. CASE RecoverWithoutJournal
  BY <1>33 DEF RecoverWithoutJournal
<1>34. CASE RecoverPrepared
  BY <1>34 DEF RecoverPrepared, Found, RecoverInto
<1>35. CASE RecoverPreparedWithoutRoot
  BY <1>35 DEF RecoverPreparedWithoutRoot, Found, RecoverInto
<1>36. CASE RecoverCommitting
  BY <1>36 DEF RecoverCommitting, Found, RecoverInto
<1>37. CASE RecoverRollingBack
  BY <1>37 DEF RecoverRollingBack, Found
<1>38. CASE RecoverCommitted
  BY <1>38 DEF RecoverCommitted, Found, RecoverInto
<1>39. CASE RecoveryRefused
  BY <1>39 DEF RecoveryRefused, Found
<1>40. CASE CreatePayloadDirectoryFails
  BY <1>40 DEF CreatePayloadDirectoryFails
<1>41. CASE PrepareFails
  <2>1. jobDir' = "journal" => AllOld
    BY <1>41, JournalFacts DEF PrepareFails, InterruptedPrepare, InterruptedCreation
  <2>2. UNCHANGED <<target, original, touched>>
    BY <1>41 DEF PrepareFails, InterruptedPrepare, InterruptedCreation, AbortPrepare
  <2> QED BY <1>41, <2>1, <2>2 DEF PrepareFails, AbortPrepare
<1>42. CASE VerifyFails
  BY <1>42 DEF VerifyFails
<1>43. CASE AppendCommittingFails
  BY <1>43 DEF AppendCommittingFails, FailedAppend
<1>44. CASE ApplyFails
  BY <1>44 DEF ApplyFails, StartUndo
<1>45. CASE AppendCommittedFails
  BY <1>45 DEF AppendCommittedFails, FailedAppend, StartUndo
<1>46. CASE AppendRollingBackFails
  BY <1>46 DEF AppendRollingBackFails, FailedAppend, StartRollback
<1>47. CASE RollbackFails
  BY <1>47 DEF RollbackFails, LeaveIncomplete
<1>48. CASE CleanupFails
  BY <1>48 DEF CleanupFails, LeaveUncleaned
<1>49. CASE RecoveryFails
  BY <1>49 DEF RecoveryFails
<1>50. CASE Crash
  BY <1>50 DEF Crash, FailedAppend, InterruptedPrepare, InterruptedCreation,
               HalfReplaced, HalfRestored, CanReplace, HasBackup
<1>51. ASSUME NEW e \in Exposed, OthersChange(e) PROVE ProgressInv'
  BY <1>51 DEF OthersChange
<1>52. CASE RootChanges
  BY <1>52 DEF RootChanges
<1>53. CASE ReplaceFailsHalfway
  BY <1>53 DEF ReplaceFailsHalfway, HalfReplaced, StartUndo, CanReplace
<1>54. CASE RestoreFailsHalfway
  BY <1>54 DEF RestoreFailsHalfway, HalfRestored, LeaveIncomplete, HasBackup
<1>55. CASE UNCHANGED vars
  BY <1>55
<1> QED
  BY <1>1, <1>2, <1>3, <1>4, <1>5, <1>6, <1>7, <1>8, <1>9, <1>10, <1>11,
       <1>12, <1>13, <1>14, <1>15, <1>16, <1>17, <1>18, <1>19, <1>20, <1>21,
       <1>22, <1>23, <1>24, <1>25, <1>26, <1>27, <1>28, <1>29, <1>30, <1>31,
       <1>32, <1>33, <1>34, <1>35, <1>36, <1>37, <1>38, <1>39, <1>40, <1>41,
       <1>42, <1>43, <1>44, <1>45, <1>46, <1>47, <1>48, <1>49, <1>50, <1>51,
       <1>52, <1>53, <1>54, <1>55 DEF Next, Request, Step, Failure, Environment

\* Every step keeps what was reported true.
LEMMA ReportStep == CommitErrorsHonest /\ IInv /\ [Next]_vars => ReportInv'
<1> SUFFICES ASSUME CommitErrorsHonest /\ IInv, [Next]_vars PROVE ReportInv'
  OBVIOUS
<1> USE ConstantsOK DEF IInv, TypeOK, FlowInv, JournalInv, ContentInv, ProgressInv, ReportInv, JState,
        Untouched, AllOld, AllNew, NewContent, Undoable, Clean, Swapped, Displaced,
        NoBackups, Idle, Early, Finishing, PCs, Flows, Recoveries, Preparing, Applying,
        Undoing, Appends, N, Entry, Replaced, Content,
        Goto, Return, StartupFails, rootFiles, jobFiles, process, vars
<1>1. CASE CreateJob
  BY <1>1 DEF CreateJob
<1>2. CASE VerifyOriginalSnapshots
  BY <1>2 DEF VerifyOriginalSnapshots, OriginalsIntact
<1>3. CASE CommitRefused
  BY <1>3, JournalFacts DEF CommitRefused, OriginalsIntact
<1>4. CASE CopyPayloads
  BY <1>4 DEF CopyPayloads
<1>5. CASE InspectTargets
  BY <1>5 DEF InspectTargets
<1>6. CASE WriteNewJournal
  BY <1>6 DEF WriteNewJournal
<1>7. CASE PrepareTargetPayload
  BY <1>7 DEF PrepareTargetPayload
<1>8. CASE PrepareDone
  BY <1>8 DEF PrepareDone
<1>9. CASE PrepareRefused
  BY <1>9 DEF PrepareRefused, AbortPrepare
<1>10. CASE AppendCommitting
  BY <1>10 DEF AppendCommitting, AppendState
<1>11. CASE RenameTargetToBackup
  BY <1>11 DEF RenameTargetToBackup, Swaps, CanBackup
<1>12. CASE NothingToBackup
  BY <1>12 DEF NothingToBackup, Swaps
<1>13. CASE RenamePreparedToTarget
  BY <1>13 DEF RenamePreparedToTarget, CanInstall
<1>14. CASE CheckBeforeReplace
  BY <1>14 DEF CheckBeforeReplace, Swaps
<1>15. CASE AtomicReplaceTarget
  BY <1>15 DEF AtomicReplaceTarget, CanReplace
<1>16. CASE ApplyDone
  BY <1>16 DEF ApplyDone
<1>17. CASE ApplyRefused
  BY <1>17 DEF ApplyRefused, Swaps, CanBackup, CanInstall, CanReplace,
       StartUndo
<1>18. CASE AppendCommitted
  BY <1>18 DEF AppendCommitted, AppendState
<1>19. CASE AppendRollingBack
  <2>1. JState' \in {"rolling_back", "unreadable"}
    BY <1>19, RollingBackAppended DEF AppendRollingBack, AppendState
  <2> QED BY <1>19, <2>1, JournalFacts DEF AppendRollingBack, AppendState, StartRollback
<1>20. CASE DeleteBeforeRestore
  BY <1>20 DEF DeleteBeforeRestore, HasBackup
<1>21. CASE RestoreBackup
  BY <1>21 DEF RestoreBackup
<1>22. CASE AtomicRestoreBackup
  BY <1>22 DEF AtomicRestoreBackup, HasBackup
<1>23. CASE DeleteTarget
  BY <1>23 DEF DeleteTarget, CreatedByJob, HasBackup
<1>24. CASE NothingToUndo
  BY <1>24 DEF NothingToUndo, HasBackup, CreatedByJob
<1>25. CASE RollbackDone
  BY <1>25 DEF RollbackDone
<1>26. CASE RollbackRefused
  BY <1>26 DEF RollbackRefused, LeaveIncomplete
<1>27. CASE CleanupReservedFile
  BY <1>27 DEF CleanupReservedFile
<1>28. CASE CleanupReservedDone
  BY <1>28 DEF CleanupReservedDone, ReservedEmpty
<1>29. CASE RemoveJournal
  BY <1>29 DEF RemoveJournal
<1>30. CASE RemoveJobDirectory
  BY <1>30 DEF RemoveJobDirectory, CleanedUp
<1>31. CASE CleanupRefused
  BY <1>31 DEF CleanupRefused, LeaveUncleaned
<1>32. CASE StartRecovery
  BY <1>32 DEF StartRecovery
<1>33. CASE RecoverWithoutJournal
  BY <1>33 DEF RecoverWithoutJournal
<1>34. CASE RecoverPrepared
  BY <1>34 DEF RecoverPrepared, Found, RecoverInto
<1>35. CASE RecoverPreparedWithoutRoot
  BY <1>35 DEF RecoverPreparedWithoutRoot, Found, RecoverInto
<1>36. CASE RecoverCommitting
  BY <1>36 DEF RecoverCommitting, Found, RecoverInto
<1>37. CASE RecoverRollingBack
  BY <1>37 DEF RecoverRollingBack, Found
<1>38. CASE RecoverCommitted
  BY <1>38 DEF RecoverCommitted, Found, RecoverInto
<1>39. CASE RecoveryRefused
  BY <1>39 DEF RecoveryRefused, Found
<1>40. CASE CreatePayloadDirectoryFails
  BY <1>40 DEF CreatePayloadDirectoryFails
<1>41. CASE PrepareFails
  BY <1>41 DEF PrepareFails, InterruptedPrepare, InterruptedCreation,
       AbortPrepare
<1>42. CASE VerifyFails
  BY <1>42, JournalFacts DEF VerifyFails
<1>43. CASE AppendCommittingFails
  <2>1. ReadJournal(journal') = "prepared" \/ journal' \in {Committing, BareCommitting}
    BY <1>43, CommittingOutcomes DEF AppendCommittingFails, FailedAppend
  <2>2. JState = "prepared" /\ JState' \in {"prepared", "committing"}
    BY <1>43, <2>1, JournalFacts DEF AppendCommittingFails, FailedAppend
  <2> QED BY <1>43, <2>2 DEF AppendCommittingFails, FailedAppend
<1>44. CASE ApplyFails
  BY <1>44 DEF ApplyFails, StartUndo
<1>45. CASE AppendCommittedFails
  BY <1>45 DEF AppendCommittedFails, FailedAppend, StartUndo
<1>46. CASE AppendRollingBackFails
  <2>1. /\ JState = "committing" /\ JState' # "committed"
        /\ UNCHANGED <<rootFiles, original, touched, report>>
    BY <1>46, RollingBackOutcomes, JournalFacts
       DEF AppendRollingBackFails, FailedAppend, StartRollback
  <2>2. flow' \in {"none", flow}
    BY <1>46 DEF AppendRollingBackFails, StartRollback
  <2> QED BY <1>46, <2>1, <2>2 DEF AppendRollingBackFails
<1>47. CASE RollbackFails
  BY <1>47 DEF RollbackFails, LeaveIncomplete
<1>48. CASE CleanupFails
  BY <1>48 DEF CleanupFails, LeaveUncleaned
<1>49. CASE RecoveryFails
  BY <1>49 DEF RecoveryFails
<1>50. CASE Crash
  <2>0. pc' = "down" /\ flow' = "none" /\ UNCHANGED <<report, touched>>
    BY <1>50 DEF Crash
  <2>1. CASE pc \in Preparing /\ InterruptedPrepare
    BY <2>0, <2>1
  <2>2. CASE /\ pc \in DOMAIN Appends /\ FailedAppend(Appends[pc], CrashCuts)
             /\ UNCHANGED rootFiles
    <3>1. CASE pc \in {"append_committing", "append_committed"}
      BY <2>0, <3>1
    <3>2. CASE pc = "append_rolling_back"
      <4>1. JState = "committing" /\ JState' # "committed"
        BY <2>2, <3>2, RollingBackOutcomes, JournalFacts DEF FailedAppend
      <4> QED BY <2>0, <2>2, <4>1 DEF FailedAppend
    <3> QED BY <2>2, <3>1, <3>2
  <2>3. CASE UNCHANGED <<rootFiles, jobFiles>>
    BY <2>0, <2>3
  <2>4. CASE HalfReplaced
    BY <2>0, <2>4 DEF HalfReplaced
  <2>5. CASE HalfRestored
    BY <2>0, <2>5 DEF HalfRestored, HasBackup
  <2> QED BY <1>50, <2>1, <2>2, <2>3, <2>4, <2>5 DEF Crash
<1>51. ASSUME NEW e \in Exposed, OthersChange(e) PROVE ReportInv'
  BY <1>51 DEF OthersChange
<1>52. CASE RootChanges
  BY <1>52 DEF RootChanges
<1>53. CASE ReplaceFailsHalfway
  BY <1>53 DEF ReplaceFailsHalfway, HalfReplaced, StartUndo, CanReplace
<1>54. CASE RestoreFailsHalfway
  BY <1>54 DEF RestoreFailsHalfway, HalfRestored, LeaveIncomplete, HasBackup
<1>55. CASE UNCHANGED vars
  BY <1>55
<1> QED
  BY <1>1, <1>2, <1>3, <1>4, <1>5, <1>6, <1>7, <1>8, <1>9, <1>10, <1>11,
       <1>12, <1>13, <1>14, <1>15, <1>16, <1>17, <1>18, <1>19, <1>20, <1>21,
       <1>22, <1>23, <1>24, <1>25, <1>26, <1>27, <1>28, <1>29, <1>30, <1>31,
       <1>32, <1>33, <1>34, <1>35, <1>36, <1>37, <1>38, <1>39, <1>40, <1>41,
       <1>42, <1>43, <1>44, <1>45, <1>46, <1>47, <1>48, <1>49, <1>50, <1>51,
       <1>52, <1>53, <1>54, <1>55 DEF Next, Request, Step, Failure, Environment

\* The initial states satisfy the invariant, and every step preserves it.
LEMMA Invariance == ASSUME CommitErrorsHonest PROVE Spec => []IInv
<1>1. Init => IInv
  <2> SUFFICES ASSUME Init PROVE IInv
    OBVIOUS
  <2>1. TypeOK
    BY ConstantsOK DEF Init, TypeOK, N, Entry, Replaced, Content, PCs, Flows
  <2>2. FlowInv /\ JournalInv
    BY DEF Init, FlowInv, JournalInv, JState, Idle, Early, Finishing, Applying, Undoing
  <2>3. ContentInv
    BY DEF Init, ContentInv, JState, NoBackups, AllOld
  <2>4. ProgressInv /\ ReportInv
    BY DEF Init, ProgressInv, ReportInv, Finishing, Applying, Undoing
  <2> QED BY <2>1, <2>2, <2>3, <2>4 DEF IInv
<1>2. TInv /\ IInv /\ [Next]_vars => IInv'
  BY TypeStep, FlowStep, JournalStep, ContentStep, ProgressStep, ReportStep
     DEF IInv, TInv
<1>3. Init => TInv
  BY <1>1 DEF Init, IInv, TInv
<1> QED BY <1>1, <1>2, <1>3, TypeStep, PTL DEF Spec

-----------------------------------------------------------------------------
(* The promises of a job.                                                  *)

\* Without a journal to recover from, the root holds all old or all new files:
\* commit_file_set and recover_incomplete_with_policy are all or nothing.
THEOREM AllOrNothingHolds == ASSUME CommitErrorsHonest PROVE Spec => []AllOrNothing
<1>1. IInv => AllOrNothing
  BY DEF IInv, ContentInv, JState, AllOrNothing
<1> QED BY <1>1, Invariance, PTL

\* Until "committed" is in the journal, rollback_entries can restore every file.
THEOREM OriginalsKeptHolds == ASSUME CommitErrorsHonest PROVE Spec => []OriginalsKept
<1>1. IInv => OriginalsKept
  <2> SUFFICES ASSUME IInv, jobDir = "journal", ReadJournal(journal) # "committed",
                      NEW e \in Entry \ touched, original[e] # "absent"
               PROVE  original[e] \in {target[e], backup[e]}
    BY DEF OriginalsKept
  <2>1. ReadJournal(journal) \in States \cup {"unreadable"}
    BY ReadJournalRange DEF IInv, TypeOK
  <2> QED BY <2>1 DEF IInv, ContentInv, JState, States, AllOld, Untouched, Undoable, Clean
<1> QED BY <1>1, Invariance, PTL

\* refresh_active_job and recovery report what is in the root.
THEOREM StatusTruthfulHolds == ASSUME CommitErrorsHonest PROVE Spec => []StatusTruthful
<1>1. IInv => StatusTruthful
  BY DEF IInv, ReportInv, StatusTruthful, AllOld, Untouched, Clean
<1> QED BY <1>1, Invariance, PTL

\* No step turns a reported outcome into its opposite.
LEMMA OutcomeStep == IInv /\ [Next]_vars => KeepsOutcome
<1> SUFFICES ASSUME IInv, [Next]_vars PROVE KeepsOutcome
  OBVIOUS
<1> USE DEF IInv, TypeOK, FlowInv, ReportInv, KeepsOutcome, Idle, Early, Finishing,
        Recoveries, Preparing, Applying, Undoing, Appends,
        Goto, Return, StartupFails, rootFiles, jobFiles, process, vars
<1>1. CASE CreateJob
  BY <1>1 DEF CreateJob
<1>2. CASE VerifyOriginalSnapshots
  BY <1>2 DEF VerifyOriginalSnapshots
<1>3. CASE CommitRefused
  BY <1>3 DEF CommitRefused
<1>4. CASE CopyPayloads
  BY <1>4 DEF CopyPayloads
<1>5. CASE InspectTargets
  BY <1>5 DEF InspectTargets
<1>6. CASE WriteNewJournal
  BY <1>6 DEF WriteNewJournal
<1>7. CASE PrepareTargetPayload
  BY <1>7 DEF PrepareTargetPayload
<1>8. CASE PrepareDone
  BY <1>8 DEF PrepareDone
<1>9. CASE PrepareRefused
  BY <1>9 DEF PrepareRefused, AbortPrepare
<1>10. CASE AppendCommitting
  BY <1>10 DEF AppendCommitting, AppendState
<1>11. CASE RenameTargetToBackup
  BY <1>11 DEF RenameTargetToBackup, Swaps
<1>12. CASE NothingToBackup
  BY <1>12 DEF NothingToBackup, Swaps
<1>13. CASE RenamePreparedToTarget
  BY <1>13 DEF RenamePreparedToTarget
<1>14. CASE CheckBeforeReplace
  BY <1>14 DEF CheckBeforeReplace, Swaps
<1>15. CASE AtomicReplaceTarget
  BY <1>15 DEF AtomicReplaceTarget
<1>16. CASE ApplyDone
  BY <1>16 DEF ApplyDone
<1>17. CASE ApplyRefused
  BY <1>17 DEF ApplyRefused, Swaps, StartUndo
<1>18. CASE AppendCommitted
  BY <1>18 DEF AppendCommitted, AppendState
<1>19. CASE AppendRollingBack
  BY <1>19 DEF AppendRollingBack, AppendState, StartRollback
<1>20. CASE DeleteBeforeRestore
  BY <1>20 DEF DeleteBeforeRestore
<1>21. CASE RestoreBackup
  BY <1>21 DEF RestoreBackup
<1>22. CASE AtomicRestoreBackup
  BY <1>22 DEF AtomicRestoreBackup
<1>23. CASE DeleteTarget
  BY <1>23 DEF DeleteTarget
<1>24. CASE NothingToUndo
  BY <1>24 DEF NothingToUndo
<1>25. CASE RollbackDone
  BY <1>25 DEF RollbackDone
<1>26. CASE RollbackRefused
  BY <1>26 DEF RollbackRefused, LeaveIncomplete
<1>27. CASE CleanupReservedFile
  BY <1>27 DEF CleanupReservedFile
<1>28. CASE CleanupReservedDone
  BY <1>28 DEF CleanupReservedDone
<1>29. CASE RemoveJournal
  BY <1>29 DEF RemoveJournal
<1>30. CASE RemoveJobDirectory
  BY <1>30 DEF RemoveJobDirectory, CleanedUp
<1>31. CASE CleanupRefused
  BY <1>31 DEF CleanupRefused, LeaveUncleaned
<1>32. CASE StartRecovery
  BY <1>32 DEF StartRecovery
<1>33. CASE RecoverWithoutJournal
  BY <1>33 DEF RecoverWithoutJournal
<1>34. CASE RecoverPrepared
  BY <1>34 DEF RecoverPrepared, Found, RecoverInto
<1>35. CASE RecoverPreparedWithoutRoot
  BY <1>35 DEF RecoverPreparedWithoutRoot, Found, RecoverInto
<1>36. CASE RecoverCommitting
  BY <1>36 DEF RecoverCommitting, Found, RecoverInto
<1>37. CASE RecoverRollingBack
  BY <1>37 DEF RecoverRollingBack, Found
<1>38. CASE RecoverCommitted
  BY <1>38 DEF RecoverCommitted, Found, RecoverInto
<1>39. CASE RecoveryRefused
  BY <1>39 DEF RecoveryRefused, Found
<1>40. CASE CreatePayloadDirectoryFails
  BY <1>40 DEF CreatePayloadDirectoryFails
<1>41. CASE PrepareFails
  BY <1>41 DEF PrepareFails, InterruptedPrepare, InterruptedCreation,
       AbortPrepare
<1>42. CASE VerifyFails
  BY <1>42 DEF VerifyFails
<1>43. CASE AppendCommittingFails
  BY <1>43 DEF AppendCommittingFails, FailedAppend
<1>44. CASE ApplyFails
  BY <1>44 DEF ApplyFails, StartUndo
<1>45. CASE AppendCommittedFails
  BY <1>45 DEF AppendCommittedFails, FailedAppend, StartUndo
<1>46. CASE AppendRollingBackFails
  BY <1>46 DEF AppendRollingBackFails, FailedAppend, StartRollback
<1>47. CASE RollbackFails
  BY <1>47 DEF RollbackFails, LeaveIncomplete
<1>48. CASE CleanupFails
  BY <1>48 DEF CleanupFails, LeaveUncleaned
<1>49. CASE RecoveryFails
  BY <1>49 DEF RecoveryFails
<1>50. CASE Crash
  BY <1>50 DEF Crash, FailedAppend, InterruptedPrepare, InterruptedCreation,
               HalfReplaced, HalfRestored, CanReplace, HasBackup
<1>51. ASSUME NEW e \in Exposed, OthersChange(e) PROVE KeepsOutcome
  BY <1>51 DEF OthersChange
<1>52. CASE RootChanges
  BY <1>52 DEF RootChanges
<1>53. CASE ReplaceFailsHalfway
  BY <1>53 DEF ReplaceFailsHalfway, HalfReplaced, StartUndo, CanReplace
<1>54. CASE RestoreFailsHalfway
  BY <1>54 DEF RestoreFailsHalfway, HalfRestored, LeaveIncomplete, HasBackup
<1>55. CASE UNCHANGED vars
  BY <1>55
<1> QED
  BY <1>1, <1>2, <1>3, <1>4, <1>5, <1>6, <1>7, <1>8, <1>9, <1>10, <1>11,
       <1>12, <1>13, <1>14, <1>15, <1>16, <1>17, <1>18, <1>19, <1>20, <1>21,
       <1>22, <1>23, <1>24, <1>25, <1>26, <1>27, <1>28, <1>29, <1>30, <1>31,
       <1>32, <1>33, <1>34, <1>35, <1>36, <1>37, <1>38, <1>39, <1>40, <1>41,
       <1>42, <1>43, <1>44, <1>45, <1>46, <1>47, <1>48, <1>49, <1>50, <1>51,
       <1>52, <1>53, <1>54, <1>55 DEF Next, Request, Step, Failure, Environment

\* Recovery never turns a reported outcome into its opposite.
THEOREM OutcomeStableHolds == ASSUME CommitErrorsHonest PROVE Spec => OutcomeStable
  BY OutcomeStep, Invariance, PTL DEF Spec, OutcomeStable

-----------------------------------------------------------------------------
(* The next two hold whatever a failed append leaves in the journal.       *)

\* No step of apply_entries destroys what it displaces.
LEMMA DisplacedStep == TypeOK /\ [Next]_vars => KeepsDisplaced
<1> SUFFICES ASSUME TypeOK, [Next]_vars PROVE KeepsDisplaced
  OBVIOUS
<1> USE DEF TypeOK, KeepsDisplaced, Preparing, Applying, Undoing, Appends,
        Goto, Return, StartupFails, rootFiles, jobFiles, process, vars
<1>1. CASE CreateJob
  BY <1>1 DEF CreateJob
<1>2. CASE VerifyOriginalSnapshots
  BY <1>2 DEF VerifyOriginalSnapshots, OriginalsIntact
<1>3. CASE CommitRefused
  BY <1>3 DEF CommitRefused, OriginalsIntact
<1>4. CASE CopyPayloads
  BY <1>4 DEF CopyPayloads
<1>5. CASE InspectTargets
  BY <1>5 DEF InspectTargets
<1>6. CASE WriteNewJournal
  BY <1>6 DEF WriteNewJournal
<1>7. CASE PrepareTargetPayload
  BY <1>7 DEF PrepareTargetPayload
<1>8. CASE PrepareDone
  BY <1>8 DEF PrepareDone
<1>9. CASE PrepareRefused
  BY <1>9 DEF PrepareRefused, AbortPrepare
<1>10. CASE AppendCommitting
  BY <1>10 DEF AppendCommitting, AppendState
<1>11. CASE RenameTargetToBackup
  BY <1>11 DEF RenameTargetToBackup, Swaps, CanBackup
<1>12. CASE NothingToBackup
  BY <1>12 DEF NothingToBackup, Swaps
<1>13. CASE RenamePreparedToTarget
  BY <1>13 DEF RenamePreparedToTarget, CanInstall
<1>14. CASE CheckBeforeReplace
  BY <1>14 DEF CheckBeforeReplace, Swaps
<1>15. CASE AtomicReplaceTarget
  BY <1>15 DEF AtomicReplaceTarget, CanReplace
<1>16. CASE ApplyDone
  BY <1>16 DEF ApplyDone
<1>17. CASE ApplyRefused
  BY <1>17 DEF ApplyRefused, Swaps, CanBackup, CanInstall, CanReplace,
       StartUndo
<1>18. CASE AppendCommitted
  BY <1>18 DEF AppendCommitted, AppendState
<1>19. CASE AppendRollingBack
  BY <1>19 DEF AppendRollingBack, AppendState, StartRollback
<1>20. CASE DeleteBeforeRestore
  BY <1>20 DEF DeleteBeforeRestore, HasBackup
<1>21. CASE RestoreBackup
  BY <1>21 DEF RestoreBackup
<1>22. CASE AtomicRestoreBackup
  BY <1>22 DEF AtomicRestoreBackup, HasBackup
<1>23. CASE DeleteTarget
  BY <1>23 DEF DeleteTarget, CreatedByJob, HasBackup
<1>24. CASE NothingToUndo
  BY <1>24 DEF NothingToUndo, HasBackup, CreatedByJob
<1>25. CASE RollbackDone
  BY <1>25 DEF RollbackDone
<1>26. CASE RollbackRefused
  BY <1>26 DEF RollbackRefused, LeaveIncomplete
<1>27. CASE CleanupReservedFile
  BY <1>27 DEF CleanupReservedFile
<1>28. CASE CleanupReservedDone
  BY <1>28 DEF CleanupReservedDone, ReservedEmpty
<1>29. CASE RemoveJournal
  BY <1>29 DEF RemoveJournal
<1>30. CASE RemoveJobDirectory
  BY <1>30 DEF RemoveJobDirectory, CleanedUp
<1>31. CASE CleanupRefused
  BY <1>31 DEF CleanupRefused, LeaveUncleaned
<1>32. CASE StartRecovery
  BY <1>32 DEF StartRecovery
<1>33. CASE RecoverWithoutJournal
  BY <1>33 DEF RecoverWithoutJournal
<1>34. CASE RecoverPrepared
  BY <1>34 DEF RecoverPrepared, Found, RecoverInto
<1>35. CASE RecoverPreparedWithoutRoot
  BY <1>35 DEF RecoverPreparedWithoutRoot, Found, RecoverInto
<1>36. CASE RecoverCommitting
  BY <1>36 DEF RecoverCommitting, Found, RecoverInto
<1>37. CASE RecoverRollingBack
  BY <1>37 DEF RecoverRollingBack, Found
<1>38. CASE RecoverCommitted
  BY <1>38 DEF RecoverCommitted, Found, RecoverInto
<1>39. CASE RecoveryRefused
  BY <1>39 DEF RecoveryRefused, Found
<1>40. CASE CreatePayloadDirectoryFails
  BY <1>40 DEF CreatePayloadDirectoryFails
<1>41. CASE PrepareFails
  BY <1>41 DEF PrepareFails, InterruptedPrepare, InterruptedCreation,
       AbortPrepare
<1>42. CASE VerifyFails
  BY <1>42 DEF VerifyFails
<1>43. CASE AppendCommittingFails
  BY <1>43 DEF AppendCommittingFails, FailedAppend
<1>44. CASE ApplyFails
  BY <1>44 DEF ApplyFails, StartUndo
<1>45. CASE AppendCommittedFails
  BY <1>45 DEF AppendCommittedFails, FailedAppend, StartUndo
<1>46. CASE AppendRollingBackFails
  BY <1>46 DEF AppendRollingBackFails, FailedAppend, StartRollback
<1>47. CASE RollbackFails
  BY <1>47 DEF RollbackFails, LeaveIncomplete
<1>48. CASE CleanupFails
  BY <1>48 DEF CleanupFails, LeaveUncleaned
<1>49. CASE RecoveryFails
  BY <1>49 DEF RecoveryFails
<1>50. CASE Crash
  BY <1>50 DEF Crash, FailedAppend, InterruptedPrepare, InterruptedCreation,
               HalfReplaced, HalfRestored, CanReplace, HasBackup
<1>51. ASSUME NEW e \in Exposed, OthersChange(e) PROVE KeepsDisplaced
  BY <1>51 DEF OthersChange
<1>52. CASE RootChanges
  BY <1>52 DEF RootChanges
<1>53. CASE ReplaceFailsHalfway
  BY <1>53 DEF ReplaceFailsHalfway, HalfReplaced, StartUndo, CanReplace
<1>54. CASE RestoreFailsHalfway
  BY <1>54 DEF RestoreFailsHalfway, HalfRestored, LeaveIncomplete, HasBackup
<1>55. CASE UNCHANGED vars
  BY <1>55
<1> QED
  BY <1>1, <1>2, <1>3, <1>4, <1>5, <1>6, <1>7, <1>8, <1>9, <1>10, <1>11,
       <1>12, <1>13, <1>14, <1>15, <1>16, <1>17, <1>18, <1>19, <1>20, <1>21,
       <1>22, <1>23, <1>24, <1>25, <1>26, <1>27, <1>28, <1>29, <1>30, <1>31,
       <1>32, <1>33, <1>34, <1>35, <1>36, <1>37, <1>38, <1>39, <1>40, <1>41,
       <1>42, <1>43, <1>44, <1>45, <1>46, <1>47, <1>48, <1>49, <1>50, <1>51,
       <1>52, <1>53, <1>54, <1>55 DEF Next, Request, Step, Failure, Environment

\* apply_entries destroys no content, also none that it did not expect.
THEOREM CommitDestroysNothingHolds == Spec => CommitDestroysNothing
  BY DisplacedStep, TypeCorrect, PTL DEF Spec, CommitDestroysNothing

\* The two steps between which a target is absent belong to the other platform.
PlatformInv == Atomic => pc \notin {"install", "restore"}

\* uses_atomic_replacement never lets a step of the renaming protocol run.
LEMMA PlatformStep == TypeOK /\ PlatformInv /\ [Next]_vars => PlatformInv'
<1> SUFFICES ASSUME TypeOK, PlatformInv, [Next]_vars PROVE PlatformInv'
  OBVIOUS
<1> USE DEF PlatformInv, TypeOK, Goto, Return, StartupFails
<1>1. CASE Request
  BY <1>1 DEF Request, CreateJob, VerifyOriginalSnapshots, CommitRefused
<1>2. CASE RenameTargetToBackup \/ NothingToBackup
  BY <1>2 DEF RenameTargetToBackup, NothingToBackup, Swaps
<1>3. CASE DeleteBeforeRestore
  BY <1>3 DEF DeleteBeforeRestore
<1>4. CASE Step
  BY <1>2, <1>3, <1>4 DEF Step, CopyPayloads, InspectTargets, WriteNewJournal,
     PrepareTargetPayload,
     PrepareDone, PrepareRefused, AbortPrepare, AppendCommitting,
     RenamePreparedToTarget, CheckBeforeReplace, AtomicReplaceTarget,
     ApplyDone, ApplyRefused, StartUndo, AppendCommitted, AppendRollingBack, StartRollback,
     RestoreBackup, AtomicRestoreBackup, DeleteTarget, NothingToUndo,
     RollbackDone, RollbackRefused, LeaveIncomplete, CleanupReservedFile, process,
     CleanupReservedDone, RemoveJournal, RemoveJobDirectory, CleanupRefused, LeaveUncleaned,
     StartRecovery, RecoverWithoutJournal, RecoverPrepared, RecoverPreparedWithoutRoot,
     RecoverCommitting, RecoverRollingBack, RecoverCommitted, RecoverInto, RecoveryRefused
<1>5. CASE Failure
  BY <1>5 DEF Failure, CreatePayloadDirectoryFails, PrepareFails, AbortPrepare, VerifyFails,
     AppendCommittingFails, ApplyFails, ReplaceFailsHalfway, AppendCommittedFails, StartUndo,
     AppendRollingBackFails, StartRollback, RollbackFails, RestoreFailsHalfway,
     LeaveIncomplete, CleanupFails, LeaveUncleaned, RecoveryFails
<1>6. CASE Environment
  BY <1>6 DEF Environment, Crash, OthersChange, RootChanges, process
<1>7. CASE UNCHANGED vars
  BY <1>7 DEF vars, process
<1> QED BY <1>1, <1>4, <1>5, <1>6, <1>7 DEF Next

\* With atomic_replace_target and atomic_restore_backup no commit goes on and no
\* job ends without an executable it found, in no state of any commit, rollback
\* or recovery; it may be missing after a half failed ReplaceFileW, and is then
\* in the backup of a job that is rolled back.
THEOREM ExecutableStaysHolds ==
    ASSUME CommitErrorsHonest PROVE Spec => []ExecutableStays
<1>1. Init => PlatformInv
  BY DEF Init, PlatformInv
<1>2. ASSUME IInv, PlatformInv, Atomic, NEW e \in Replaced \ touched,
             original[e] # "absent", target[e] = "absent"
      PROVE  /\ pc \in {"append_rolling_back", "rollback", "serving", "down", "recover"}
             /\ jobDir = "journal" /\ ReadJournal(journal) # "committed"
             /\ backup[e] = original[e]
  <2>1. e \in Untouched /\ e \in Entry /\ NewContent(e) = "new"
    BY <1>2, ConstantsOK DEF Untouched, Entry, Replaced, N, NewContent
  <2>2. ~AllOld /\ ~AllNew
    BY <1>2, <2>1 DEF AllOld, AllNew, Untouched
  <2>3. JState \in {"committing", "rolling_back", "unreadable"}
    BY <1>2, <2>2, ReadJournalRange DEF IInv, TypeOK, ContentInv, JState, States
  <2>4. backup[e] = original[e]
    BY <1>2, <2>1, <2>3 DEF IInv, ContentInv, Undoable, Clean
  <2>5. ~Clean(e) /\ ~Swapped(e)
    BY <1>2, <2>1 DEF Clean, Swapped
  <2>6. jobDir = "journal"
    BY <2>3 DEF JState
  <2>7. pc \notin Applying \cup {"append_committed"}
    BY <1>2, <2>1, <2>5 DEF IInv, TypeOK, ProgressInv, PlatformInv, Applying, Entry
  <2>8. pc \notin Finishing
    BY <1>2, <2>1, <2>2, <2>5, <2>6 DEF IInv, TypeOK, FlowInv, ProgressInv, Flows, Recoveries,
       Finishing
  <2>9. pc \notin Early
    BY <2>1, <2>4, <1>2 DEF IInv, ContentInv, NoBackups
  <2> QED BY <1>2, <2>3, <2>4, <2>6, <2>7, <2>8, <2>9
          DEF IInv, TypeOK, PlatformInv, PCs, Preparing, Applying, Undoing, Appends,
              Early, Finishing, JState
<1>3. IInv /\ PlatformInv => ExecutableStays
  BY <1>2 DEF ExecutableStays
<1> QED BY <1>1, <1>3, PlatformStep, TypeCorrect, Invariance, PTL DEF Spec

-----------------------------------------------------------------------------
(***************************************************************************)
(* FileTransaction implements AtomicFileSet: the steps that a client can   *)
(* see are those of the abstract job.                                      *)
(***************************************************************************)

\* Only the exposed entries are changed by somebody else.
TouchedInv == touched \subseteq Exposed

\* What the abstract variables do in a step, entry by entry.
Stays == \A e \in Private : Settled(e)' = Settled(e) /\ original'[e] = original[e]
AtBefore == \A e \in Private : Settled(e) = original[e]
AtNew == \A e \in Private : Settled(e) = NewContent(e)

SeenCommit ==
    /\ report = "none" /\ report' = report /\ AtBefore
    /\ \A e \in Private : Settled(e)' = NewContent(e) /\ original'[e] = original[e]

SeenStep ==
    \/ Stays /\ report' \in {report, "none"}
    \/ Stays /\ report = "none" /\ report' = "committed" /\ AtNew
    \/ Stays /\ report \in {"none", "failed"} /\ report' = "rolledBack" /\ AtBefore
    \/ Stays /\ report = "none" /\ report' = "failed" /\ AtBefore
    \/ /\ report = "none" /\ report' = report
       /\ \A e \in Private : Settled(e)' = Settled(e) /\ original'[e] = Settled(e)
    \/ SeenCommit

-----------------------------------------------------------------------------
\* InspectTargets forgets what was changed before, and only OthersChange adds to it.
LEMMA TouchedStep == TouchedInv /\ [Next]_vars => TouchedInv'
<1> SUFFICES ASSUME TouchedInv, [Next]_vars PROVE TouchedInv'
  OBVIOUS
<1> USE DEF TouchedInv
<1>1. CASE Request
  BY <1>1 DEF Request, CreateJob, VerifyOriginalSnapshots, CommitRefused
<1>2. CASE Step
  BY <1>2 DEF Step, CopyPayloads, InspectTargets, WriteNewJournal, PrepareTargetPayload,
     PrepareDone, PrepareRefused, AbortPrepare, AppendCommitting, RenameTargetToBackup,
     NothingToBackup, RenamePreparedToTarget, CheckBeforeReplace, AtomicReplaceTarget,
     ApplyDone, ApplyRefused, StartUndo, AppendCommitted, AppendRollingBack, StartRollback,
     DeleteBeforeRestore, RestoreBackup, AtomicRestoreBackup, DeleteTarget, NothingToUndo,
     RollbackDone, RollbackRefused, LeaveIncomplete, CleanupReservedFile,
     CleanupReservedDone, RemoveJournal, RemoveJobDirectory, CleanupRefused, LeaveUncleaned,
     StartRecovery, RecoverWithoutJournal, RecoverPrepared, RecoverPreparedWithoutRoot,
     RecoverCommitting, RecoverRollingBack, RecoverCommitted, RecoverInto, RecoveryRefused
<1>3. CASE Failure
  BY <1>3 DEF Failure, CreatePayloadDirectoryFails, PrepareFails, AbortPrepare, VerifyFails,
     AppendCommittingFails, ApplyFails, ReplaceFailsHalfway, AppendCommittedFails, StartUndo,
     AppendRollingBackFails, StartRollback, RollbackFails, RestoreFailsHalfway,
     LeaveIncomplete, CleanupFails, LeaveUncleaned, RecoveryFails
<1>4. CASE Environment
  BY <1>4 DEF Environment, Crash, OthersChange, RootChanges
<1>5. CASE UNCHANGED vars
  BY <1>5 DEF vars
<1> QED BY <1>1, <1>2, <1>3, <1>4, <1>5 DEF Next

\* A journal that can be read is in a state of the protocol.
LEMMA ReadJournalSaysSomething == ASSUME NEW j \in Seq(Line) PROVE ReadJournal(j) # "none"
<1>1. CASE Readable(j)
  <2>1. Parsed(j) \in 1..Len(j) /\ j[Parsed(j)] \in Line
    BY <1>1 DEF Readable, Parsed
  <2> QED BY <1>1, <2>1 DEF ReadJournal, Line, States
<1>2. CASE ~Readable(j)
  BY <1>2 DEF ReadJournal
<1> QED BY <1>1, <1>2

\* A preparation that is interrupted anywhere has changed nothing.
LEMMA InterruptedPrepareSeen ==
    ASSUME IInv, TouchedInv, pc \in Preparing, InterruptedPrepare
    PROVE  Stays
<1>0. \A e \in Private : e \in Entry /\ e \in Untouched
  BY DEF Private, TouchedInv, Untouched
<1> USE <1>0 DEF Stays, Settled, rootFiles, jobFiles
<1>1. CASE UNCHANGED <<rootFiles, jobFiles>>
  BY <1>1
<1>2. CASE pc = "write_journal" /\ InterruptedCreation /\ UNCHANGED rootFiles
  <2>1. journal' \in NewJournalPrefixes \cup {NewJournal} /\ jobDir' = "journal"
    BY <1>2 DEF InterruptedCreation
  <2>2. ReadJournal(journal') # "committed" /\ UNCHANGED original
    BY <1>2, <2>1, JournalFacts DEF InterruptedCreation
  <2>3. jobDir = "dir" /\ \A e \in Private : target[e] = original[e]
    BY <1>2 DEF IInv, JournalInv, ContentInv, AllOld, Untouched
  <2> QED BY <1>2, <2>1, <2>2, <2>3
<1>3. CASE pc = "stage" /\ UNCHANGED <<target, backup, jobFiles>>
  BY <1>3
<1> QED BY <1>1, <1>2, <1>3 DEF InterruptedPrepare

\* Every step of a job is one that its client may see.
LEMMA SeenByClient ==
    CommitErrorsHonest /\ IInv /\ TouchedInv /\ [Next]_vars => SeenStep
<1> SUFFICES ASSUME CommitErrorsHonest /\ IInv /\ TouchedInv, [Next]_vars PROVE SeenStep
  OBVIOUS
<1>0. \A e \in Private : e \in Entry /\ e \in Untouched /\ e \notin Exposed
  BY DEF Private, TouchedInv, Untouched
<1> USE <1>0 DEF IInv, TypeOK, FlowInv, JournalInv, JState, SeenStep, Stays, Settled,
        Idle, Early, Finishing,
        Recoveries, Preparing, Applying, Undoing, Appends,
        Goto, Return, StartupFails, rootFiles, jobFiles, process, vars
<1>1. CASE CreateJob
  BY <1>1 DEF CreateJob
<1>2. CASE VerifyOriginalSnapshots
  BY <1>2 DEF VerifyOriginalSnapshots
<1>3. CASE CommitRefused
  BY <1>3, JournalFacts DEF CommitRefused, AtBefore
<1>4. CASE CopyPayloads
  BY <1>4 DEF CopyPayloads
<1>5. CASE InspectTargets
  BY <1>5 DEF InspectTargets
<1>6. CASE WriteNewJournal
  <2>1. ReadJournal(journal') = "prepared" /\ jobDir = "dir" /\ jobDir' = "journal"
    BY <1>6, JournalFacts DEF WriteNewJournal
  <2>2. \A e \in Private : target[e] = original[e]
    BY <1>6 DEF WriteNewJournal, ContentInv, AllOld, Untouched
  <2> QED BY <1>6, <2>1, <2>2 DEF WriteNewJournal
<1>7. CASE PrepareTargetPayload
  BY <1>7 DEF PrepareTargetPayload
<1>8. CASE PrepareDone
  BY <1>8 DEF PrepareDone
<1>9. CASE PrepareRefused
  BY <1>9 DEF PrepareRefused, AbortPrepare
<1>10. CASE AppendCommitting
  <2>1. journal' = Committing
    BY <1>10 DEF AppendCommitting, AppendState, Committing
  <2>2. ReadJournal(journal) = "prepared" /\ ReadJournal(journal') = "committing"
    BY <1>10, <2>1, JournalFacts DEF AppendCommitting
  <2> QED BY <1>10, <2>2 DEF AppendCommitting, AppendState
<1>11. CASE RenameTargetToBackup
  <2>1. jobDir = "journal" /\ ReadJournal(journal) = "committing"
    BY <1>11, JournalFacts DEF RenameTargetToBackup
  <2> QED BY <1>11, <2>1 DEF RenameTargetToBackup
<1>12. CASE NothingToBackup
  BY <1>12 DEF NothingToBackup, Swaps
<1>13. CASE RenamePreparedToTarget
  <2>1. jobDir = "journal" /\ ReadJournal(journal) = "committing"
    BY <1>13, JournalFacts DEF RenamePreparedToTarget
  <2> QED BY <1>13, <2>1 DEF RenamePreparedToTarget
<1>14. CASE CheckBeforeReplace
  BY <1>14 DEF CheckBeforeReplace, Swaps
<1>15. CASE AtomicReplaceTarget
  <2>1. jobDir = "journal" /\ ReadJournal(journal) = "committing"
    BY <1>15, JournalFacts DEF AtomicReplaceTarget
  <2> QED BY <1>15, <2>1 DEF AtomicReplaceTarget
<1>16. CASE ApplyDone
  BY <1>16 DEF ApplyDone
<1>17. CASE ApplyRefused
  BY <1>17 DEF ApplyRefused, Swaps, StartUndo
<1>18. CASE AppendCommitted
  <2>1. /\ jobDir = "journal" /\ ReadJournal(journal) = "committing"
        /\ jobDir' = "journal" /\ ReadJournal(journal') = "committed"
    BY <1>18, JournalFacts DEF AppendCommitted, AppendState
  <2>2. /\ report = "none" /\ UNCHANGED <<report, target, original>>
        /\ \A e \in Private : target[e] = NewContent(e)
    BY <1>18 DEF AppendCommitted, AppendState, ProgressInv, Swapped
  <2> QED BY <2>1, <2>2 DEF SeenCommit, AtBefore
<1>19. CASE AppendRollingBack
  <2>1. /\ jobDir = "journal" /\ ReadJournal(journal) = "committing"
        /\ ReadJournal(journal') \in {"rolling_back", "unreadable"}
    BY <1>19, RollingBackAppended, JournalFacts DEF AppendRollingBack, AppendState
  <2> QED BY <1>19, <2>1 DEF AppendRollingBack, AppendState, StartRollback
<1>20. CASE DeleteBeforeRestore
  BY <1>20 DEF DeleteBeforeRestore
<1>21. CASE RestoreBackup
  BY <1>21 DEF RestoreBackup
<1>22. CASE AtomicRestoreBackup
  BY <1>22 DEF AtomicRestoreBackup
<1>23. CASE DeleteTarget
  BY <1>23 DEF DeleteTarget
<1>24. CASE NothingToUndo
  BY <1>24 DEF NothingToUndo
<1>25. CASE RollbackDone
  BY <1>25 DEF RollbackDone
<1>26. CASE RollbackRefused
  BY <1>26 DEF RollbackRefused, LeaveIncomplete, AtBefore
<1>27. CASE CleanupReservedFile
  BY <1>27 DEF CleanupReservedFile
<1>28. CASE CleanupReservedDone
  BY <1>28 DEF CleanupReservedDone
<1>29. CASE RemoveJournal
  <2>1. ReadJournal(journal) # "committed" => \A e \in Private : target[e] = original[e]
    <3>1. pc \in Finishing /\ jobDir = "journal" /\ flow \in Flows \ {"none"}
      BY <1>29 DEF RemoveJournal
    <3>2. CASE flow \in {"abort", "recover_discard"}
      BY <3>1, <3>2 DEF ProgressInv, AllOld, Untouched
    <3>3. CASE flow \in {"undo", "recover_undo"}
      BY <3>1, <3>3 DEF ProgressInv, Clean
    <3>4. CASE flow \in {"commit", "recover_commit"}
      BY <3>1, <3>4, ReadJournalSaysSomething
    <3> QED BY <3>1, <3>2, <3>3, <3>4 DEF Flows
  <2> QED BY <1>29, <2>1 DEF RemoveJournal
<1>30. CASE RemoveJobDirectory
  <2>1. Stays
    BY <1>30 DEF RemoveJobDirectory
  <2>2. CASE flow \in {"commit", "recover_commit"}
    BY <1>30, <2>1, <2>2 DEF RemoveJobDirectory, CleanedUp, ProgressInv, ReportInv, AllNew,
       Untouched, AtNew
  <2>3. CASE flow \in {"undo", "recover_undo"}
    BY <1>30, <2>1, <2>3 DEF RemoveJobDirectory, CleanedUp, ProgressInv, ReportInv, Clean,
       AtBefore
  <2>4. CASE flow \notin {"commit", "recover_commit", "undo", "recover_undo"}
    BY <1>30, <2>1, <2>4 DEF RemoveJobDirectory, CleanedUp
  <2> QED BY <2>2, <2>3, <2>4
<1>31. CASE CleanupRefused
  <2>0. pc \in Finishing /\ LeaveUncleaned
    BY <1>31 DEF CleanupRefused
  <2>1. Stays
    BY <2>0 DEF LeaveUncleaned
  <2>2. CASE flow = "commit"
    <3>1. AtNew
      BY <2>0, <2>2, ReadJournalSaysSomething DEF ProgressInv, AllNew, AtNew, Untouched
    <3>2. report = "none" /\ report' = "committed"
      BY <2>0, <2>2 DEF LeaveUncleaned
    <3> QED BY <2>1, <3>1, <3>2
  <2>3. CASE flow = "undo"
    BY <2>0, <2>1, <2>3 DEF LeaveUncleaned, ProgressInv, Clean, AtBefore
  <2>4. CASE flow \notin {"commit", "undo"}
    BY <2>0, <2>1, <2>4 DEF LeaveUncleaned
  <2> QED BY <2>2, <2>3, <2>4
<1>32. CASE StartRecovery
  BY <1>32 DEF StartRecovery
<1>33. CASE RecoverWithoutJournal
  BY <1>33 DEF RecoverWithoutJournal
<1>34. CASE RecoverPrepared
  BY <1>34 DEF RecoverPrepared, Found, RecoverInto
<1>35. CASE RecoverPreparedWithoutRoot
  BY <1>35 DEF RecoverPreparedWithoutRoot, Found, RecoverInto
<1>36. CASE RecoverCommitting
  BY <1>36 DEF RecoverCommitting, Found, RecoverInto
<1>37. CASE RecoverRollingBack
  BY <1>37 DEF RecoverRollingBack, Found
<1>38. CASE RecoverCommitted
  BY <1>38 DEF RecoverCommitted, Found, RecoverInto
<1>39. CASE RecoveryRefused
  BY <1>39 DEF RecoveryRefused, Found
<1>40. CASE CreatePayloadDirectoryFails
  BY <1>40 DEF CreatePayloadDirectoryFails
<1>41. CASE PrepareFails
  BY <1>41, InterruptedPrepareSeen DEF PrepareFails, AbortPrepare
<1>42. CASE VerifyFails
  BY <1>42, JournalFacts DEF VerifyFails, AtBefore
<1>43. CASE AppendCommittingFails
  <2>1. ReadJournal(journal') = "prepared" \/ journal' \in {Committing, BareCommitting}
    BY <1>43, CommittingOutcomes DEF AppendCommittingFails, FailedAppend
  <2>2. /\ jobDir = "journal" /\ ReadJournal(journal) = "prepared"
        /\ ReadJournal(journal') \in {"prepared", "committing"}
    BY <1>43, <2>1, JournalFacts DEF AppendCommittingFails
  <2> QED BY <1>43, <2>2 DEF AppendCommittingFails, FailedAppend, AtBefore
<1>44. CASE ApplyFails
  BY <1>44 DEF ApplyFails, StartUndo
<1>45. CASE AppendCommittedFails
  <2>1. journal' \in {Committing, TornCommitting}
    BY <1>45, CommittedOutcomes DEF AppendCommittedFails, FailedAppend, CommitErrorsHonest
  <2>2. /\ jobDir = "journal" /\ ReadJournal(journal) = "committing"
        /\ ReadJournal(journal') = "committing"
    BY <1>45, <2>1, JournalFacts DEF AppendCommittedFails
  <2> QED BY <1>45, <2>2 DEF AppendCommittedFails, FailedAppend, StartUndo
<1>46. CASE AppendRollingBackFails
  <2>1. /\ jobDir = "journal" /\ ReadJournal(journal) = "committing"
        /\ ReadJournal(journal') # "committed"
    BY <1>46, RollingBackOutcomes, JournalFacts DEF AppendRollingBackFails, FailedAppend
  <2>2. UNCHANGED <<report, jobDir, original>>
    BY <1>46 DEF AppendRollingBackFails, FailedAppend, StartRollback
  <2> QED BY <2>1, <2>2
<1>47. CASE RollbackFails
  BY <1>47 DEF RollbackFails, LeaveIncomplete, AtBefore
<1>48. CASE CleanupFails
  <2>0. pc \in Finishing /\ LeaveUncleaned
    BY <1>48 DEF CleanupFails
  <2>1. Stays
    BY <2>0 DEF LeaveUncleaned
  <2>2. CASE flow = "commit"
    <3>1. AtNew
      BY <2>0, <2>2, ReadJournalSaysSomething DEF ProgressInv, AllNew, AtNew, Untouched
    <3>2. report = "none" /\ report' = "committed"
      BY <2>0, <2>2 DEF LeaveUncleaned
    <3> QED BY <2>1, <3>1, <3>2
  <2>3. CASE flow = "undo"
    BY <2>0, <2>1, <2>3 DEF LeaveUncleaned, ProgressInv, Clean, AtBefore
  <2>4. CASE flow \notin {"commit", "undo"}
    BY <2>0, <2>1, <2>4 DEF LeaveUncleaned
  <2> QED BY <2>2, <2>3, <2>4
<1>49. CASE RecoveryFails
  BY <1>49 DEF RecoveryFails
<1>50. CASE Crash
  <2>0. UNCHANGED report
    BY <1>50 DEF Crash
  <2>1. CASE pc \in Preparing /\ InterruptedPrepare
    BY <2>0, <2>1, InterruptedPrepareSeen
  <2>2. CASE /\ pc \in DOMAIN Appends /\ FailedAppend(Appends[pc], CrashCuts)
             /\ UNCHANGED rootFiles
    <3>0. jobDir = "journal" /\ UNCHANGED <<jobDir, original, target>>
      BY <2>2 DEF FailedAppend
    <3>1. CASE pc = "append_committing"
      <4>1. ReadJournal(journal') = "prepared" \/ journal' \in {Committing, BareCommitting}
        BY <2>2, <3>1, CommittingOutcomes DEF FailedAppend
      <4>2. ReadJournal(journal) # "committed" /\ ReadJournal(journal') # "committed"
        BY <3>1, <4>1, JournalFacts
      <4> QED BY <2>0, <3>0, <4>2
    <3>2. CASE pc = "append_committed"
      <4>1. ReadJournal(journal) = "committing" /\ report = "none"
        BY <3>2, JournalFacts
      <4>2. \A e \in Private : target[e] = NewContent(e)
        BY <3>2 DEF ProgressInv, Swapped
      <4>3. CASE ReadJournal(journal') = "committed"
        BY <2>0, <3>0, <4>1, <4>2, <4>3 DEF SeenCommit, AtBefore
      <4>4. CASE ReadJournal(journal') # "committed"
        BY <2>0, <3>0, <4>1, <4>4
      <4> QED BY <4>3, <4>4
    <3>3. CASE pc = "append_rolling_back"
      <4>1. ReadJournal(journal) = "committing" /\ ReadJournal(journal') # "committed"
        BY <2>2, <3>3, RollingBackOutcomes, JournalFacts DEF FailedAppend
      <4> QED BY <2>0, <3>0, <4>1
    <3> QED BY <2>2, <3>1, <3>2, <3>3
  <2>3. CASE UNCHANGED <<rootFiles, jobFiles>>
    BY <2>0, <2>3
  <2>4. CASE HalfReplaced
    BY <2>0, <2>4, JournalFacts DEF HalfReplaced
  <2>5. CASE HalfRestored
    BY <2>0, <2>5 DEF HalfRestored
  <2> QED BY <1>50, <2>1, <2>2, <2>3, <2>4, <2>5 DEF Crash
<1>51. ASSUME NEW e \in Exposed, OthersChange(e) PROVE SeenStep
  BY <1>51 DEF OthersChange
<1>52. CASE RootChanges
  BY <1>52 DEF RootChanges
<1>53. CASE ReplaceFailsHalfway
  <2>1. jobDir = "journal" /\ ReadJournal(journal) = "committing"
    BY <1>53, JournalFacts DEF ReplaceFailsHalfway, HalfReplaced
  <2> QED BY <1>53, <2>1 DEF ReplaceFailsHalfway, HalfReplaced, StartUndo
<1>54. CASE RestoreFailsHalfway
  BY <1>54 DEF RestoreFailsHalfway, HalfRestored, LeaveIncomplete, AtBefore
<1>55. CASE UNCHANGED vars
  BY <1>55
<1> QED
  BY <1>1, <1>2, <1>3, <1>4, <1>5, <1>6, <1>7, <1>8, <1>9, <1>10, <1>11,
       <1>12, <1>13, <1>14, <1>15, <1>16, <1>17, <1>18, <1>19, <1>20, <1>21,
       <1>22, <1>23, <1>24, <1>25, <1>26, <1>27, <1>28, <1>29, <1>30, <1>31,
       <1>32, <1>33, <1>34, <1>35, <1>36, <1>37, <1>38, <1>39, <1>40, <1>41,
       <1>42, <1>43, <1>44, <1>45, <1>46, <1>47, <1>48, <1>49, <1>50, <1>51,
       <1>52, <1>53, <1>54, <1>55 DEF Next, Request, Step, Failure, Environment

\* Such a step is a step of AtomicFileSet, or leaves its variables alone.
LEMMA SeenIsAbstract == IInv /\ SeenStep => [Job!Next]_(Job!vars)
<1> SUFFICES ASSUME IInv, SeenStep PROVE [Job!Next]_(Job!vars)
  OBVIOUS
<1> DEFINE files == [e \in Private |-> Settled(e)]
           before == [e \in Private |-> original[e]]
           new == [e \in Private |-> NewContent(e)]
<1>1. ASSUME Stays PROVE files' = files /\ before' = before
  BY <1>1 DEF Stays
<1>2. CASE Stays /\ report' \in {report, "none"}
  BY <1>1, <1>2 DEF Job!Next, Job!Begin, Job!vars
<1>3. CASE Stays /\ report = "none" /\ report' = "committed" /\ AtNew
  <2>1. files = new
    BY <1>3 DEF AtNew
  <2> QED BY <1>1, <1>3, <2>1 DEF Job!Next, Job!ReportCommitted
<1>4. CASE Stays /\ report \in {"none", "failed"} /\ report' = "rolledBack" /\ AtBefore
  <2>1. files = before
    BY <1>4 DEF AtBefore
  <2> QED BY <1>1, <1>4, <2>1 DEF Job!Next, Job!ReportRolledBack
<1>5. CASE Stays /\ report = "none" /\ report' = "failed" /\ AtBefore
  <2>1. files = before
    BY <1>5 DEF AtBefore
  <2> QED BY <1>1, <1>5, <2>1 DEF Job!Next, Job!ReportFailed
<1>6. CASE /\ report = "none" /\ report' = report
           /\ \A e \in Private : Settled(e)' = Settled(e) /\ original'[e] = Settled(e)
  <2>1. files' = files /\ before' = files
    BY <1>6
  <2> QED BY <1>6, <2>1 DEF Job!Next, Job!Prepare
<1>7. CASE SeenCommit
  <2>1. files = before /\ files' = new /\ before' = before
    BY <1>7 DEF SeenCommit, AtBefore
  <2> QED BY <1>7, <2>1 DEF SeenCommit, Job!Next, Job!Commit
<1> QED BY <1>2, <1>3, <1>4, <1>5, <1>6, <1>7 DEF SeenStep

\* A job of any number of files is AtomicFileSet on the entries that nobody else
\* changes: commit_file_set, its rollback and recover_incomplete_with_policy let
\* all of it happen in the one step that makes "committed" readable.
THEOREM TakesEffectAtOnceHolds == ASSUME CommitErrorsHonest PROVE Spec => TakesEffectAtOnce
<1>1. Init => Job!Init
  <2> SUFFICES ASSUME Init PROVE Job!Init
    OBVIOUS
  <2>1. \A e \in Private : Settled(e) = target[e] /\ original[e] = target[e]
    BY DEF Init, Settled
  <2>2. \A e \in Private : target[e] \in {"old", "absent"}
    BY DEF Init, Private
  <2>3. [e \in Private |-> Settled(e)] \in [Private -> {"old", "absent"}]
    BY <2>1, <2>2
  <2>4. [e \in Private |-> original[e]] = [e \in Private |-> Settled(e)]
    BY <2>1
  <2> QED BY <2>3, <2>4 DEF Init, Job!Init
<1>2. Init => TouchedInv
  BY DEF Init, TouchedInv
<1>3. IInv /\ TouchedInv /\ [Next]_vars => TouchedInv'
  BY TouchedStep
<1>4. IInv /\ TouchedInv /\ [Next]_vars => [Job!Next]_(Job!vars)
  BY SeenByClient, SeenIsAbstract
<1> QED BY <1>1, <1>2, <1>3, <1>4, Invariance, PTL DEF Spec, TakesEffectAtOnce, Job!Spec

=============================================================================
