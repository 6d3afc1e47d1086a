------------------------- MODULE ProtectedFile_proofs -------------------------
(***************************************************************************)
(* What a replacement of a protected file and its recovery leave, for any  *)
(* documents: the facts that the components which keep such files share.   *)
(***************************************************************************)
EXTENDS ProtectedFile, TLAPS

\* What recover_service_file_replacement will leave at the path.
Found(f) == Recovered(f).path

LEMMA FoundIs ==
    ASSUME NEW D, NEW f \in FileOf(D)
    PROVE  /\ Found(f) = IF f.path # Absent THEN f.path
                         ELSE IF f.new # Absent THEN f.new ELSE f.bak
           /\ Recovered(f) = Replaced(Found(f))
  BY DEF Found, Recovered, Replaced

LEMMA FoundType ==
    ASSUME NEW D, NEW f \in FileOf(D)
    PROVE  Found(f) \in D \cup {Absent, Torn}
  BY FoundIs DEF FileOf

LEMMA ReplacedFile ==
    ASSUME NEW D, NEW doc \in D \cup {Absent, Torn}
    PROVE  /\ Replaced(doc) \in FileOf(D)
           /\ Found(Replaced(doc)) = doc
           /\ ~IsStale(Replaced(doc)) /\ ~IsAmbiguous(Replaced(doc))
<1>1. Replaced(doc) \in FileOf(D)
  BY DEF Replaced, FileOf
<1>2. Found(Replaced(doc)) = doc
  BY <1>1, FoundIs DEF Replaced
<1> QED BY <1>1, <1>2 DEF Replaced, IsStale, IsAmbiguous

\* What the calls of a replacement leave.
LEMMA ReplaceStates ==
    ASSUME NEW D, NEW f \in FileOf(D), NEW doc \in D,
           ~IsStale(f), NEW g \in ReplaceCrashes(f, doc)
    PROVE  /\ g = [path |-> g.path, new |-> g.new, bak |-> g.bak]
           /\ \/ g.path = f.path /\ g.new \in {Absent, doc, Torn} /\ g.bak = Absent
              \/ g.path = Absent /\ g.new = doc /\ g.bak = f.path
              \/ g.path = doc /\ g.new = Absent /\ g.bak \in {f.path, Absent}
<1> USE DEF IsStale, FileOf
<1>1. CASE g = f
  BY <1>1
<1>2. CASE g = Written(f, doc)
  BY <1>2 DEF Written
<1>3. CASE g = Displaced(f, doc)
  BY <1>3 DEF Displaced
<1>4. CASE g = Activated(f, doc)
  BY <1>4 DEF Activated
<1>5. CASE g = Replaced(doc)
  BY <1>5 DEF Replaced
<1>6. CASE g \in PartlyWritten(f)
  BY <1>6 DEF PartlyWritten, Written
<1> QED BY <1>1, <1>2, <1>3, <1>4, <1>5, <1>6 DEF ReplaceCrashes

\* An interrupted replacement leaves the old document or the new one to be
\* found, or a torn one where there was none; it never leaves all three files.
LEMMA ReplaceInterrupted ==
    ASSUME NEW D, NEW f \in FileOf(D), NEW doc \in D,
           doc # Absent, ~IsAmbiguous(f), NEW g \in ReplaceCrashes(f, doc)
    PROVE  /\ g \in FileOf(D) /\ ~IsAmbiguous(g)
           /\ Found(g) \in {Found(f), doc, Torn}
           /\ Found(g) = Torn => Found(f) \in {Absent, Torn} \/ doc = Torn
<1>1. CASE IsStale(f)
  BY <1>1 DEF ReplaceCrashes
<1>2. CASE ~IsStale(f)
  <2>1. /\ g = [path |-> g.path, new |-> g.new, bak |-> g.bak]
        /\ \/ g.path = f.path /\ g.new \in {Absent, doc, Torn} /\ g.bak = Absent
           \/ g.path = Absent /\ g.new = doc /\ g.bak = f.path
           \/ g.path = doc /\ g.new = Absent /\ g.bak \in {f.path, Absent}
    BY <1>2, ReplaceStates
  <2>2. f.path \in D \cup {Absent, Torn}
    BY DEF FileOf
  <2>3. g.path \in D \cup {Absent, Torn} /\ g.new \in D \cup {Absent, Torn}
        /\ g.bak \in D \cup {Absent, Torn}
    BY <2>1, <2>2
  <2>4. g \in FileOf(D)
    BY <2>1, <2>3 DEF FileOf
  <2>5. ~IsAmbiguous(g)
    BY <2>1 DEF IsAmbiguous
  <2>6. Found(f) = f.path
    BY <1>2, FoundIs DEF IsStale
  <2>7. Found(g) = IF g.path # Absent THEN g.path
                   ELSE IF g.new # Absent THEN g.new ELSE g.bak
    BY <2>4, FoundIs
  <2> QED BY <2>1, <2>4, <2>5, <2>6, <2>7
<1> QED BY <1>1, <1>2

\* What an error leaves, a crash may leave too.
LEMMA ErrorsAreCrashes ==
    ASSUME NEW f, NEW doc
    PROVE  ReplaceErrors(f, doc) \subseteq ReplaceCrashes(f, doc)
  BY DEF ReplaceErrors, ReplaceCrashes

\* A failed or interrupted recovery leaves the same document to be found.
LEMMA RecoveryInterrupted ==
    ASSUME NEW D, NEW f \in FileOf(D), ~IsAmbiguous(f), NEW g \in RecoverFailures(f)
    PROVE  g \in FileOf(D) /\ ~IsAmbiguous(g) /\ Found(g) = Found(f)
<1>1. CASE g = f
  BY <1>1
<1>2. CASE g = Recovered(f)
  BY <1>2, FoundIs, FoundType, ReplacedFile
<1>3. CASE f.path = Absent /\ f.new # Absent /\ g = [f EXCEPT !.path = f.new, !.new = Absent]
  <2>1. g.path = f.new /\ g.new = Absent /\ g \in FileOf(D)
    BY <1>3 DEF FileOf
  <2> QED BY <1>3, <2>1, FoundIs DEF IsAmbiguous
<1> QED BY <1>1, <1>2, <1>3 DEF RecoverFailures
=============================================================================
