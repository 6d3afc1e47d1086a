----------------------- MODULE RegistrationStore_proofs -----------------------
(***************************************************************************)
(* The promises of RegistrationStore, for any set of IDs and any bound.    *)
(***************************************************************************)
EXTENDS RegistrationStore, FiniteSetTheorems, TLAPS

\* A registry within the bound that load and register check.
Bounded == {r \in SUBSET Id : IsFiniteSet(r) /\ Cardinality(r) <= MaxEntries}

\* The files hold bounded registries, and only path.new may be torn: it takes
\* its place at the path after it was written and flushed.
BoundedFile == [path : Bounded \cup {Absent}, new : Bounded \cup {Absent, Torn},
                bak : Bounded \cup {Absent}]

BoundInv ==
    /\ file \in BoundedFile
    /\ entries \in Bounded /\ saving \in Bounded /\ expected \subseteq Bounded
    /\ blind \in BOOLEAN
    /\ pc \in {"down", "serving", "saving"}

\* Every document at the path or in the backup is expected, and so is what the
\* service works with, unless it started without looking at the backup.
ExpectedInv ==
    /\ file.path \in expected \cup {Absent} /\ file.bak \in expected \cup {Absent}
    /\ file.path = Absent /\ file.bak = Absent => {} \in expected
    /\ pc = "saving" => saving \in expected
    /\ pc # "down" => entries \in expected \/ (blind /\ entries = {})

-----------------------------------------------------------------------------
(* Registries *)

LEMMA EmptyBounded == {} \in Bounded
  BY FS_EmptySet, StoreOK DEF Bounded

\* register refuses an entry above the bound.
LEMMA RegisteredBounded ==
    ASSUME NEW r \in Bounded, NEW id \in Id, Cardinality(r) < MaxEntries
    PROVE  r \cup {id} \in Bounded
<1>1. IsFiniteSet(r) /\ Cardinality(r) \in Nat
  BY FS_CardinalityType DEF Bounded
<1>2. IsFiniteSet(r \cup {id})
  BY <1>1, FS_AddElement
<1>3. Cardinality(r \cup {id}) \in {Cardinality(r), Cardinality(r) + 1}
  <2>1. CASE id \in r
    BY <1>1, <2>1, FS_AddElement
  <2>2. CASE id \notin r
    BY <1>1, <2>2, FS_AddElement
  <2> QED BY <2>1, <2>2
<1>4. Cardinality(r \cup {id}) <= MaxEntries
  BY <1>1, <1>2, <1>3, FS_CardinalityType, StoreOK
<1> QED BY <1>2, <1>4 DEF Bounded

LEMMA UnregisteredBounded ==
    ASSUME NEW r \in Bounded, NEW id
    PROVE  r \ {id} \in Bounded
<1>1. IsFiniteSet(r) /\ Cardinality(r) \in Nat
  BY FS_CardinalityType DEF Bounded
<1>2. IsFiniteSet(r \ {id}) /\ Cardinality(r \ {id}) <= Cardinality(r)
  BY <1>1, FS_Subset
<1>3. Cardinality(r \ {id}) <= MaxEntries
  BY <1>1, <1>2, FS_CardinalityType, StoreOK DEF Bounded
<1> QED BY <1>2, <1>3 DEF Bounded

\* A registry is told from the marks of a missing and of a torn file.
LEMMA BoundedIsRegistry == \A r \in Bounded : r # Absent /\ r # Torn
  BY StoreOK DEF Bounded

-----------------------------------------------------------------------------
(* What an interrupted save leaves *)

\* What a failed save leaves at the path and next to it.
LEMMA SaveErrorCases ==
    ASSUME NEW f \in BoundedFile, NEW doc \in Bounded, NEW g \in SaveErrors(f, doc)
    PROVE  /\ g = [path |-> g.path, new |-> g.new, bak |-> g.bak]
           /\ g.new \in {f.new, doc, Torn, Absent}
           /\ \/ g.path = f.path /\ (g.bak = f.bak \/ (f.path # Absent /\ g.bak = Absent))
              \/ g.path = doc /\ g.bak \in {f.path, f.bak, Absent}
              \/ f.path # Absent /\ g.path = Absent /\ g.bak = f.path
              \/ f.path = Absent /\ f.bak # Absent /\ g.path = f.bak /\ g.bak = Absent
<1> USE DEF BoundedFile, Written, Displaced, Replaced
<1>1. CASE g \in {f, BackedUp(f, doc), InPlace(f, doc), Replaced(doc)}
  <2>1. CASE g \in {f, Replaced(doc)}
    BY <2>1
  <2>2. CASE g = InPlace(f, doc) /\ f.path # Absent
    BY <2>2 DEF InPlace, BackedUp
  <2>3. CASE g = InPlace(f, doc) /\ f.path = Absent
    BY <2>3 DEF InPlace, BackedUp
  <2>4. CASE g = BackedUp(f, doc)
    BY <2>4 DEF BackedUp
  <2> QED BY <1>1, <2>1, <2>2, <2>3, <2>4
<1>2. CASE g \in WrittenNext(f, doc)
  BY <1>2 DEF WrittenNext, PartlyWritten
<1>3. CASE g \in BackupRemoved(f, doc)
  BY <1>3 DEF BackupRemoved
<1>4. CASE g \in RenamedBack(f, doc)
  BY <1>4 DEF RenamedBack, BackedUp
<1> QED BY <1>1, <1>2, <1>3, <1>4 DEF SaveErrors

\* Bounded registries, and a torn document only at path.new.
LEMMA ErrorsBounded ==
    ASSUME NEW f \in BoundedFile, NEW doc \in Bounded, NEW g \in SaveErrors(f, doc)
    PROVE  g \in BoundedFile
<1>1. /\ f.path \in Bounded \cup {Absent} /\ f.bak \in Bounded \cup {Absent}
      /\ f.new \in Bounded \cup {Absent, Torn}
  BY DEF BoundedFile
<1>2. g = [path |-> g.path, new |-> g.new, bak |-> g.bak]
  BY SaveErrorCases
<1>3. g.path \in Bounded \cup {Absent} /\ g.bak \in Bounded \cup {Absent}
  BY <1>1, SaveErrorCases
<1>4. g.new \in Bounded \cup {Absent, Torn}
  BY <1>1, SaveErrorCases
<1> QED BY <1>2, <1>3, <1>4 DEF BoundedFile

\* No document but the new one is added, and the current one is not lost: it stays
\* at the path or becomes the backup, unless the new one has taken its place.
LEMMA ErrorsKeepDocuments ==
    ASSUME NEW f \in BoundedFile, NEW doc \in Bounded, NEW g \in SaveErrors(f, doc)
    PROVE  /\ {g.path, g.bak} \subseteq {f.path, f.bak, doc, Absent}
           /\ g.path = Absent /\ g.bak = Absent => f.path = Absent /\ f.bak = Absent
  BY SaveErrorCases, BoundedIsRegistry

-----------------------------------------------------------------------------
(* Every step keeps the bounds *)

LEMMA BoundStep == BoundInv /\ [Next]_vars => BoundInv'
<1> SUFFICES ASSUME BoundInv, [Next]_vars PROVE BoundInv'
  OBVIOUS
<1> USE DEF BoundInv
<1>1. ASSUME NEW id \in Id, Register(id) PROVE BoundInv'
  BY <1>1, RegisteredBounded DEF Register, StartSave
<1>2. ASSUME NEW id \in Id, RegisterAgain(id) PROVE BoundInv'
  BY <1>2 DEF RegisterAgain, StartSave
<1>3. ASSUME NEW id \in Id, Unregister(id) PROVE BoundInv'
  BY <1>3, UnregisteredBounded DEF Unregister, StartSave
<1>4. CASE Save
  BY <1>4 DEF Save, Replaced, BoundedFile
<1>5. CASE SaveFails
  BY <1>5, ErrorsBounded DEF SaveFails
<1>6. CASE Load
  BY <1>6, EmptyBounded DEF Load, Stored, BoundedFile
<1>7. CASE Crash
  BY <1>7, EmptyBounded, ErrorsBounded DEF Crash
<1>8. CASE UNCHANGED vars
  BY <1>8 DEF vars
<1> QED BY <1>1, <1>2, <1>3, <1>4, <1>5, <1>6, <1>7, <1>8 DEF Next

LEMMA Bounds == Spec => []BoundInv
<1>1. Init => BoundInv
  <2>1. Init => file \in BoundedFile
    BY DEF Init, BoundedFile, NoFile
  <2> QED BY <2>1, EmptyBounded DEF Init, BoundInv
<1> QED BY <1>1, BoundStep, PTL DEF Spec

\* No registration, crash or restart makes a registry outgrow its bound, and
\* every file that is loaded holds one (RootRegistry::load).
THEOREM TypeOKHolds == Spec => []TypeOK
<1>1. BoundInv => TypeOK
  BY DEF BoundInv, TypeOK, Bounded, BoundedFile, FileOf
<1> QED BY <1>1, Bounds, PTL

-----------------------------------------------------------------------------
(* Every step keeps the registrations *)

LEMMA ExpectedStep == BoundInv /\ ExpectedInv /\ [Next]_vars => ExpectedInv'
<1> SUFFICES ASSUME BoundInv, ExpectedInv, [Next]_vars PROVE ExpectedInv'
  OBVIOUS
<1> USE DEF ExpectedInv
<1>1. ASSUME NEW id \in Id, Register(id) PROVE ExpectedInv'
  BY <1>1 DEF Register, StartSave
<1>2. ASSUME NEW id \in Id, RegisterAgain(id) PROVE ExpectedInv'
  BY <1>2 DEF RegisterAgain, StartSave
<1>3. ASSUME NEW id \in Id, Unregister(id) PROVE ExpectedInv'
  BY <1>3 DEF Unregister, StartSave
<1>4. CASE Save
  BY <1>4, BoundedIsRegistry DEF Save, Replaced, BoundInv, BoundedFile
<1>5. ASSUME file' \in SaveErrors(file, saving), pc = "saving", UNCHANGED expected
      PROVE  /\ file'.path \in expected' \cup {Absent} /\ file'.bak \in expected' \cup {Absent}
             /\ file'.path = Absent /\ file'.bak = Absent => {} \in expected'
  BY <1>5, ErrorsKeepDocuments DEF BoundInv
<1>6. CASE SaveFails
  BY <1>5, <1>6 DEF SaveFails
<1>7. CASE Load
  BY <1>7 DEF Load, Stored
<1>8. CASE Crash
  BY <1>5, <1>8 DEF Crash
<1>9. CASE UNCHANGED vars
  BY <1>9 DEF vars
<1> QED BY <1>1, <1>2, <1>3, <1>4, <1>6, <1>7, <1>8, <1>9 DEF Next

\* The service works with the registry that was acknowledged last, or with one
\* whose save was interrupted since, unless it started without a file at the path
\* and with the backup unread; and one of those registries is always on disk.
THEOREM RegistrationKeptHolds == Spec => []RegistrationKept
<1>1. Init => ExpectedInv
  BY DEF Init, ExpectedInv, NoFile
<1>2. ExpectedInv => RegistrationKept
  BY DEF ExpectedInv, RegistrationKept
<1> QED BY <1>1, <1>2, ExpectedStep, Bounds, PTL DEF Spec
=============================================================================
