---------------------------- MODULE GraphFileProofs ---------------------------
(***************************************************************************)
(* Proofs about GraphFile, for any number of Saves at a time and texts of  *)
(* any length: the read lock alone keeps the texts of two graphs apart.    *)
(***************************************************************************)
EXTENDS GraphFile, TLAPS

(* What file i holds is from the graph of this moment.                     *)
Holds(t, i, v) == \A b \in 1 .. Buffers : t[i][b] = Hole \/ t[i][b][1] = v

Current(i) == Holds(text, i, version)

Working(s) == pc[s] \in {"write", "rename"}

(* While somebody saves, what is open or bears the temporary name is       *)
(* current; the graph changes only when nobody does.                       *)
FileInv ==
    /\ OneVersion
    /\ \A s \in Savers : Working(s) => Current(handle[s])
    /\ (\E s \in Savers : Working(s)) /\ tmp # NoInode => Current(tmp)

TypeInv == TypeOK /\ \A s \in Savers : /\ Working(s) => handle[s] \in Inodes
                                       /\ ~Working(s) => pos[s] = 1

Inv == TypeInv /\ FileInv

LEMMA NothingType == Nothing \in [1 .. Buffers -> Texts \cup {Hole}]
  BY DEF Nothing

LEMMA NothingHoles == \A b \in 1 .. Buffers : Nothing[b] = Hole
  BY DEF Nothing

LEMMA CollectType ==
    ASSUME TypeOK, Collect
    PROVE  text' \in [Inodes -> [1 .. Buffers -> Texts \cup {Hole}]]
  BY NothingType DEF TypeOK, Collect

LEMMA TypeStep == TypeInv /\ [Next]_vars => TypeInv'
  <1> SUFFICES ASSUME TypeInv, [Next]_vars PROVE TypeInv'
    OBVIOUS
  <1> USE DEF TypeInv, TypeOK, Working
  <1>1. CASE Change
    BY <1>1, ChangesAreBounded DEF Change
  <1>2. CASE Crash
    BY <1>2, CollectType, TextHasBuffers DEF Crash
  <1>3. ASSUME NEW s \in Savers, Begin(s) PROVE TypeInv'
    BY <1>3 DEF Begin, Busy
  <1>4. ASSUME NEW s \in Savers, Create(s) PROVE TypeInv'
    <2>1. PICK i \in Inodes : /\ tmp' = i /\ text' = [text EXCEPT ![i] = Nothing]
                              /\ handle' = [handle EXCEPT ![s] = i]
      BY <1>4, NamesAndHoles DEF Create
    <2>2. pc[s] = "create" /\ pc' = [pc EXCEPT ![s] = "write"] /\ UNCHANGED <<version, data, pos, met>>
      BY <1>4 DEF Create
    <2>3. text' \in [Inodes -> [1 .. Buffers -> Texts \cup {Hole}]]
      BY <2>1, NothingType
    <2>4. 1 \in 1 .. Buffers
      BY TextHasBuffers
    <2> QED
      BY <2>1, <2>2, <2>3, <2>4
  <1>5. ASSUME NEW s \in Savers, Write(s) PROVE TypeInv'
    <2>1. handle[s] \in Inodes /\ pos[s] \in 1 .. Buffers /\ <<version, s>> \in Texts
      BY <1>5 DEF Write, Texts
    <2>2. text' \in [Inodes -> [1 .. Buffers -> Texts \cup {Hole}]]
      BY <1>5, <2>1 DEF Write
    <2>3. CASE pos[s] = Buffers
      BY <1>5, <2>1, <2>2, <2>3 DEF Write, LastWritten
    <2>4. CASE pos[s] # Buffers
      <3>1. pos[s] + 1 \in 1 .. Buffers /\ pos[s] + 1 \in 1 .. Buffers + 1
        BY <2>1, <2>4, TextHasBuffers
      <3> QED
        BY <1>5, <2>1, <2>2, <2>4, <3>1 DEF Write, LastWritten
    <2> QED
      BY <2>3, <2>4
  <1>6. ASSUME NEW s \in Savers, Rename(s) PROVE TypeInv'
    BY <1>6, CollectType, TextHasBuffers DEF Rename, Leave
  <1>7. ASSUME NEW s \in Savers, Fail(s) PROVE TypeInv'
    BY <1>7, CollectType, TextHasBuffers DEF Fail, Leave
  <1>8. CASE UNCHANGED vars
    BY <1>8 DEF vars
  <1> QED
    BY <1>1, <1>2, <1>3, <1>4, <1>5, <1>6, <1>7, <1>8 DEF Next

LEMMA IdleStep == TypeInv /\ FileInv /\ Change => FileInv'
  <1> SUFFICES ASSUME TypeInv, FileInv, Change PROVE FileInv'
    OBVIOUS
  <1>1. \A s \in Savers : ~Working(s)'
    BY DEF Change, Working
  <1>2. OneVersion'
    BY DEF Change, FileInv, OneVersion
  <1> QED
    BY <1>1, <1>2 DEF FileInv

LEMMA CreateStep == \A s \in Savers : TypeInv /\ FileInv /\ Create(s) => FileInv'
  <1> SUFFICES ASSUME NEW s \in Savers, TypeInv, FileInv, Create(s) PROVE FileInv'
    OBVIOUS
  <1>1. PICK i \in Inodes : /\ tmp' = i /\ text' = [text EXCEPT ![i] = Nothing]
                            /\ handle' = [handle EXCEPT ![s] = i]
    BY NamesAndHoles DEF Create, TypeInv, TypeOK
  <1>2. UNCHANGED version /\ \A r \in Savers : r # s => Working(r)' = Working(r) /\ handle'[r] = handle[r]
    BY DEF Create, Working, TypeInv, TypeOK
  <1>3. text'[i] = Nothing /\ \A j \in Inodes : j # i => text'[j] = text[j]
    BY <1>1 DEF TypeInv, TypeOK
  <1>4. ASSUME NEW j \in Inodes, j = i \/ Holds(text, j, version)
        PROVE  Holds(text', j, version')
    BY <1>2, <1>3, <1>4, NothingHoles DEF Holds
  <1>5. OneVersion'
    BY <1>1, <1>3 DEF OneVersion, FileInv, Nothing
  <1>6. ASSUME NEW r \in Savers, Working(r)' PROVE Current(handle[r])'
    <2>1. CASE r = s
      <3>1. handle'[r] = i
        BY <1>1, <2>1 DEF TypeInv, TypeOK
      <3> QED
        BY <1>4, <3>1 DEF Current
    <2>2. CASE r # s
      <3>1. Working(r) /\ handle[r] \in Inodes /\ handle'[r] = handle[r] /\ Current(handle[r])
        BY <1>2, <1>6, <2>2 DEF TypeInv, FileInv
      <3> QED
        BY <1>4, <3>1 DEF Current
    <2> QED
      BY <2>1, <2>2
  <1>7. Current(tmp)'
    BY <1>1, <1>4 DEF Current
  <1> QED
    BY <1>5, <1>6, <1>7 DEF FileInv

LEMMA WriteStep == \A s \in Savers : TypeInv /\ FileInv /\ Write(s) => FileInv'
  <1> SUFFICES ASSUME NEW s \in Savers, TypeInv, FileInv, Write(s) PROVE FileInv'
    OBVIOUS
  <1>1. PICK i \in Inodes : i = handle[s]
    BY DEF Write, TypeInv, TypeOK
  <1>2. PICK p \in 1 .. Buffers : p = pos[s]
    BY DEF Write, TypeInv, TypeOK
  <1>3. text' = [text EXCEPT ![i][p] = <<version, s>>] /\ UNCHANGED <<version, tmp, handle>>
    BY <1>1, <1>2 DEF Write
  <1>4. /\ \A j \in Inodes : j # i => text'[j] = text[j]
        /\ \A b \in 1 .. Buffers : text'[i][b] = IF b = p THEN <<version, s>> ELSE text[i][b]
    BY <1>3 DEF TypeInv, TypeOK
  <1>5. Working(s) /\ Holds(text, i, version)
    BY <1>1 DEF Write, Working, FileInv, Current
  <1>6. ASSUME NEW j \in Inodes, Holds(text, j, version) PROVE Holds(text', j, version')
    BY <1>3, <1>4, <1>6 DEF Holds
  <1>7. OneVersion'
    <2> SUFFICES ASSUME NEW j \in Inodes, NEW a \in 1 .. Buffers, NEW b \in 1 .. Buffers,
                        text'[j][a] # Hole, text'[j][b] # Hole
                 PROVE  text'[j][a][1] = text'[j][b][1]
      BY DEF OneVersion
    <2>1. CASE j = i
      BY <1>5, <1>6, <2>1 DEF Holds
    <2>2. CASE j # i
      BY <1>4, <2>2 DEF FileInv, OneVersion
    <2> QED
      BY <2>1, <2>2
  <1>8. \A r \in Savers : Working(r)' => Working(r)
    BY DEF Write, Working, TypeInv, TypeOK
  <1>9. ASSUME NEW r \in Savers, Working(r)' PROVE Current(handle[r])'
    <2>1. handle[r] \in Inodes /\ Holds(text, handle[r], version) /\ handle'[r] = handle[r]
      BY <1>3, <1>8, <1>9 DEF TypeInv, FileInv, Current
    <2> QED
      BY <1>6, <2>1 DEF Current
  <1>10. tmp # NoInode => Current(tmp)'
    <2>1. tmp # NoInode => tmp \in Inodes /\ Holds(text, tmp, version) /\ tmp' = tmp
      BY <1>3, <1>5 DEF TypeInv, TypeOK, FileInv, Current
    <2> QED
      BY <1>6, <2>1 DEF Current
  <1> QED
    BY <1>3, <1>7, <1>9, <1>10 DEF FileInv

(* Whoever leaves takes nothing from what the others have open.            *)
LEMMA LeaveStep ==
    ASSUME TypeInv, FileInv, Collect, UNCHANGED version,
           \A r \in Savers : Working(r)' => Working(r) /\ handle'[r] = handle[r],
           tmp' \in {tmp, NoInode}
    PROVE  FileInv'
  <1>1. \A j \in Inodes : text'[j] = text[j] \/ text'[j] = Nothing
    BY DEF Collect
  <1>2. ASSUME NEW j \in Inodes, Holds(text, j, version) PROVE Holds(text', j, version')
    BY <1>1, <1>2, NothingHoles DEF Holds
  <1>3. OneVersion'
    BY <1>1, NothingHoles DEF OneVersion, FileInv
  <1>4. ASSUME NEW r \in Savers, Working(r)' PROVE Current(handle[r])'
    <2>1. handle[r] \in Inodes /\ Holds(text, handle[r], version) /\ handle'[r] = handle[r]
      BY <1>4 DEF TypeInv, FileInv, Current
    <2> QED
      BY <1>2, <2>1 DEF Current
  <1>5. ASSUME NEW r \in Savers, Working(r)', tmp' # NoInode PROVE Current(tmp)'
    <2>1. tmp \in Inodes /\ Holds(text, tmp, version) /\ tmp' = tmp
      BY <1>5 DEF TypeInv, TypeOK, FileInv, Current
    <2> QED
      BY <1>2, <2>1 DEF Current
  <1> QED
    BY <1>3, <1>4, <1>5 DEF FileInv

LEMMA FileStep == Inv /\ [Next]_vars => FileInv'
  <1> SUFFICES ASSUME TypeInv, FileInv, [Next]_vars PROVE FileInv'
    BY DEF Inv
  <1>1. CASE Crash
    BY <1>1, LeaveStep DEF Crash, Working
  <1>2. ASSUME NEW s \in Savers, Begin(s) PROVE FileInv'
    <2>1. \A r \in Savers : Working(r)' => Working(r)
      BY <1>2 DEF Begin, Working, TypeInv, TypeOK
    <2> QED
      BY <1>2, <2>1 DEF Begin, FileInv, OneVersion, Current, Holds
  <1>3. ASSUME NEW s \in Savers, Rename(s) \/ Fail(s) PROVE FileInv'
    <2>1. \A r \in Savers : Working(r)' => Working(r) /\ handle'[r] = handle[r]
      BY <1>3 DEF Rename, Fail, Leave, Working, TypeInv, TypeOK
    <2> QED
      BY <1>3, <2>1, LeaveStep DEF Rename, Fail
  <1>4. CASE UNCHANGED vars
    BY <1>4 DEF vars, FileInv, OneVersion, Current, Holds, Working
  <1> QED
    BY <1>1, <1>2, <1>3, <1>4, IdleStep, CreateStep, WriteStep DEF Next

LEMMA InvInit == Init => Inv
  BY NothingType, TextHasBuffers, ChangesAreBounded
     DEF Init, Inv, TypeInv, TypeOK, FileInv, OneVersion, Working, Nothing

LEMMA InvNext == Inv /\ [Next]_vars => Inv'
  BY TypeStep, FileStep DEF Inv

(* Names, files and savers keep their types; who writes has a file open    *)
(* and a buffer of the text to write.                                      *)
THEOREM FileTypeCorrect == Spec => []TypeOK
  <1>1. Inv => TypeOK
    BY DEF Inv, TypeInv
  <1> QED
    BY <1>1, InvInit, InvNext, PTL DEF Spec

(* No file ever mixes the texts of two graphs, although the Saves share    *)
(* one temporary file.                                                     *)
THEOREM TextsDoNotMix == Spec => []OneVersion
  <1>1. Inv => OneVersion
    BY DEF Inv, FileInv
  <1> QED
    BY <1>1, InvInit, InvNext, PTL DEF Spec

(* What a rename publishes is of the graph of that moment.                 *)
THEOREM RenamesAreCurrent == Spec => RenamesCurrent
  <1> DEFINE Act == \A s \in Savers : Rename(s) /\ tmp # NoInode =>
                       \A b \in 1 .. Buffers : text[tmp][b] = Hole \/ text[tmp][b][1] = version
  <1>1. Inv => Act
    BY DEF Inv, FileInv, Rename, Working, Current, Holds
  <1>2. Spec => [][Act]_vars
    <2> HIDE DEF Act
    <2> QED
      BY <1>1, InvInit, InvNext, PTL DEF Spec
  <1> QED
    BY <1>2 DEF RenamesCurrent

(* A Save that has met no other is the only one there is, the temporary    *)
(* name is its file's, and up to its position the file is its own.         *)
Own(s, n) == \A b \in 1 .. n : text[tmp][b] = <<version, s>>

Lone(s) ==
    /\ \A r \in Savers : r # s => pc[r] = "idle"
    /\ Working(s) => tmp = handle[s] /\ tmp # NoInode
    /\ pc[s] = "write" => Own(s, pos[s] - 1)
    /\ pc[s] = "rename" => Own(s, Buffers)

LoneInv == \A s \in Savers : s \notin met /\ pc[s] # "idle" => Lone(s)

LEMMA LoneBegin == \A s \in Savers : TypeInv /\ LoneInv /\ Begin(s) => LoneInv'
  <1> SUFFICES ASSUME NEW s \in Savers, TypeInv, LoneInv, Begin(s),
                      NEW r \in Savers, r \notin met', pc'[r] # "idle"
               PROVE  Lone(r)'
    BY DEF LoneInv
  <1>1. pc' = [pc EXCEPT ![s] = "create"] /\ pc[s] = "idle"
    BY DEF Begin
  <1>2. Busy = {}
    BY <1>1 DEF Begin, Busy, TypeInv, TypeOK
  <1>3. r = s /\ \A q \in Savers : pc[q] = "idle"
    BY <1>1, <1>2 DEF Busy, TypeInv, TypeOK
  <1> QED
    BY <1>1, <1>3 DEF Lone, Working, TypeInv, TypeOK

LEMMA LoneCreate == \A s \in Savers : TypeInv /\ LoneInv /\ Create(s) => LoneInv'
  <1> SUFFICES ASSUME NEW s \in Savers, TypeInv, LoneInv, Create(s),
                      NEW r \in Savers, r \notin met', pc'[r] # "idle"
               PROVE  Lone(r)'
    BY DEF LoneInv
  <1>1. /\ pc[s] = "create" /\ pc' = [pc EXCEPT ![s] = "write"]
        /\ UNCHANGED <<met, pos>>
    BY DEF Create
  <1>2. r = s /\ \A q \in Savers : q # s => pc[q] = "idle"
    BY <1>1 DEF LoneInv, Lone, TypeInv, TypeOK
  <1>3. tmp' = handle'[s] /\ tmp' # NoInode
    BY NamesAndHoles DEF Create, TypeInv, TypeOK
  <1>4. pos'[s] = 1
    BY <1>1 DEF TypeInv, Working
  <1>5. Own(s, pos[s] - 1)'
    BY <1>1, <1>4 DEF Own
  <1> QED
    BY <1>1, <1>2, <1>3, <1>5 DEF Lone, TypeInv, TypeOK

LEMMA LoneWrite == \A s \in Savers : TypeInv /\ LoneInv /\ Write(s) => LoneInv'
  <1> SUFFICES ASSUME NEW s \in Savers, TypeInv, LoneInv, Write(s),
                      NEW r \in Savers, r \notin met', pc'[r] # "idle"
               PROVE  Lone(r)'
    BY DEF LoneInv
  <1>1. pc[s] = "write" /\ pc[r] # "idle" /\ UNCHANGED <<met, version, tmp, handle>>
    BY DEF Write, TypeInv, TypeOK
  <1>2. r = s /\ Lone(s)
    BY <1>1 DEF LoneInv, Lone, TypeInv, TypeOK
  <1>3. PICK p \in 1 .. Buffers : p = pos[s]
    BY <1>1 DEF TypeInv, TypeOK
  <1>4. tmp = handle[s] /\ tmp \in Inodes /\ Own(s, p - 1)
    BY <1>1, <1>2, <1>3 DEF Lone, Working, TypeInv, TypeOK
  <1>5. \A b \in 1 .. Buffers : text'[tmp][b] = IF b = p THEN <<version, s>> ELSE text[tmp][b]
    BY <1>3, <1>4 DEF Write, TypeInv, TypeOK
  <1>6. Own(s, p)'
    BY <1>1, <1>4, <1>5, TextHasBuffers DEF Own
  <1>7. \A q \in Savers : q # s => pc'[q] = "idle"
    BY <1>2 DEF Lone, Write, TypeInv, TypeOK
  <1>8. tmp' = handle'[s] /\ tmp' # NoInode
    BY <1>1, <1>4, NamesAndHoles
  <1>9. CASE p = Buffers
    <2>1. pc'[s] = "rename"
      BY <1>3, <1>9 DEF Write, LastWritten, TypeInv, TypeOK
    <2> QED
      BY <1>2, <1>6, <1>7, <1>8, <1>9, <2>1 DEF Lone
  <1>10. CASE p # Buffers
    <2>1. pc'[s] = "write" /\ pos'[s] - 1 = p
      BY <1>1, <1>3, <1>10, TextHasBuffers DEF Write, LastWritten, TypeInv, TypeOK
    <2> QED
      BY <1>2, <1>6, <1>7, <1>8, <2>1 DEF Lone
  <1> QED
    BY <1>9, <1>10

LEMMA LoneLeave ==
    \A s \in Savers : TypeInv /\ LoneInv /\ (Rename(s) \/ Fail(s)) => LoneInv'
  <1> SUFFICES ASSUME NEW s \in Savers, TypeInv, LoneInv, Rename(s) \/ Fail(s),
                      NEW r \in Savers, r \notin met', pc'[r] # "idle"
               PROVE  Lone(r)'
    BY DEF LoneInv
  <1>1. pc[s] # "idle" /\ pc' = [pc EXCEPT ![s] = "idle"] /\ UNCHANGED met
    BY DEF Rename, Fail, Leave
  <1>2. r # s /\ pc[r] # "idle"
    BY <1>1 DEF TypeInv, TypeOK
  <1>3. Lone(r)
    BY <1>1, <1>2 DEF LoneInv
  <1> QED
    BY <1>1, <1>2, <1>3 DEF Lone

LEMMA LoneStep == TypeInv /\ LoneInv /\ [Next]_vars => LoneInv'
  <1> SUFFICES ASSUME TypeInv, LoneInv, [Next]_vars PROVE LoneInv'
    OBVIOUS
  <1>1. CASE Change
    BY <1>1 DEF Change, LoneInv
  <1>2. CASE Crash
    BY <1>2 DEF Crash, LoneInv
  <1>3. CASE UNCHANGED vars
    BY <1>3 DEF vars, LoneInv, Lone, Own, Working
  <1> QED
    BY <1>1, <1>2, <1>3, LoneBegin, LoneCreate, LoneWrite, LoneLeave DEF Next

(* A Save that runs alone publishes its whole text, and does not fail to   *)
(* rename it, whatever crashes and failed Saves left in the file.          *)
THEOREM LoneSavesAreComplete == Spec => LoneSavesComplete
  <1> DEFINE Act == \A s \in Savers : Rename(s) /\ s \notin met =>
                       tmp # NoInode /\ \A b \in 1 .. Buffers : text[tmp][b] = <<version, s>>
             Both == Inv /\ LoneInv
  <1>1. Init => Both
    BY InvInit DEF Init, LoneInv
  <1>2. Both /\ [Next]_vars => Both'
    BY InvNext, LoneStep DEF Inv
  <1>3. Both => Act
    BY DEF LoneInv, Lone, Own, Working, Rename
  <1>4. Spec => [][Act]_vars
    <2> HIDE DEF Act, Both
    <2> QED
      BY <1>1, <1>2, <1>3, PTL DEF Spec
  <1> QED
    BY <1>4 DEF LoneSavesComplete
==============================================================================
