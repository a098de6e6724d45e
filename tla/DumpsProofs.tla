----------------------------- MODULE DumpsProofs -----------------------------
(***************************************************************************)
(* Proofs about Dumps: whatever dies, what was saved is found by the next  *)
(* server, for any number of objects, changes, dumps and deaths, unless    *)
(* one of the ways happens that "overtaken" records.                       *)
(***************************************************************************)
EXTENDS Dumps, SequenceTheorems, WellFoundedInduction, TLAPS

(* A set of numbers with an upper bound has a greatest element.            *)
LEMMA HasMaximum ==
    ASSUME NEW n \in Nat, NEW S, S \subseteq 1 .. n, S # {}
    PROVE  \E m \in S : \A k \in S : k <= m
<1> DEFINE R == {p \in Nat \X Nat : p[1] < p[2]}
           T == {n - k : k \in S}
<1>1. IsWellFoundedOn(R, Nat)
  <2>1. OpToRel(<, Nat) = R
    BY Zenon DEF OpToRel
  <2>2. QED
    BY <2>1, NatLessThanWellFounded, Zenon
<1>2. T \subseteq Nat /\ T # {}
  <2>1. \A k \in S : k \in Int /\ n - k \in Nat
    OBVIOUS
  <2>2. PICK k \in S : TRUE
    OBVIOUS
  <2>3. n - k \in T
    BY <2>2
  <2>4. QED
    BY <2>1, <2>3
<1>3. PICK x \in T : \A y \in T : ~ (<<y, x>> \in R)
  <2> HIDE DEF R, T
  <2> QED BY <1>1, <1>2, WFMin
<1>4. \A y \in T : x <= y
  <2>1. ASSUME NEW y \in T PROVE x <= y
    <3>1. ~ (<<y, x>> \in R) /\ x \in Nat /\ y \in Nat
      BY <1>2, <1>3
    <3>2. QED
      BY <3>1
  <2>2. QED
    BY <2>1
<1>5. PICK m \in S : x = n - m
  BY <1>3
<1>6. ASSUME NEW k \in S PROVE k <= m
  <2>1. n - k \in T
    OBVIOUS
  <2>2. n - m <= n - k
    BY <2>1, <1>4, <1>5
  <2>3. k \in Int /\ m \in Int
    OBVIOUS
  <2>4. QED
    BY <2>2, <2>3
<1>7. QED
  BY <1>6

-----------------------------------------------------------------------------
(* What the restart script makes of a dump and of deltas. *)

(* The places among the deltas where an object is. *)
Holding(deltas, o) == {i \in 1 .. Len(deltas) : o \in DOMAIN deltas[i]}

(* An object that is in no delta comes from the dump. *)
LEMMA FromDump ==
    ASSUME NEW image, NEW deltas, NEW o \in Objs, Holding(deltas, o) = {}
    PROVE  Applied(image, deltas)[o] = image[o]
BY DEF Applied, Holding

(* Any other from the last that it is in. *)
LEMMA FromDelta ==
    ASSUME NEW image, NEW deltas \in Seq(ObjectLists), NEW o \in Objs, Holding(deltas, o) # {}
    PROVE  \E i \in Holding(deltas, o) : /\ \A j \in Holding(deltas, o) : j <= i
                                         /\ Applied(image, deltas)[o] = deltas[i][o]
<1> DEFINE S == Holding(deltas, o)
           last == CHOOSE i \in S : \A j \in S : j <= i
<1>1. \E i \in S : \A j \in S : j <= i
  <2>1. S \subseteq 1 .. Len(deltas) /\ Len(deltas) \in Nat
    BY DEF Holding
  <2>2. QED
    BY <2>1, HasMaximum
<1>2. last \in S /\ \A j \in S : j <= last
  BY <1>1
<1>3. Applied(image, deltas)[o] = deltas[last][o]
  BY DEF Applied, Holding
<1>4. QED
  BY <1>2, <1>3

(* There is no other such place. *)
LEMMA LastIsUnique ==
    ASSUME NEW image, NEW deltas \in Seq(ObjectLists), NEW o \in Objs,
           NEW i \in Holding(deltas, o), \A j \in Holding(deltas, o) : j <= i
    PROVE  Applied(image, deltas)[o] = deltas[i][o]
<1>1. PICK l \in Holding(deltas, o) : /\ \A j \in Holding(deltas, o) : j <= l
                                      /\ Applied(image, deltas)[o] = deltas[l][o]
  BY FromDelta
<1>2. i <= l /\ l <= i /\ i \in Int /\ l \in Int
  BY <1>1 DEF Holding
<1>3. QED
  BY <1>1, <1>2

(* An appended delta is the last one.                                      *)
LEMMA AppendedIsLast ==
    ASSUME NEW deltas \in Seq(ObjectLists), NEW D \in ObjectLists,
           NEW i \in 1 .. Len(Append(deltas, D))
    PROVE  \/ i \in 1 .. Len(deltas) /\ Append(deltas, D)[i] = deltas[i]
           \/ Append(deltas, D)[i] = D
OBVIOUS

(* The result is an image of the database.                                 *)
LEMMA AppliedType ==
    ASSUME NEW image \in Images, NEW deltas \in Seq(ObjectLists)
    PROVE  Applied(image, deltas) \in Images
<1>1. ASSUME NEW o \in Objs PROVE Applied(image, deltas)[o] \in 0 .. MaxChanges
  <2>1. CASE Holding(deltas, o) = {}
    BY <2>1, FromDump DEF Images
  <2>2. CASE Holding(deltas, o) # {}
    <3>1. PICK i \in Holding(deltas, o) : Applied(image, deltas)[o] = deltas[i][o]
      BY <2>2, FromDelta
    <3>2. i \in 1 .. Len(deltas) /\ o \in DOMAIN deltas[i]
      BY DEF Holding
    <3>3. deltas[i] \in ObjectLists
      BY <3>2
    <3>4. QED
      BY <3>1, <3>2, <3>3 DEF ObjectLists
  <2>3. QED
    BY <2>1, <2>2
<1>2. Applied(image, deltas) = [o \in Objs |-> Applied(image, deltas)[o]]
  BY DEF Applied
<1>3. QED
  BY <1>1, <1>2 DEF Images

(* No deltas: the dump. *)
LEMMA AppliedEmpty ==
    ASSUME NEW image \in Images
    PROVE  Applied(image, << >>) = image
<1>1. \A o \in Objs : Holding(<< >>, o) = {}
  BY DEF Holding
<1>2. \A o \in Objs : Applied(image, << >>)[o] = image[o]
  BY <1>1, FromDump
<1>3. << >> \in Seq(ObjectLists)
  OBVIOUS
<1>4. Applied(image, << >>) \in Images
  BY <1>3, AppliedType
<1>5. QED
  BY <1>2, <1>4 DEF Images

(* A later delta goes before. *)
LEMMA AppliedAppend ==
    ASSUME NEW image \in Images, NEW deltas \in Seq(ObjectLists), NEW D \in ObjectLists, NEW o \in Objs
    PROVE  Applied(image, Append(deltas, D))[o] =
               IF o \in DOMAIN D THEN D[o] ELSE Applied(image, deltas)[o]
<1> DEFINE more == Append(deltas, D)
           n == Len(deltas) + 1
<1>1. /\ more \in Seq(ObjectLists) /\ Len(more) = n /\ more[n] = D
      /\ \A i \in 1 .. Len(deltas) : more[i] = deltas[i]
  OBVIOUS
<1>2. Len(deltas) \in Nat
  OBVIOUS
<1> HIDE DEF more
<1>3. CASE o \in DOMAIN D
  <2>1. n \in Holding(more, o) /\ \A j \in Holding(more, o) : j <= n
    BY <1>1, <1>2, <1>3 DEF Holding
  <2>2. Applied(image, more)[o] = more[n][o]
    BY <1>1, <2>1, LastIsUnique
  <2>3. QED
    BY <1>1, <1>3, <2>2 DEF more
<1>4. CASE o \notin DOMAIN D
  <2>1. Holding(more, o) = Holding(deltas, o)
    BY <1>1, <1>2, <1>4 DEF Holding
  <2>2. CASE Holding(deltas, o) = {}
    BY <1>4, <2>1, <2>2, FromDump DEF more
  <2>3. CASE Holding(deltas, o) # {}
    <3>1. PICK i \in Holding(deltas, o) : /\ \A j \in Holding(deltas, o) : j <= i
                                          /\ Applied(image, deltas)[o] = deltas[i][o]
      BY <2>3, FromDelta
    <3>2. Applied(image, more)[o] = more[i][o]
      BY <1>1, <2>1, <3>1, LastIsUnique
    <3>3. more[i] = deltas[i]
      BY <1>1 DEF Holding
    <3>4. QED
      BY <1>4, <3>1, <3>2, <3>3 DEF more
  <2>4. QED
    BY <2>2, <2>3
<1>5. QED
  BY <1>3, <1>4

(* Under the same deltas a newer dump gives nothing older. *)
LEMMA AppliedMonotone ==
    ASSUME NEW old \in Images, NEW new \in Images, NEW deltas \in Seq(ObjectLists), NoOlder(new, old)
    PROVE  NoOlder(Applied(new, deltas), Applied(old, deltas))
<1>1. ASSUME NEW o \in Objs PROVE Applied(new, deltas)[o] >= Applied(old, deltas)[o]
  <2>1. CASE Holding(deltas, o) = {}
    BY <2>1, FromDump DEF NoOlder
  <2>2. CASE Holding(deltas, o) # {}
    <3>1. PICK i \in Holding(deltas, o) : /\ \A j \in Holding(deltas, o) : j <= i
                                          /\ Applied(old, deltas)[o] = deltas[i][o]
      BY <2>2, FromDelta
    <3>2. Applied(new, deltas)[o] = Applied(old, deltas)[o]
      BY <3>1, LastIsUnique
    <3>3. Applied(old, deltas)[o] \in Int
      BY AppliedType DEF Images
    <3>4. QED
      BY <3>2, <3>3
  <2>3. QED
    BY <2>1, <2>2
<1>2. QED
  BY <1>1 DEF NoOlder

-----------------------------------------------------------------------------
(* Files. *)

(* The kinds of files differ.                                              *)
LEMMA FileKinds ==
    /\ Absent \in Files /\ Absent.is = "absent"
    /\ Part \in Files /\ Part.is = "part"
    /\ \A image \in Images : /\ Whole(image) \in Files
                              /\ Whole(image).is = "whole" /\ Whole(image).image = image
<1>1. Absent.is = "absent" /\ Part.is = "part"
  BY DEF Absent, Part
<1>2. \A image : Whole(image).is = "whole" /\ Whole(image).image = image
  BY DEF Whole
<1>3. QED
  BY <1>1, <1>2 DEF Files

(* A file is of one of them.                                               *)
LEMMA FileIs ==
    ASSUME NEW f \in Files
    PROVE  /\ f.is = "absent" \/ f.is = "part" \/ f.is = "whole"
           /\ f.is = "part" => f = Part
           /\ f.is = "whole" => f.image \in Images /\ f = Whole(f.image)
<1>1. Absent.is = "absent" /\ Part.is = "part"
  BY DEF Absent, Part
<1>2. \A image : Whole(image).is = "whole" /\ Whole(image).image = image
  BY DEF Whole
<1>3. f = Absent \/ f = Part \/ \E image \in Images : f = Whole(image)
  BY DEF Files
<1>4. QED
  BY <1>1, <1>2, <1>3

(* Older and newer are an order.                                           *)
LEMMA NoOlderTransitive ==
    ASSUME NEW a \in Images, NEW b \in Images, NEW c \in Images, NoOlder(a, b), NoOlder(b, c)
    PROVE  NoOlder(a, c)
BY DumpsAssumption DEF NoOlder, Images

(* Nothing is older than itself.                                           *)
LEMMA NoOlderReflexive == \A image \in Images : NoOlder(image, image)
BY DumpsAssumption DEF NoOlder, Images

-----------------------------------------------------------------------------
(* The inductive invariant. *)

Busy(d) == dump[d].at \notin {"idle", "done"}

(* The server's own dump is later than that of the child.                  *)
Epochs ==
    /\ \A d \in Dumpers : Busy(d) => dump[d].epoch \in 1 .. epoch
    /\ Busy("child") /\ Busy("server") =>
           /\ dump["child"].epoch < dump["server"].epoch
           /\ NoOlder(dump["server"].image, dump["child"].image)

(* No dump is in the place of another that is not complete, and what a     *)
(* dump will rename is its own.                                            *)
FilesOK ==
    /\ files.dbin.is = "whole" /\ files.dbout.is # "part"
    /\ files.torn => server \notin {"up", "forking", "shutdown"} /\ files.deltas # << >>
    /\ files.torn /\ server = "writing" => files.deltas[Len(files.deltas)] = Delta
    /\ \A d \in Dumpers :
          /\ dump[d].at = "writing" => files.tmp[dump[d].epoch].is # "whole"
          /\ dump[d].at = "closed" => \/ files.tmp[dump[d].epoch].is = "absent"
                                      \/ files.tmp[dump[d].epoch] = Whole(dump[d].image)

(* Nothing is newer than the database, and no dump older than what the     *)
(* server has read.                                                        *)
Ages ==
    /\ \A o \in Objs : db[o] <= now
    /\ NoOlder(db, saved) /\ NoOlder(db, files.dbin.image)
    /\ \A d \in Dumpers : Busy(d) => /\ NoOlder(db, dump[d].image)
                                      /\ NoOlder(dump[d].image, files.dbin.image)

(* No file has a change that is still to come.                             *)
NotAhead ==
    /\ files.dbout.is = "whole" => \A o \in Objs : files.dbout.image[o] <= now
    /\ \A i \in 1 .. Len(files.deltas) : \A o \in DOMAIN files.deltas[i] : files.deltas[i][o] <= now

PanicOK ==
    /\ files.panic.is = "whole" => server \in {"panicked", "dead"} /\ files.panic.image = db
    /\ server = "panicked" => files.panic.is = "whole"

(* What is not marked as changed is saved.                                 *)
FlagsOK == Running => \A o \in Objs \ changed : saved[o] = db[o]

(* What the deltas and the dump below them have.                           *)
Kept == \/ overtaken \/ files.panic.is = "whole"
        \/ NoOlder(Applied(Base, Deltas), saved)

(* What they will have when a dump has emptied the deltas: it is in its    *)
(* place, or a later one is; or the server dumps itself, and what was      *)
(* saved before is there.                                                  *)
WillBeKept ==
    \/ overtaken \/ files.panic.is = "whole"
    \/ \A d \in Dumpers : dump[d].at = "renamed" =>
          /\ files.dbout.is = "whole"
          /\ \/ NoOlder(files.dbout.image, dump[d].image)
             \/ ~ Running /\ NoOlder(files.dbout.image, saved)

(* What was written is a state that the database was in.                   *)
InPast == db \in past /\ saved \in past /\ \A d \in Dumpers : Busy(d) => dump[d].image \in past

Renamed == \E d \in Dumpers : dump[d].at = "renamed"
Loose == overtaken \/ cut \/ files.panic.is = "whole"

(* Between the dumps the files have what was saved last,                   *)
Exact == Loose \/ Renamed \/ Applied(Base, Deltas) = saved

(* and after a dump that is in its place, too, as soon as the deltas are   *)
(* emptied; unless the other dump has done that.                           *)
WillBeExact ==
    \/ Loose \/ ~ Renamed
    \/ \E d \in Dumpers : dump[d].at = "renamed" /\ files.dbout = Whole(dump[d].image)
    \/ ~ Running /\ files.deltas = << >> /\ Base = saved

StatesOK == InPast /\ Exact /\ WillBeExact

IInv == TypeOK /\ Epochs /\ FilesOK /\ Ages /\ NotAhead /\ PanicOK /\ FlagsOK /\ Kept /\ WillBeKept
        /\ StatesOK

-----------------------------------------------------------------------------
(* What the invariant says of the files. *)

(* There is always a whole dump to start from,                             *)
LEMMA BaseType ==
    ASSUME TypeOK, FilesOK
    PROVE  Base \in Images
<1>1. files.dbin \in Files /\ files.dbout \in Files
  BY DEF TypeOK, children
<1>2. files.dbin.is = "whole" /\ files.dbout.is # "part"
  BY DEF FilesOK
<1>3. files.dbin.image \in Images
  BY <1>1, <1>2, FileIs
<1>4. files.dbout.is = "absent" \/ files.dbout.image \in Images
  BY <1>1, <1>2, FileIs
<1>5. QED
  BY <1>3, <1>4 DEF Base

(* and deltas that can be read.                                            *)
LEMMA DeltasType ==
    ASSUME TypeOK, FilesOK
    PROVE  Deltas \in Seq(ObjectLists)
<1>1. files.deltas \in Seq(ObjectLists)
  BY DEF TypeOK, children
<1>2. SubSeq(files.deltas, 1, Len(files.deltas) - 1) \in Seq(ObjectLists)
  BY <1>1, SubSeqProperties
<1>3. QED
  BY <1>1, <1>2 DEF Deltas

(* The deltas that are read are among those that are there.                *)
LEMMA DeltasAreThere ==
    ASSUME TypeOK, FilesOK, NEW i \in 1 .. Len(Deltas)
    PROVE  i \in 1 .. Len(files.deltas) /\ Deltas[i] = files.deltas[i]
<1> DEFINE all == files.deltas
<1>1. all \in Seq(ObjectLists) /\ Len(all) \in Nat
  BY DEF TypeOK, children
<1>2. CASE files.torn
  <2>1. \A j \in 1 .. Len(all) - 1 : all[j] \in ObjectLists
    BY <1>1
  <2>2. Deltas = SubSeq(all, 1, Len(all) - 1)
    BY <1>2 DEF Deltas
  <2> HIDE DEF all
  <2>3. /\ Len(Deltas) = IF 1 <= Len(all) - 1 THEN Len(all) - 1 - 1 + 1 ELSE 0
        /\ \A j \in 1 .. Len(all) - 1 - 1 + 1 : Deltas[j] = all[1 + j - 1]
    BY <1>1, <2>1, <2>2, SubSeqProperties
  <2>4. i \in 1 .. Len(all) - 1 /\ Deltas[i] = all[i]
    BY <1>1, <2>3
  <2>5. QED
    BY <1>1, <2>4 DEF all
<1>3. CASE ~ files.torn
  BY <1>3 DEF Deltas
<1>4. QED
  BY <1>2, <1>3

(* It is enough for the property.                                          *)
LEMMA KeptIsEnough == IInv => SavedIsKept
<1>1. SUFFICES ASSUME IInv, ~ overtaken, NEW o \in Objs
               PROVE  Restored[o] >= saved[o]
  BY DEF SavedIsKept
<1>2. CASE files.panic.is = "whole"
  BY <1>1, <1>2 DEF IInv, PanicOK, Ages, NoOlder, Restored
<1>3. CASE files.panic.is # "whole"
  BY <1>1, <1>3 DEF IInv, Kept, NoOlder, Restored
<1>4. QED
  BY <1>2, <1>3

(* And for this one.                                                       *)
LEMMA ExactIsEnough == IInv => RestoredIsAState
<1>1. SUFFICES ASSUME IInv, ~ overtaken, ~ cut, ~ Renamed
               PROVE  Restored \in past
  BY DEF RestoredIsAState, Renamed
<1>2. CASE files.panic.is = "whole"
  BY <1>1, <1>2 DEF IInv, PanicOK, StatesOK, InPast, Restored, Running
<1>3. CASE files.panic.is # "whole"
  BY <1>1, <1>3 DEF IInv, StatesOK, InPast, Exact, Loose, Restored, Running
<1>4. QED
  BY <1>2, <1>3

(* The script makes an image of the database,                              *)
LEMMA RestoredType ==
    ASSUME IInv
    PROVE  Restored \in Images
<1>1. Applied(Base, Deltas) \in Images
  BY BaseType, DeltasType, AppliedType DEF IInv
<1>2. files.panic.is = "whole" => files.panic.image \in Images
  BY FileIs DEF IInv, TypeOK, children
<1>3. QED
  BY <1>1, <1>2 DEF Restored

-----------------------------------------------------------------------------
(* The invariant holds when the server starts for the first time.          *)
LEMMA InitInv == Init => IInv
<1>1. SUFFICES ASSUME Init PROVE IInv
  OBVIOUS
<1>2. db \in Images /\ Idle.image \in Images /\ 0 \in 0 .. MaxEpoch /\ 0 \in 0 .. MaxChanges
      /\ 0 \in 0 .. MaxCrashes
  BY <1>1, DumpsAssumption DEF Init, Images, Idle
<1>3. files.dbin = Whole(db) /\ files.dbout = Absent /\ files.panic = Absent /\ files.deltas = << >>
      /\ files.torn = FALSE
  BY <1>1 DEF Init
<1>4. TypeOK
  <2>1. dump \in [Dumpers -> [at : {"idle", "forked", "writing", "closed", "renamed", "done"},
                              epoch : 0 .. MaxEpoch, image : Images]]
    BY <1>1, <1>2 DEF Init, Idle
  <2>2. files \in [tmp : [0 .. MaxEpoch -> Files], dbin : Files, dbout : Files, panic : Files,
                    deltas : Seq(ObjectLists), torn : BOOLEAN, holed : BOOLEAN]
    <3>1. [e \in 0 .. MaxEpoch |-> Absent] \in [0 .. MaxEpoch -> Files]
      BY FileKinds
    <3>2. << >> \in Seq(ObjectLists)
      OBVIOUS
    <3>3. QED
      BY <1>1, <1>2, <3>1, <3>2, FileKinds DEF Init
  <2>3. QED
    BY <1>1, <1>2, <2>1, <2>2 DEF Init, TypeOK, Dumpers, Idle, children
<1>5. Epochs /\ FilesOK /\ NotAhead /\ PanicOK /\ FlagsOK /\ WillBeKept
  BY <1>1, <1>2, <1>3, FileKinds DEF Init, Epochs, FilesOK, NotAhead, PanicOK, FlagsOK, WillBeKept, Busy, Idle, Dumpers, Running
<1>6. Ages
  BY <1>1, <1>2, <1>3, FileKinds, NoOlderReflexive DEF Init, Ages, Busy, Idle, Dumpers
<1>7. Kept
  <2>1. Base = db /\ Deltas = << >>
    BY <1>2, <1>3, FileKinds DEF Base, Deltas
  <2>2. QED
    BY <1>1, <1>2, <2>1, AppliedEmpty, NoOlderReflexive DEF Kept, Init
<1>8. StatesOK
  <2>1. Base = db /\ Deltas = << >>
    BY <1>2, <1>3, FileKinds DEF Base, Deltas
  <2>2. Applied(Base, Deltas) = saved
    BY <1>1, <1>2, <2>1, AppliedEmpty DEF Init
  <2>3. QED
    BY <1>1, <1>2, <2>2 DEF Init, StatesOK, InPast, Exact, WillBeExact, Renamed, Loose, Busy, Idle, Dumpers, Running
<1>9. QED
  BY <1>4, <1>5, <1>6, <1>7, <1>8 DEF IInv

-----------------------------------------------------------------------------
(* The server's steps. *)

(* A command: nothing that is in a file becomes newer.                     *)
LEMMA ChangeStep ==
    ASSUME IInv, NEW S \in SUBSET Objs, Change(S)
    PROVE  IInv'
<1>1. /\ server = "up" /\ now < MaxChanges /\ now' = now + 1
      /\ db' = [o \in Objs |-> IF o \in S THEN now + 1 ELSE db[o]]
      /\ changed' = changed \cup S /\ past' = past \cup {db'}
      /\ UNCHANGED <<epoch, server, dump, children, files, saved, overtaken, cut, crashes>>
  BY DEF Change
<1>2. now \in Nat /\ MaxChanges \in Nat /\ now' \in 0 .. MaxChanges
  BY <1>1, DumpsAssumption DEF IInv, TypeOK, children
<1>3. \A o \in Objs : db[o] \in 0 .. MaxChanges /\ db[o] <= now
  BY DEF IInv, TypeOK, Ages, Images, children
<1>4. db' \in Images /\ \A o \in Objs : db'[o] <= now' /\ db'[o] >= db[o]
  BY <1>1, <1>2, <1>3 DEF Images
<1>5. db \in Images /\ saved \in Images /\ files.dbin.image \in Images
      /\ \A d \in Dumpers : dump[d].image \in Images
  BY FileIs DEF IInv, TypeOK, FilesOK, children
<1>6. TypeOK'
  BY <1>1, <1>2, <1>4 DEF IInv, TypeOK, children
<1>7. Epochs' /\ FilesOK'
  BY <1>1 DEF IInv, Epochs, FilesOK, Busy
<1>8. NoOlder(db', db)
  BY <1>4 DEF NoOlder
<1>9. Ages'
  <2>1. NoOlder(db', saved) /\ NoOlder(db', files.dbin.image)
    BY <1>4, <1>5, <1>8, NoOlderTransitive DEF IInv, Ages
  <2>2. ASSUME NEW d \in Dumpers, Busy(d)
        PROVE  NoOlder(db', dump[d].image) /\ NoOlder(dump[d].image, files.dbin.image)
    BY <1>4, <1>5, <1>8, <2>2, NoOlderTransitive DEF IInv, Ages
  <2>3. QED
    BY <1>1, <1>4, <2>1, <2>2 DEF Ages, Busy
<1>10. PanicOK' /\ FlagsOK'
  BY <1>1 DEF IInv, PanicOK, FlagsOK, Running
<1>11. Kept' /\ WillBeKept'
  BY <1>1 DEF IInv, Kept, WillBeKept, Base, Deltas, Running
<1>12. NotAhead'
  <2>1. ASSUME files.dbout.is = "whole", NEW o \in Objs PROVE files.dbout.image[o] <= now'
    <3>1. files.dbout.image[o] <= now /\ files.dbout.image \in Images
      BY <2>1, FileIs DEF IInv, TypeOK, NotAhead, children
    <3>2. files.dbout.image[o] \in Nat
      BY <3>1 DEF Images
    <3>3. QED
      BY <1>1, <1>2, <3>1, <3>2
  <2>2. ASSUME NEW i \in 1 .. Len(files.deltas), NEW o \in DOMAIN files.deltas[i]
        PROVE  files.deltas[i][o] <= now'
    <3>1. files.deltas[i][o] <= now /\ files.deltas[i] \in ObjectLists
      BY <2>2 DEF IInv, TypeOK, NotAhead, children
    <3>2. files.deltas[i][o] \in Nat
      BY <2>2, <3>1 DEF ObjectLists
    <3>3. QED
      BY <1>1, <1>2, <3>1, <3>2
  <2>3. QED
    BY <1>1, <2>1, <2>2 DEF NotAhead
<1>13. StatesOK'
  BY <1>1 DEF IInv, StatesOK, InPast, Exact, WillBeExact, Renamed, Loose, Busy, Base, Deltas, Running
<1>14. QED
  BY <1>6, <1>7, <1>9, <1>10, <1>11, <1>12, <1>13 DEF IInv

(* What has changed is a list of objects.                                  *)
LEMMA DeltaType ==
    ASSUME IInv
    PROVE  /\ Delta \in ObjectLists /\ DOMAIN Delta = changed
           /\ \A o \in changed : Delta[o] = db[o] /\ Delta[o] <= now
<1>1. changed \in SUBSET Objs /\ \A o \in Objs : db[o] \in 0 .. MaxChanges
  BY DEF IInv, TypeOK, Images
<1>2. Delta \in [changed -> 0 .. MaxChanges]
  BY <1>1 DEF Delta
<1>3. \A o \in changed : Delta[o] = db[o] /\ Delta[o] <= now
  BY <1>1 DEF Delta, IInv, Ages
<1>4. QED
  BY <1>1, <1>2, <1>3 DEF ObjectLists, Delta

(* Without its last element a sequence is what it was before that came.    *)
LEMMA WithoutLast ==
    ASSUME NEW T, NEW old \in Seq(T), NEW x \in T
    PROVE  /\ SubSeq(Append(old, x), 1, Len(Append(old, x)) - 1) = old
           /\ Append(old, x) # << >> /\ Append(old, x)[Len(Append(old, x))] = x
<1> DEFINE new == Append(old, x)
<1>1. /\ new \in Seq(T) /\ Len(new) = Len(old) + 1 /\ new[Len(old) + 1] = x
      /\ \A i \in 1 .. Len(old) : new[i] = old[i]
  OBVIOUS
<1>2. Len(old) \in Nat /\ Len(new) - 1 = Len(old) /\ new # << >>
  BY <1>1
<1>3. \A i \in 1 .. Len(old) : new[i] \in T
  BY <1>1
<1>4. SubSeq(new, 1, Len(old)) = old
  <2> HIDE DEF new
  <2>1. /\ SubSeq(new, 1, Len(old)) \in Seq(T)
        /\ Len(SubSeq(new, 1, Len(old))) = Len(old)
        /\ \A i \in 1 .. Len(old) : SubSeq(new, 1, Len(old))[i] = new[1 + i - 1]
    BY <1>2, <1>3, SubSeqProperties
  <2>2. \A i \in 1 .. Len(old) : SubSeq(new, 1, Len(old))[i] = old[i]
    BY <1>1, <1>2, <2>1
  <2>3. QED
    BY <1>1, <2>1, <2>2, SeqEqual
<1>5. QED
  BY <1>1, <1>2, <1>4

(* And the last put back makes it whole.                                   *)
LEMMA WithLast ==
    ASSUME NEW T, NEW all \in Seq(T), all # << >>
    PROVE  /\ SubSeq(all, 1, Len(all) - 1) \in Seq(T)
           /\ all = Append(SubSeq(all, 1, Len(all) - 1), all[Len(all)])
<1>1. Len(all) \in Nat \ {0}
  OBVIOUS
<1>2. PICK n \in Nat : Len(all) = n + 1
  BY <1>1
<1>3. \A i \in 1 .. n : all[i] \in T
  BY <1>2
<1>4. PICK front \in Seq(T) : front = SubSeq(all, 1, n) /\ Len(front) = n /\ \A i \in 1 .. n : front[i] = all[i]
  <2>1. /\ SubSeq(all, 1, n) \in Seq(T) /\ Len(SubSeq(all, 1, n)) = n
        /\ \A i \in 1 .. n : SubSeq(all, 1, n)[i] = all[1 + i - 1]
    BY <1>2, <1>3, SubSeqProperties
  <2>2. \A i \in 1 .. n : SubSeq(all, 1, n)[i] = all[i]
    BY <2>1
  <2>3. QED
    BY <2>1, <2>2
<1>5. all[n + 1] \in T
  BY <1>2
<1>6. /\ Append(front, all[n + 1]) \in Seq(T) /\ Len(Append(front, all[n + 1])) = n + 1
      /\ \A i \in 1 .. n + 1 : Append(front, all[n + 1])[i] = all[i]
  BY <1>4, <1>5
<1>7. Append(front, all[n + 1]) = all
  BY <1>2, <1>6, SeqEqual
<1>8. Len(all) - 1 = n
  BY <1>2
<1>9. QED
  BY <1>2, <1>4, <1>7, <1>8

(* The server is at the end of the file.                                   *)
LEMMA DeltasStartStep ==
    ASSUME IInv, DeltasStart
    PROVE  IInv'
<1>1. /\ server = "up" /\ server' = "writing" /\ epoch < MaxEpoch /\ epoch' = epoch + 1
      /\ UNCHANGED <<mem, dump, children, files, ghosts>>
  BY DEF DeltasStart, MaySave
<1>2. TypeOK'
  BY <1>1, DumpsAssumption DEF IInv, TypeOK, mem, ghosts, children
<1>3. Epochs'
  <2>1. \A d \in Dumpers : dump[d].epoch \in 1 .. epoch => dump[d].epoch \in 1 .. epoch'
    BY <1>1 DEF IInv, TypeOK
  <2>2. QED
    BY <1>1, <2>1 DEF IInv, Epochs, Busy
<1>4. Running /\ Running' /\ files.torn = FALSE
  BY <1>1 DEF Running, IInv, FilesOK, TypeOK
<1>5. FilesOK' /\ Ages' /\ NotAhead' /\ PanicOK' /\ FlagsOK' /\ Kept' /\ WillBeKept'
  BY <1>1, <1>4 DEF IInv, FilesOK, Ages, NotAhead, Busy, PanicOK, FlagsOK, Kept, WillBeKept, Base, Deltas, mem, ghosts
<1>6. StatesOK'
  BY <1>1, <1>4 DEF IInv, StatesOK, InPast, Exact, WillBeExact, Renamed, Loose, Busy, Base, Deltas, mem, ghosts
<1>7. QED
  BY <1>2, <1>3, <1>5, <1>6 DEF IInv

(* A delta dump that is not complete is left out by the script.            *)
LEMMA DeltasPartStep ==
    ASSUME IInv, DeltasPart
    PROVE  IInv'
<1>1. /\ server = "writing" /\ files.torn = FALSE
      /\ files' = [files EXCEPT !.deltas = Append(files.deltas, Delta), !.torn = TRUE]
      /\ UNCHANGED <<mem, epoch, server, dump, children, ghosts>>
  BY DEF DeltasPart, WithDelta, IInv, TypeOK
<1>2. Delta \in ObjectLists /\ \A o \in DOMAIN Delta : Delta[o] <= now
  BY DeltaType
<1>3. /\ files'.tmp = files.tmp /\ files'.dbin = files.dbin /\ files'.dbout = files.dbout
      /\ files'.panic = files.panic /\ files'.torn = TRUE /\ files'.holed = files.holed
      /\ files'.deltas = Append(files.deltas, Delta) /\ files.deltas \in Seq(ObjectLists)
  BY <1>1 DEF IInv, TypeOK
<1>4. TypeOK'
  <2>1. Append(files.deltas, Delta) \in Seq(ObjectLists)
    BY <1>2, <1>3
  <2>2. QED
    BY <1>1, <2>1 DEF IInv, TypeOK, mem, ghosts, children
<1>5. /\ SubSeq(files'.deltas, 1, Len(files'.deltas) - 1) = files.deltas
      /\ files'.deltas # << >> /\ files'.deltas[Len(files'.deltas)] = Delta
  BY <1>2, <1>3, WithoutLast
<1>6. Deltas' = Deltas /\ Base' = Base
  <2>1. Base' = Base
    BY <1>3 DEF Base
  <2>2. CASE files.holed
    BY <1>3, <2>1, <2>2, Zenon DEF Deltas
  <2>3. CASE ~ files.holed
    <3>1. Deltas = files.deltas
      BY <1>1, <2>3, Zenon DEF Deltas
    <3>2. Deltas' = SubSeq(files'.deltas, 1, Len(files'.deltas) - 1)
      BY <1>3, <2>3, Zenon DEF Deltas
    <3>3. QED
      BY <1>5, <2>1, <3>1, <3>2
  <2>4. QED
    BY <2>2, <2>3
<1>7. FilesOK'
  BY <1>1, <1>3, <1>5 DEF IInv, FilesOK, Delta, mem
<1>8. Epochs' /\ Ages' /\ PanicOK' /\ FlagsOK'
  BY <1>1, <1>3 DEF IInv, Epochs, Ages, PanicOK, FlagsOK, Busy, mem, ghosts, Running
<1>9. Kept' /\ WillBeKept'
  BY <1>1, <1>3, <1>6 DEF IInv, Kept, WillBeKept, ghosts, Running
<1>10. NotAhead'
  BY <1>1, <1>2, <1>3, AppendedIsLast DEF IInv, TypeOK, NotAhead, mem
<1>11. StatesOK'
  <2>1. Running
    BY <1>1 DEF Running
  <2>2. InPast'
    BY <1>1 DEF IInv, StatesOK, InPast, Busy, mem, ghosts
  <2>3. Renamed' = Renamed /\ Loose' = Loose
    BY <1>1, <1>3 DEF Renamed, Loose, ghosts
  <2>4. Exact'
    BY <1>1, <1>6, <2>3 DEF IInv, StatesOK, Exact, ghosts
  <2>5. WillBeExact'
    BY <1>1, <1>3, <2>1, <2>3 DEF IInv, StatesOK, WillBeExact
  <2>6. QED
    BY <2>2, <2>4, <2>5 DEF StatesOK
<1>12. QED
  BY <1>4, <1>7, <1>8, <1>9, <1>10, <1>11 DEF IInv

(* What has not changed is saved, and what has is in the new delta, unless *)
(* a hole makes it unreadable.                                             *)
LEMMA DeltasWrittenStep ==
    ASSUME IInv, DeltasWritten
    PROVE  IInv'
<1>1. /\ server = "writing" /\ server' = "up"
      /\ files' = [files EXCEPT !.deltas = WithDelta, !.torn = FALSE]
      /\ changed' = {} /\ saved' = db /\ overtaken' = (overtaken \/ files.holed)
      /\ UNCHANGED <<db, now, epoch, dump, children, past, cut, crashes>>
  BY DEF DeltasWritten
<1>2. Delta \in ObjectLists /\ DOMAIN Delta = changed /\ \A o \in changed : Delta[o] = db[o] /\ Delta[o] <= now
  BY DeltaType
<1>3. /\ files'.tmp = files.tmp /\ files'.dbin = files.dbin /\ files'.dbout = files.dbout
      /\ files'.panic = files.panic /\ files'.torn = FALSE /\ files'.holed = files.holed
      /\ files'.deltas = WithDelta
  BY <1>1 DEF IInv, TypeOK
<1>4. /\ Running /\ Running' /\ Base' = Base /\ Base \in Images
      /\ files.deltas \in Seq(ObjectLists) /\ Deltas \in Seq(ObjectLists)
  BY <1>1, <1>3, BaseType, DeltasType DEF Running, Base, IInv, TypeOK
<1>5. ~ files.holed => WithDelta = Append(Deltas, Delta)
  <2>1. CASE files.torn
    <3>1. files.deltas # << >> /\ files.deltas[Len(files.deltas)] = Delta
      BY <1>1, <2>1 DEF IInv, FilesOK
    <3>2. files.deltas = Append(SubSeq(files.deltas, 1, Len(files.deltas) - 1), Delta)
      BY <1>4, <3>1, WithLast
    <3>3. QED
      BY <2>1, <3>2 DEF WithDelta, Deltas
  <2>2. CASE ~ files.torn
    BY <2>2 DEF WithDelta, Deltas
  <2>3. QED
    BY <2>1, <2>2
<1>6. WithDelta \in Seq(ObjectLists)
  BY <1>2, <1>4 DEF WithDelta
<1>7. TypeOK'
  <2>1. overtaken' \in BOOLEAN
    BY <1>1 DEF IInv, TypeOK
  <2>2. QED
    BY <1>1, <1>6, <2>1 DEF IInv, TypeOK, children
<1>8. Epochs' /\ FilesOK'
  BY <1>1, <1>3 DEF IInv, Epochs, FilesOK, Busy
<1>9. Ages' /\ PanicOK' /\ FlagsOK'
  BY <1>1, <1>3, NoOlderReflexive DEF IInv, TypeOK, Ages, PanicOK, FlagsOK, Busy
<1>10. files.panic.is # "whole"
  BY <1>1 DEF IInv, PanicOK
<1>11. ASSUME ~ overtaken'
       PROVE  /\ ~ overtaken
              /\ \A o \in Objs : Applied(Base', Deltas')[o] = IF o \in changed THEN db[o] ELSE Applied(Base, Deltas)[o]
  <2>1. ~ overtaken /\ ~ files.holed
    BY <1>1, <1>11 DEF IInv, TypeOK
  <2>2. Deltas' = Append(Deltas, Delta)
    BY <1>3, <1>5, <2>1 DEF Deltas
  <2>3. QED
    BY <1>2, <1>4, <2>1, <2>2, AppliedAppend
<1>12. Kept'
  <2>1. SUFFICES ASSUME ~ overtaken' PROVE NoOlder(Applied(Base', Deltas'), db)
    BY <1>1 DEF Kept
  <2>2. ASSUME NEW o \in Objs PROVE Applied(Base', Deltas')[o] >= db[o]
    <3>1. Applied(Base, Deltas)[o] >= saved[o]
      BY <1>10, <1>11, <2>1 DEF IInv, Kept, NoOlder
    <3>2. o \notin changed => saved[o] = db[o]
      BY <1>4 DEF IInv, FlagsOK
    <3>3. db[o] \in Int
      BY DEF IInv, TypeOK, Images
    <3>4. QED
      BY <1>11, <2>1, <3>1, <3>2, <3>3
  <2>3. QED
    BY <2>2 DEF NoOlder
<1>13. WillBeKept'
  <2>1. SUFFICES ASSUME ~ overtaken' PROVE WillBeKept'
    BY DEF WillBeKept
  <2>2. QED
    BY <1>1, <1>3, <1>4, <1>11, <2>1 DEF IInv, WillBeKept
<1>14. NotAhead'
  BY <1>1, <1>2, <1>3, <1>4, AppendedIsLast DEF IInv, TypeOK, NotAhead, WithDelta
<1>15. StatesOK'
  <2>1. InPast'
    BY <1>1 DEF IInv, StatesOK, InPast, Busy
  <2>3. SUFFICES ASSUME ~ overtaken', ~ Loose PROVE Exact' /\ WillBeExact'
    <3>1. Loose => Loose'
      BY <1>1, <1>3 DEF Loose
    <3>2. overtaken' => Loose'
      BY DEF Loose
    <3>3. QED
      BY <2>1, <3>1, <3>2 DEF StatesOK, Exact, WillBeExact
  <2>4. Renamed' = Renamed
    BY <1>1 DEF Renamed
  <2>5. WillBeExact'
    BY <1>1, <1>3, <1>4, <2>3, <2>4 DEF IInv, StatesOK, WillBeExact
  <2>6. ASSUME ~ Renamed PROVE Applied(Base', Deltas') = db
    <3>1. Applied(Base, Deltas) = saved
      BY <2>3, <2>6 DEF IInv, StatesOK, Exact
    <3>2. \A o \in Objs : Applied(Base', Deltas')[o] = db[o]
      BY <1>4, <1>11, <2>3, <3>1 DEF IInv, FlagsOK
    <3>3. Deltas' \in Seq(ObjectLists)
      BY <1>3, <1>6 DEF Deltas
    <3>4. Applied(Base', Deltas') \in Images
      BY <1>4, <3>3, AppliedType
    <3>5. QED
      BY <3>2, <3>4 DEF IInv, TypeOK, Images
  <2>7. QED
    BY <1>1, <2>4, <2>5, <2>6 DEF Exact
<1>16. QED
  BY <1>7, <1>8, <1>9, <1>12, <1>13, <1>14, <1>15 DEF IInv

(* The child has a copy of the database.                                   *)
LEMMA ForkStep ==
    ASSUME IInv, Fork
    PROVE  IInv'
<1> DEFINE child == [at |-> "forked", epoch |-> epoch + 1, image |-> db]
<1>1. /\ server = "up" /\ server' = "forking" /\ Running /\ Running'
      /\ epoch < MaxEpoch /\ epoch' = epoch + 1 /\ ~ dumper_pid
      /\ dump' = [dump EXCEPT !["child"] = child]
      /\ UNCHANGED <<mem, children, files, ghosts>>
  BY DEF Fork, MaySave, Running
<1>2. /\ dump["child"].at = "idle" /\ dump["server"].at = "idle"
      /\ dump'["child"] = child /\ dump'["server"] = dump["server"]
      /\ dump' \in [Dumpers -> [at : {"idle", "forked", "writing", "closed", "renamed", "done"},
                                epoch : 0 .. MaxEpoch, image : Images]]
  BY <1>1, DumpsAssumption DEF IInv, TypeOK, Dumpers, children
<1>3. epoch' \in 0 .. MaxEpoch /\ epoch' \in 1 .. epoch'
  BY <1>1, DumpsAssumption DEF IInv, TypeOK, children
<1>4. TypeOK'
  BY <1>1, <1>2, <1>3 DEF IInv, TypeOK, mem, ghosts, children
<1>5. Epochs' /\ FilesOK'
  BY <1>1, <1>2, <1>3 DEF IInv, Epochs, FilesOK, Busy, Dumpers
<1>6. Ages'
  <2>1. NoOlder(db, db)
    BY NoOlderReflexive DEF IInv, TypeOK, children
  <2>2. QED
    BY <1>1, <1>2, <2>1 DEF IInv, Ages, Busy, Dumpers, mem, ghosts
<1>7. NotAhead' /\ PanicOK' /\ FlagsOK' /\ Kept' /\ WillBeKept'
  BY <1>1, <1>2 DEF IInv, NotAhead, PanicOK, FlagsOK, Kept, WillBeKept, Base, Deltas, Dumpers, mem, ghosts, Running
<1>8. StatesOK'
  BY <1>1, <1>2 DEF IInv, StatesOK, InPast, Exact, WillBeExact, Renamed, Loose, Busy, Base, Deltas, Dumpers, mem, ghosts, Running
<1>9. QED
  BY <1>4, <1>5, <1>6, <1>7, <1>8 DEF IInv

(* The server gets to know it.                                             *)
LEMMA ForkedStep ==
    ASSUME IInv, Forked
    PROVE  IInv'
<1>1. /\ server = "forking" /\ server' = "up" /\ dumper_pid' = TRUE /\ Running /\ Running'
      /\ UNCHANGED <<mem, epoch, dump, resolver, sigchld, missed, files, ghosts>>
  BY DEF Forked, Running
<1>2. TypeOK'
  BY <1>1 DEF IInv, TypeOK, mem, ghosts
<1>3. Epochs' /\ FilesOK' /\ Ages' /\ NotAhead' /\ PanicOK' /\ FlagsOK' /\ Kept' /\ WillBeKept'
  BY <1>1 DEF IInv, Epochs, FilesOK, Ages, NotAhead, Busy, PanicOK, FlagsOK, Kept, WillBeKept, Base, Deltas, mem, ghosts
<1>4. StatesOK'
  BY <1>1 DEF IInv, StatesOK, InPast, Exact, WillBeExact, Renamed, Loose, Busy, Base, Deltas, mem, ghosts
<1>5. QED
  BY <1>2, <1>3, <1>4 DEF IInv

(* A dump that is skipped uses up a number.                                *)
LEMMA SkipDumpStep ==
    ASSUME IInv, SkipDump
    PROVE  IInv'
<1>1. /\ server = "up" /\ epoch < MaxEpoch /\ epoch' = epoch + 1
      /\ UNCHANGED <<mem, server, dump, children, files, ghosts>>
  BY DEF SkipDump, MaySave
<1>2. TypeOK'
  BY <1>1, DumpsAssumption DEF IInv, TypeOK, mem, ghosts, children
<1>3. Epochs'
  <2>1. \A d \in Dumpers : dump[d].epoch \in 1 .. epoch => dump[d].epoch \in 1 .. epoch'
    BY <1>1 DEF IInv, TypeOK, children
  <2>2. QED
    BY <1>1, <2>1 DEF IInv, Epochs, Busy
<1>4. FilesOK' /\ Ages' /\ NotAhead' /\ PanicOK' /\ FlagsOK' /\ Kept' /\ WillBeKept'
  BY <1>1 DEF IInv, FilesOK, Ages, NotAhead, Busy, PanicOK, FlagsOK, Kept, WillBeKept, Base, Deltas, mem, ghosts, Running
<1>5. StatesOK'
  BY <1>1 DEF IInv, StatesOK, InPast, Exact, WillBeExact, Renamed, Loose, Busy, Base, Deltas, mem, ghosts, Running
<1>6. QED
  BY <1>2, <1>3, <1>4, <1>5 DEF IInv

(* The server's dump has a greater number than any child's, and is later.  *)
LEMMA ShutdownStep ==
    ASSUME IInv, Shutdown
    PROVE  IInv'
<1> DEFINE last == [at |-> "forked", epoch |-> epoch + 1, image |-> db]
<1>1. /\ server = "up" /\ server' = "shutdown" /\ epoch < MaxEpoch /\ epoch' = epoch + 1
      /\ dump' = [dump EXCEPT !["server"] = last]
      /\ UNCHANGED <<mem, children, files, ghosts>>
  BY DEF Shutdown, MaySave
<1>2. /\ dump["server"].at = "idle" /\ dump'["server"] = last /\ dump'["child"] = dump["child"]
      /\ dump' \in [Dumpers -> [at : {"idle", "forked", "writing", "closed", "renamed", "done"},
                                epoch : 0 .. MaxEpoch, image : Images]]
  BY <1>1, DumpsAssumption DEF IInv, TypeOK, Dumpers, children
<1>3. epoch' \in 0 .. MaxEpoch /\ epoch' \in 1 .. epoch'
  BY <1>1, DumpsAssumption DEF IInv, TypeOK, children
<1>4. TypeOK'
  BY <1>1, <1>2, <1>3 DEF IInv, TypeOK, mem, ghosts, children
<1>5. Epochs'
  <2>1. Busy("child") => dump["child"].epoch \in 1 .. epoch /\ NoOlder(db, dump["child"].image)
    BY DEF IInv, Epochs, Ages, Dumpers
  <2>2. Busy("child") => dump["child"].epoch \in 1 .. epoch' /\ dump["child"].epoch < epoch'
    BY <1>1, <2>1 DEF IInv, TypeOK, children
  <2>3. QED
    BY <1>1, <1>2, <1>3, <2>1, <2>2 DEF Epochs, Busy, Dumpers
<1>6. FilesOK' /\ NotAhead' /\ PanicOK' /\ FlagsOK' /\ Kept' /\ WillBeKept'
  BY <1>1, <1>2 DEF IInv, FilesOK, NotAhead, PanicOK, FlagsOK, Kept, WillBeKept, Base, Deltas, Dumpers, mem, ghosts, Running
<1>7. Ages'
  <2>1. NoOlder(db, db)
    BY NoOlderReflexive DEF IInv, TypeOK, children
  <2>2. QED
    BY <1>1, <1>2, <2>1 DEF IInv, Ages, Busy, Dumpers, mem, ghosts
<1>8. StatesOK'
  BY <1>1, <1>2 DEF IInv, StatesOK, InPast, Exact, WillBeExact, Renamed, Loose, Busy, Base, Deltas, Dumpers, mem, ghosts, Running
<1>9. QED
  BY <1>4, <1>5, <1>6, <1>7, <1>8 DEF IInv

-----------------------------------------------------------------------------
(* A dump, whoever makes it. *)

(* The kinds of steps in a dump: at changes, and nothing else of a dump.   *)
LEMMA GoesOn ==
    ASSUME TypeOK, NEW d \in Dumpers, NEW from, NEW to \in {"writing", "closed", "renamed"},
           Goes(d, from, to)
    PROVE  /\ dump' \in [Dumpers -> [at : {"idle", "forked", "writing", "closed", "renamed", "done"},
                                     epoch : 0 .. MaxEpoch, image : Images]]
           /\ dump[d].at = from /\ dump'[d].at = to
           /\ \A x \in Dumpers : /\ x # d => dump'[x] = dump[x]
                                /\ dump'[x].epoch = dump[x].epoch /\ dump'[x].image = dump[x].image
<1>1. dump[d].at = from /\ dump' = [dump EXCEPT ![d] = [@ EXCEPT !.at = to]]
  BY DEF Goes
<1>2. dump \in [Dumpers -> [at : {"idle", "forked", "writing", "closed", "renamed", "done"},
                           epoch : 0 .. MaxEpoch, image : Images]]
  BY DEF TypeOK, children
<1>3. QED
  BY <1>1, <1>2

(* Two dumps have different numbers.                                       *)
LEMMA NumbersDiffer ==
    ASSUME IInv, NEW d \in Dumpers, NEW x \in Dumpers, x # d, Busy(d), Busy(x)
    PROVE  dump[x].epoch # dump[d].epoch
BY DEF IInv, TypeOK, Epochs, Dumpers, children

(* The files that are removed and opened are not those of the other dump.  *)
LEMMA DumpOpenStep ==
    ASSUME IInv, NEW d \in Dumpers, DumpOpen(d)
    PROVE  IInv'
<1> DEFINE e == dump[d].epoch
<1>1. /\ Goes(d, "forked", "writing")
      /\ files' = [files EXCEPT !.tmp[e - 1] = Absent, !.tmp[e] = Part]
      /\ UNCHANGED <<mem, epoch, server, children, ghosts>>
  BY DEF DumpOpen
<1>2. /\ dump' \in [Dumpers -> [at : {"idle", "forked", "writing", "closed", "renamed", "done"},
                                epoch : 0 .. MaxEpoch, image : Images]]
      /\ dump[d].at = "forked" /\ dump'[d].at = "writing"
      /\ \A x \in Dumpers : /\ x # d => dump'[x] = dump[x]
                           /\ dump'[x].epoch = dump[x].epoch /\ dump'[x].image = dump[x].image
  BY <1>1, GoesOn DEF IInv
<1>3. e \in 1 .. MaxEpoch /\ e - 1 \in 0 .. MaxEpoch /\ Busy(d)
  <2>1. Busy(d) /\ e \in 1 .. epoch
    BY <1>2 DEF IInv, Epochs, Busy
  <2>2. epoch \in 0 .. MaxEpoch /\ MaxEpoch \in Nat
    BY DumpsAssumption DEF IInv, TypeOK
  <2>3. QED
    BY <2>1, <2>2
<1>4. /\ files'.dbin = files.dbin /\ files'.dbout = files.dbout /\ files'.panic = files.panic
      /\ files'.deltas = files.deltas /\ files'.torn = files.torn /\ files'.holed = files.holed
      /\ files'.tmp = [files.tmp EXCEPT ![e - 1] = Absent, ![e] = Part]
      /\ files' \in [tmp : [0 .. MaxEpoch -> Files], dbin : Files, dbout : Files, panic : Files,
                     deltas : Seq(ObjectLists), torn : BOOLEAN, holed : BOOLEAN]
  BY <1>1, <1>3, FileKinds DEF IInv, TypeOK, children
<1>5. TypeOK'
  BY <1>1, <1>2, <1>4 DEF IInv, TypeOK, mem, ghosts, Dumpers, children
<1>6. Epochs' /\ Ages'
  BY <1>1, <1>2, <1>4 DEF IInv, Epochs, Ages, Busy, Dumpers, mem, ghosts
<1>7. FilesOK'
  <2>1. ASSUME NEW x \in Dumpers, Busy(x), x # d
        PROVE  files'.tmp[dump[x].epoch] \in {files.tmp[dump[x].epoch], Absent}
    <3>1. dump[x].epoch # e
      BY <1>3, <2>1, NumbersDiffer
    <3>2. dump[x].epoch \in 0 .. MaxEpoch /\ files.tmp \in [0 .. MaxEpoch -> Files]
      BY DEF IInv, TypeOK, children
    <3>3. QED
      BY <1>3, <1>4, <3>1, <3>2
  <2>2. files'.tmp[e] = Part
    BY <1>3, <1>4 DEF IInv, TypeOK, children
  <2>3. ASSUME NEW x \in Dumpers
        PROVE  /\ dump'[x].at = "writing" => files'.tmp[dump'[x].epoch].is # "whole"
               /\ dump'[x].at = "closed" => \/ files'.tmp[dump'[x].epoch].is = "absent"
                                            \/ files'.tmp[dump'[x].epoch] = Whole(dump'[x].image)
    <3>1. CASE x = d
      BY <1>2, <2>2, <3>1, FileKinds
    <3>2. CASE x # d
      BY <1>2, <2>1, <3>2, FileKinds DEF IInv, FilesOK, Busy
    <3>3. QED
      BY <3>1, <3>2
  <2>4. QED
    BY <1>1, <1>4, <2>3 DEF IInv, FilesOK, Delta, mem
<1>8. NotAhead' /\ PanicOK' /\ FlagsOK' /\ Kept' /\ WillBeKept'
  BY <1>1, <1>2, <1>4 DEF IInv, NotAhead, PanicOK, FlagsOK, Kept, WillBeKept, Base, Deltas, mem, ghosts, Running
<1>9. StatesOK'
  <2>1. Renamed' = Renamed /\ Loose' = Loose
    <3>1. \A x \in Dumpers : dump'[x].at = "renamed" <=> dump[x].at = "renamed"
      BY <1>2
    <3>2. Renamed' <=> Renamed
      BY <3>1 DEF Renamed
    <3>3. QED
      BY <1>1, <1>4, <3>2 DEF Renamed, Loose, ghosts
  <2>2. Base' = Base /\ Deltas' = Deltas
    BY <1>4 DEF Base, Deltas
  <2>3. InPast' /\ Exact'
    BY <1>1, <1>2, <1>4, <2>1, <2>2 DEF IInv, StatesOK, InPast, Exact, Busy, mem, ghosts, Running
  <2>4. WillBeExact'
    BY <1>1, <1>2, <1>4, <2>1, <2>2 DEF IInv, StatesOK, WillBeExact, ghosts, Running
  <2>5. QED
    BY <2>3, <2>4 DEF StatesOK, Running
<1>10. QED
  BY <1>5, <1>6, <1>7, <1>8, <1>9 DEF IInv

(* The file is complete, or removed.                                       *)
LEMMA DumpWriteStep ==
    ASSUME IInv, NEW d \in Dumpers, DumpWrite(d)
    PROVE  IInv'
<1> DEFINE e == dump[d].epoch
           file == IF files.tmp[e].is = "part" THEN Whole(dump[d].image) ELSE files.tmp[e]
<1>1. /\ Goes(d, "writing", "closed")
      /\ files' = [files EXCEPT !.tmp[e] = file]
      /\ changed' = IF d = "server" THEN {} ELSE changed
      /\ UNCHANGED <<db, now, epoch, server, children, ghosts>>
  BY DEF DumpWrite, IInv, TypeOK, children
<1>2. /\ dump' \in [Dumpers -> [at : {"idle", "forked", "writing", "closed", "renamed", "done"},
                                epoch : 0 .. MaxEpoch, image : Images]]
      /\ dump[d].at = "writing" /\ dump'[d].at = "closed"
      /\ \A x \in Dumpers : /\ x # d => dump'[x] = dump[x]
                           /\ dump'[x].epoch = dump[x].epoch /\ dump'[x].image = dump[x].image
  BY <1>1, GoesOn DEF IInv
<1>3. e \in 0 .. MaxEpoch /\ files.tmp[e] \in Files /\ dump[d].image \in Images /\ Busy(d)
  BY <1>2 DEF IInv, TypeOK, Busy, children
<1>4. file \in Files /\ (file.is = "absent" \/ file = Whole(dump[d].image))
  <2>1. files.tmp[e].is # "whole"
    BY <1>2 DEF IInv, FilesOK
  <2>2. files.tmp[e].is = "absent" \/ files.tmp[e].is = "part"
    BY <1>3, <2>1, FileIs
  <2>3. QED
    BY <1>3, <2>2, FileKinds
<1> HIDE DEF file
<1>5. /\ files'.dbin = files.dbin /\ files'.dbout = files.dbout /\ files'.panic = files.panic
      /\ files'.deltas = files.deltas /\ files'.torn = files.torn /\ files'.holed = files.holed
      /\ files'.tmp = [files.tmp EXCEPT ![e] = file]
      /\ files' \in [tmp : [0 .. MaxEpoch -> Files], dbin : Files, dbout : Files, panic : Files,
                     deltas : Seq(ObjectLists), torn : BOOLEAN, holed : BOOLEAN]
  BY <1>1, <1>3, <1>4 DEF IInv, TypeOK, children
<1>6. TypeOK'
  BY <1>1, <1>2, <1>5 DEF IInv, TypeOK, ghosts, Dumpers, children
<1>7. Epochs' /\ Ages'
  BY <1>1, <1>2, <1>5 DEF IInv, Epochs, Ages, Busy, Dumpers, ghosts
<1>8. FilesOK'
  <2>1. ASSUME NEW x \in Dumpers, Busy(x), x # d
        PROVE  files'.tmp[dump[x].epoch] = files.tmp[dump[x].epoch]
    <3>1. dump[x].epoch # e
      BY <1>3, <2>1, NumbersDiffer
    <3>2. dump[x].epoch \in 0 .. MaxEpoch /\ files.tmp \in [0 .. MaxEpoch -> Files]
      BY DEF IInv, TypeOK, children
    <3>3. QED
      BY <1>5, <3>1, <3>2
  <2>2. files'.tmp[e] = file
    BY <1>3, <1>5 DEF IInv, TypeOK, children
  <2>3. \/ files'.tmp[dump'[d].epoch].is = "absent"
        \/ files'.tmp[dump'[d].epoch] = Whole(dump'[d].image)
    BY <1>2, <1>4, <2>2
  <2>4. ASSUME NEW x \in Dumpers, x # d
        PROVE  /\ dump'[x].at = "writing" => files'.tmp[dump'[x].epoch].is # "whole"
               /\ dump'[x].at = "closed" => \/ files'.tmp[dump'[x].epoch].is = "absent"
                                            \/ files'.tmp[dump'[x].epoch] = Whole(dump'[x].image)
    BY <1>2, <2>1, <2>4 DEF IInv, FilesOK, Busy
  <2>5. d = "server" => files.torn = FALSE
    BY <1>2 DEF IInv, TypeOK, FilesOK
  <2>6. QED
    BY <1>1, <1>2, <1>5, <2>3, <2>4, <2>5 DEF IInv, FilesOK, Delta
<1>9. FlagsOK'
  <2>1. d = "server" => ~ Running
    BY <1>2 DEF IInv, TypeOK, Running
  <2>2. QED
    BY <1>1, <2>1 DEF IInv, FlagsOK, ghosts, Running
<1>10. NotAhead' /\ PanicOK' /\ Kept' /\ WillBeKept'
  BY <1>1, <1>2, <1>5 DEF IInv, NotAhead, PanicOK, Kept, WillBeKept, Base, Deltas, ghosts, Running
<1>11. StatesOK'
  <2>1. Renamed' = Renamed /\ Loose' = Loose
    <3>1. \A x \in Dumpers : dump'[x].at = "renamed" <=> dump[x].at = "renamed"
      BY <1>2
    <3>2. Renamed' <=> Renamed
      BY <3>1 DEF Renamed
    <3>3. QED
      BY <1>1, <1>5, <3>2 DEF Renamed, Loose, ghosts
  <2>2. Base' = Base /\ Deltas' = Deltas
    BY <1>5 DEF Base, Deltas
  <2>3. InPast' /\ Exact'
    BY <1>1, <1>2, <1>5, <2>1, <2>2 DEF IInv, StatesOK, InPast, Exact, Busy, mem, ghosts, Running
  <2>4. WillBeExact'
    BY <1>1, <1>2, <1>5, <2>1, <2>2 DEF IInv, StatesOK, WillBeExact, ghosts, Running
  <2>5. QED
    BY <2>3, <2>4 DEF StatesOK, Running
<1>12. QED
  BY <1>6, <1>7, <1>8, <1>9, <1>10, <1>11 DEF IInv

(* The dump comes into its place: what the deltas have is no older on top  *)
(* of it, unless an older dump has taken the place of a newer one.         *)
LEMMA DumpRenameStep ==
    ASSUME IInv, NEW d \in Dumpers, DumpRename(d)
    PROVE  IInv'
<1> DEFINE e == dump[d].epoch
           image == dump[d].image
<1>1. /\ Goes(d, "closed", "renamed")
      /\ UNCHANGED <<mem, epoch, server, children, past, saved, cut, crashes>>
  BY DEF DumpRename
<1>2. /\ dump' \in [Dumpers -> [at : {"idle", "forked", "writing", "closed", "renamed", "done"},
                                epoch : 0 .. MaxEpoch, image : Images]]
      /\ dump[d].at = "closed" /\ dump'[d].at = "renamed"
      /\ \A x \in Dumpers : /\ x # d => dump'[x] = dump[x]
                           /\ dump'[x].epoch = dump[x].epoch /\ dump'[x].image = dump[x].image
  BY <1>1, GoesOn DEF IInv
<1>3. e \in 0 .. MaxEpoch /\ files.tmp[e] \in Files /\ image \in Images /\ Busy(d)
  BY <1>2 DEF IInv, TypeOK, Busy, children
<1>4. Epochs'
  BY <1>1, <1>2 DEF IInv, Epochs, Busy, Dumpers
<1>5. FlagsOK'
  BY <1>1 DEF IInv, FlagsOK, mem, Running
<1>6. CASE files.tmp[e].is = "absent"
  <2>1. overtaken' = TRUE /\ files' = files
    BY <1>6 DEF DumpRename
  <2>2. TypeOK'
    BY <1>1, <1>2, <2>1 DEF IInv, TypeOK, mem, Dumpers, children
  <2>3. FilesOK' /\ Ages' /\ NotAhead' /\ PanicOK'
    BY <1>1, <1>2, <2>1 DEF IInv, FilesOK, Ages, NotAhead, PanicOK, Busy, mem, Delta
  <2>4. Kept' /\ WillBeKept'
    BY <2>1 DEF Kept, WillBeKept, Running
  <2>5. StatesOK'
    BY <1>1, <1>2, <2>1 DEF IInv, StatesOK, InPast, Exact, WillBeExact, Renamed, Loose, Busy, mem, Running
  <2>6. QED
    BY <1>4, <1>5, <2>2, <2>3, <2>4, <2>5 DEF IInv
<1>7. CASE files.tmp[e].is # "absent"
  <2>1. files.tmp[e] = Whole(image) /\ Whole(image) \in Files /\ Whole(image).is = "whole"
        /\ Whole(image).image = image
    BY <1>2, <1>3, <1>7, FileKinds DEF IInv, FilesOK
  <2>2. /\ overtaken' = (overtaken \/ (files.dbout.is # "absent" /\ ~ NoOlder(image, files.dbout.image)))
        /\ files' = [files EXCEPT !.dbout = Whole(image), !.tmp[e] = Absent]
    BY <1>7, <2>1 DEF DumpRename
  <2>3. /\ files'.dbin = files.dbin /\ files'.dbout = Whole(image) /\ files'.panic = files.panic
        /\ files'.deltas = files.deltas /\ files'.torn = files.torn /\ files'.holed = files.holed
        /\ files'.tmp = [files.tmp EXCEPT ![e] = Absent]
        /\ files' \in [tmp : [0 .. MaxEpoch -> Files], dbin : Files, dbout : Files, panic : Files,
                       deltas : Seq(ObjectLists), torn : BOOLEAN, holed : BOOLEAN]
    BY <1>3, <2>1, <2>2, FileKinds DEF IInv, TypeOK, children
  <2>4. TypeOK'
    <3>1. overtaken' \in BOOLEAN
      BY <2>2 DEF IInv, TypeOK, children
    <3>2. QED
      BY <1>1, <1>2, <2>3, <3>1 DEF IInv, TypeOK, mem, Dumpers, children
  <2>5. FilesOK'
    <3>1. ASSUME NEW x \in Dumpers, Busy(x), x # d
          PROVE  files'.tmp[dump[x].epoch] = files.tmp[dump[x].epoch]
      <4>1. dump[x].epoch # e
        BY <1>3, <3>1, NumbersDiffer
      <4>2. dump[x].epoch \in 0 .. MaxEpoch /\ files.tmp \in [0 .. MaxEpoch -> Files]
        BY DEF IInv, TypeOK, children
      <4>3. QED
        BY <2>3, <4>1, <4>2
    <3>2. QED
      BY <1>1, <1>2, <2>1, <2>3, <3>1 DEF IInv, FilesOK, Busy, Delta, mem
  <2>6. Ages' /\ PanicOK'
    BY <1>1, <1>2, <2>3 DEF IInv, Ages, PanicOK, Busy, mem
  <2>7. overtaken' \/ NoOlder(image, Base)
    <3>1. files.dbout.is = "absent" => NoOlder(image, Base)
      BY <1>3 DEF IInv, Ages, Base
    <3>2. QED
      BY <2>2, <3>1 DEF Base
  <2>8. Kept'
    <3>1. SUFFICES ASSUME ~ overtaken', files.panic.is # "whole"
                   PROVE  NoOlder(Applied(Base', Deltas'), saved)
      BY <1>1, <2>3 DEF Kept
    <3>2. Base' = image /\ Deltas' = Deltas
      BY <2>1, <2>3 DEF Base, Deltas
    <3>3. /\ Base \in Images /\ Deltas \in Seq(ObjectLists) /\ saved \in Images
          /\ Applied(Base, Deltas) \in Images /\ Applied(image, Deltas) \in Images
      BY <1>3, BaseType, DeltasType, AppliedType DEF IInv, TypeOK, children
    <3>4. NoOlder(Applied(image, Deltas), Applied(Base, Deltas))
      BY <1>3, <2>7, <3>1, <3>3, AppliedMonotone
    <3>5. NoOlder(Applied(Base, Deltas), saved)
      BY <2>2, <3>1 DEF IInv, Kept
    <3>6. QED
      BY <3>2, <3>3, <3>4, <3>5, NoOlderTransitive
  <2>9. WillBeKept'
    <3>1. SUFFICES ASSUME ~ overtaken', files.panic.is # "whole", NEW x \in Dumpers, dump'[x].at = "renamed"
                   PROVE  NoOlder(image, dump[x].image) \/ (~ Running /\ NoOlder(image, saved))
      BY <1>1, <1>2, <2>1, <2>3 DEF WillBeKept, Running
    <3>2. CASE x = d
      BY <1>3, <3>2, NoOlderReflexive
    <3>3. CASE x # d
      <4>1. dump[x].at = "renamed" /\ ~ overtaken
        BY <1>2, <2>2, <3>1, <3>3
      <4>2. /\ files.dbout.is = "whole"
            /\ \/ NoOlder(files.dbout.image, dump[x].image)
               \/ ~ Running /\ NoOlder(files.dbout.image, saved)
        BY <3>1, <4>1 DEF IInv, WillBeKept, Running
      <4>3. files.dbout.image \in Images /\ dump[x].image \in Images /\ saved \in Images
        BY <4>2, FileIs DEF IInv, TypeOK, children
      <4>4. NoOlder(image, files.dbout.image)
        BY <2>2, <3>1, <4>2
      <4>5. QED
        BY <1>3, <4>2, <4>3, <4>4, NoOlderTransitive
    <3>4. QED
      BY <3>2, <3>3
  <2>10. NotAhead'
    <3>1. \A o \in Objs : db[o] <= now /\ db[o] >= image[o]
      BY <1>3 DEF IInv, Ages, NoOlder
    <3>2. \A o \in Objs : image[o] \in Int /\ db[o] \in Int /\ now \in Int
      BY <1>3 DEF IInv, TypeOK, Images, children
    <3>3. \A o \in Objs : image[o] <= now
      BY <3>1, <3>2
    <3>4. QED
      BY <1>1, <2>1, <2>3, <3>3 DEF IInv, NotAhead, mem
  <2>11. StatesOK'
    <3>1. InPast'
      BY <1>1, <1>2 DEF IInv, StatesOK, InPast, Busy, mem, Running
    <3>2. Renamed'
      BY <1>2 DEF Renamed
    <3>3. dump'[d].at = "renamed" /\ files'.dbout = Whole(dump'[d].image)
      BY <1>2, <2>3
    <3>4. QED
      BY <3>1, <3>2, <3>3 DEF StatesOK, Exact, WillBeExact, Running
  <2>12. QED
    BY <1>4, <1>5, <2>4, <2>5, <2>6, <2>8, <2>9, <2>10, <2>11 DEF IInv
<1>8. QED
  BY <1>6, <1>7

(* The deltas are emptied: what they had is in the dump.                   *)
LEMMA DumpTruncateStep ==
    ASSUME IInv, NEW d \in Dumpers, DumpTruncate(d)
    PROVE  IInv'
<1> DEFINE image == dump[d].image
           to == IF d = "child" THEN "done" ELSE "idle"
           good == NoOlder(image, saved) /\ files.dbout = Whole(image)
<1>1. /\ dump[d].at = "renamed" /\ dump' = [dump EXCEPT ![d] = [Idle EXCEPT !.at = to]]
      /\ files' = [files EXCEPT !.deltas = << >>, !.torn = FALSE,
                                !.holed = server = "writing" /\ (files.holed \/ files.deltas # << >>)]
      /\ server' = IF d = "server" THEN "dead" ELSE server
      /\ UNCHANGED <<mem, epoch, past, cut, crashes>>
  BY DEF DumpTruncate, Goes, IInv, TypeOK
<1>0. /\ d = "server" => Childless
      /\ d # "server" => sigchld' \in BOOLEAN /\ UNCHANGED <<dumper_pid, resolver, missed>>
  BY DEF DumpTruncate
<1>2. \/ good /\ saved' = image /\ overtaken' = FALSE
      \/ ~ good /\ saved' = saved /\ overtaken' = (overtaken \/ ~ NoOlder(image, saved))
  BY DEF DumpTruncate
<1>3. /\ dump' \in [Dumpers -> [at : {"idle", "forked", "writing", "closed", "renamed", "done"},
                                epoch : 0 .. MaxEpoch, image : Images]]
      /\ dump'[d].at = to /\ \A x \in Dumpers : x # d => dump'[x] = dump[x]
  <2>1. Idle.image \in Images /\ 0 \in 0 .. MaxEpoch
    BY DumpsAssumption DEF Idle, Images
  <2>2. [Idle EXCEPT !.at = to] \in [at : {"idle", "forked", "writing", "closed", "renamed", "done"},
                                    epoch : 0 .. MaxEpoch, image : Images]
    BY <2>1 DEF Idle
  <2>3. [Idle EXCEPT !.at = to].at = to
    BY DEF Idle
  <2>4. QED
    BY <1>1, <2>2, <2>3 DEF IInv, TypeOK, children
<1>4. /\ files'.dbin = files.dbin /\ files'.dbout = files.dbout /\ files'.panic = files.panic
      /\ files'.deltas = << >> /\ files'.torn = FALSE /\ files'.holed \in BOOLEAN /\ files'.tmp = files.tmp
      /\ files' \in [tmp : [0 .. MaxEpoch -> Files], dbin : Files, dbout : Files, panic : Files,
                     deltas : Seq(ObjectLists), torn : BOOLEAN, holed : BOOLEAN]
  <2>1. << >> \in Seq(ObjectLists)
    OBVIOUS
  <2>2. QED
    BY <1>1, <2>1 DEF IInv, TypeOK, children
<1>5. /\ image \in Images /\ saved \in Images /\ saved' \in Images /\ db \in Images /\ Busy(d)
      /\ NoOlder(db, image) /\ NoOlder(db, saved) /\ NoOlder(db, saved') /\ NoOlder(saved', saved)
  <2>1. image \in Images /\ saved \in Images /\ db \in Images /\ Busy(d)
    BY <1>1 DEF IInv, TypeOK, Busy, children
  <2>2. NoOlder(db, image) /\ NoOlder(db, saved)
    BY <2>1 DEF IInv, Ages
  <2>3. QED
    BY <1>2, <2>1, <2>2, NoOlderReflexive
<1>6. TypeOK'
  <2>1. server = "shutdown" \/ d = "child"
    BY <1>1 DEF IInv, TypeOK, Dumpers
  <2>2. overtaken' \in BOOLEAN
    BY <1>2 DEF IInv, TypeOK
  <2>3. /\ {dumper_pid', sigchld', missed'} \subseteq BOOLEAN /\ resolver' \in {"up", "done"}
        /\ server' \in {"up", "writing"} /\ dump'["child"].at # "idle" => dumper_pid'
        /\ dumper_pid' => server' \notin {"forking", "dead"}
        /\ (dumper_pid' \/ server' = "forking") /\ dump'["child"].at = "idle" => missed'
    <3>1. dump["child"].at = "idle" => d # "child" /\ dump'["child"].at = "idle"
      BY <1>1, <1>3 DEF Dumpers
    <3>2. CASE d = "server"
      BY <1>0, <1>1, <3>2 DEF Childless
    <3>3. CASE d = "child"
      BY <1>0, <1>1, <1>3, <3>3 DEF IInv, TypeOK
    <3>4. QED
      BY <3>2, <3>3 DEF Dumpers
  <2>4. dump'["server"].at # "idle" => server' = "shutdown"
    BY <1>1, <1>3 DEF IInv, TypeOK, Dumpers
  <2>5. server' \in {"up", "forking", "writing", "shutdown", "panicking", "panicked", "dead"}
    BY <1>1 DEF IInv, TypeOK
  <2>6. QED
    BY <1>1, <1>3, <1>4, <1>5, <2>2, <2>3, <2>4, <2>5 DEF IInv, TypeOK, mem
<1>7. \A x \in Dumpers : dump'[x].at \notin {"idle", "done"} => x # d /\ dump'[x] = dump[x] /\ Busy(x)
  BY <1>3 DEF Busy
<1>8. Epochs' /\ FilesOK'
  <2>1. FilesOK'
    BY <1>4, <1>7 DEF IInv, FilesOK
  <2>2. Epochs'
    BY <1>1, <1>7 DEF IInv, Epochs, Busy, Dumpers
  <2>3. QED
    BY <2>1, <2>2
<1>9. Ages'
  BY <1>1, <1>4, <1>5, <1>7 DEF IInv, Ages, Busy, mem
<1>10. PanicOK'
  <2>1. d = "server" => server = "shutdown"
    BY <1>1 DEF IInv, TypeOK, children
  <2>2. QED
    BY <1>1, <1>4, <2>1 DEF IInv, PanicOK, mem
<1>11. FlagsOK'
  <2>1. SUFFICES ASSUME Running, NEW o \in Objs \ changed PROVE saved'[o] = db[o]
    BY <1>1 DEF FlagsOK, mem, Running
  <2>2. saved[o] = db[o]
    BY <1>1, <2>1 DEF IInv, FlagsOK, Running
  <2>3. saved'[o] >= saved[o] /\ db[o] >= saved'[o] /\ db[o] \in Int /\ saved'[o] \in Int
    BY <1>5 DEF NoOlder, Images
  <2>4. QED
    BY <2>2, <2>3
<1>12. Kept'
  <2>1. SUFFICES ASSUME ~ overtaken', files.panic.is # "whole" PROVE NoOlder(Base', saved')
    <3>1. Deltas' = << >> /\ Base' = Base
      BY <1>4 DEF Deltas, Base
    <3>2. Base \in Images
      BY BaseType DEF IInv
    <3>3. QED
      BY <1>4, <2>1, <3>1, <3>2, AppliedEmpty DEF Kept
  <2>2. CASE good
    BY <1>2, <1>4, <1>5, <2>2, FileKinds, NoOlderReflexive DEF Base
  <2>3. CASE ~ good
    <3>1. saved' = saved /\ ~ overtaken /\ NoOlder(image, saved)
      BY <1>2, <2>1, <2>3
    <3>2. /\ files.dbout.is = "whole"
          /\ NoOlder(files.dbout.image, image) \/ NoOlder(files.dbout.image, saved)
      BY <1>1, <2>1, <3>1 DEF IInv, WillBeKept, Running
    <3>3. files.dbout.image \in Images /\ Base' = files.dbout.image
      BY <1>4, <3>2, FileIs DEF IInv, TypeOK, Base, children
    <3>4. NoOlder(files.dbout.image, saved)
      BY <1>5, <3>1, <3>2, <3>3, NoOlderTransitive
    <3>5. QED
      BY <3>1, <3>3, <3>4
  <2>4. QED
    BY <2>2, <2>3
<1>13. WillBeKept'
  <2>1. SUFFICES ASSUME ~ overtaken', files.panic.is # "whole", NEW x \in Dumpers, dump'[x].at = "renamed"
                 PROVE  /\ files.dbout.is = "whole"
                        /\ \/ NoOlder(files.dbout.image, dump[x].image)
                           \/ ~ Running' /\ NoOlder(files.dbout.image, saved')
    BY <1>4, <1>7 DEF WillBeKept, Running
  <2>2. x # d /\ Busy(x) /\ dump[x].at = "renamed"
    BY <1>7, <2>1
  <2>3. "server" \in {x, d} /\ server = "shutdown" /\ ~ Running'
    BY <1>1, <2>2 DEF IInv, TypeOK, Dumpers, Running
  <2>4. CASE good
    BY <1>2, <1>5, <2>3, <2>4, FileKinds, NoOlderReflexive
  <2>5. CASE ~ good
    <3>1. saved' = saved /\ ~ overtaken
      BY <1>2, <2>1, <2>5
    <3>2. QED
      BY <2>1, <2>2, <2>3, <3>1 DEF IInv, WillBeKept, Running
  <2>6. QED
    BY <2>4, <2>5
<1>14. NotAhead'
  BY <1>1, <1>4 DEF IInv, NotAhead, mem
<1>15. StatesOK'
  <2>1. InPast'
    BY <1>1, <1>2, <1>5, <1>7 DEF IInv, StatesOK, InPast, Busy, mem, Running
  <2>2. Base' = Base /\ Base \in Images /\ Deltas' = << >>
    BY <1>4, BaseType DEF Base, Deltas, IInv
  <2>3. Applied(Base', Deltas') = Base
    BY <2>2, AppliedEmpty
  <2>4. ASSUME ~ Loose'
        PROVE  \/ Base = saved'
               \/ \E x \in Dumpers : dump'[x].at = "renamed" /\ files'.dbout = Whole(dump'[x].image)
    <3>1. CASE good
      BY <1>2, <1>5, <3>1, FileKinds DEF Base
    <3>2. CASE ~ good
      <4>1. saved' = saved /\ ~ Loose /\ NoOlder(image, saved) /\ Renamed
        BY <1>1, <1>2, <1>4, <2>4, <3>2 DEF Loose, Renamed
      <4>2. CASE Base = saved
        BY <4>1, <4>2
      <4>3. CASE Base # saved
        <5>1. PICK x \in Dumpers : dump[x].at = "renamed" /\ files.dbout = Whole(dump[x].image)
          BY <4>1, <4>3 DEF IInv, StatesOK, WillBeExact, Running
        <5>2. x # d
          BY <3>2, <4>1, <5>1
        <5>3. QED
          BY <1>3, <1>4, <5>1, <5>2
      <4>4. QED
        BY <4>2, <4>3
    <3>3. QED
      BY <3>1, <3>2
  <2>5. Exact'
    BY <2>2, <2>3, <2>4 DEF Exact, Renamed
  <2>6. Renamed' => ~ Running'
    BY <1>1, <1>3 DEF IInv, TypeOK, Renamed, Dumpers, Running
  <2>7. WillBeExact'
    BY <1>4, <2>2, <2>4, <2>6 DEF WillBeExact, Running
  <2>8. QED
    BY <2>1, <2>5, <2>7 DEF StatesOK, Running
<1>16. QED
  BY <1>6, <1>8, <1>9, <1>10, <1>11, <1>12, <1>13, <1>14, <1>15 DEF IInv

-----------------------------------------------------------------------------
(* Processes end. *)

(* A dump that is over is out of the way.                                  *)
LEMMA DumpEnds ==
    ASSUME IInv, NEW S \in SUBSET Dumpers, NEW at \in {"idle", "done"},
           dump' = [d \in Dumpers |-> IF d \in S THEN [Idle EXCEPT !.at = at] ELSE dump[d]]
    PROVE  /\ dump' \in [Dumpers -> [at : {"idle", "forked", "writing", "closed", "renamed", "done"},
                                     epoch : 0 .. MaxEpoch, image : Images]]
           /\ \A d \in S : dump'[d].at = at
           /\ \A d \in Dumpers \ S : dump'[d] = dump[d]
           /\ \A d \in Dumpers : dump'[d].at \notin {"idle", "done"} =>
                  dump'[d] = dump[d] /\ Busy(d)
<1>1. Idle.image \in Images /\ 0 \in 0 .. MaxEpoch
  BY DumpsAssumption DEF Idle, Images
<1>2. [Idle EXCEPT !.at = at] \in [at : {"idle", "forked", "writing", "closed", "renamed", "done"},
                                  epoch : 0 .. MaxEpoch, image : Images]
  BY <1>1 DEF Idle
<1>3. [Idle EXCEPT !.at = at].at = at
  BY DEF Idle
<1>4. QED
  BY <1>2, <1>3 DEF IInv, TypeOK, Busy, children

(* The child is gone; nothing else has changed but what the server knows   *)
(* of it.                                                                  *)
LEMMA ChildEnds ==
    ASSUME IInv, NEW at \in {"idle", "done"},
           dump' = [dump EXCEPT !["child"] = [Idle EXCEPT !.at = at]],
           {dumper_pid', sigchld', missed'} \subseteq BOOLEAN, resolver' \in {"up", "done"},
           server \in {"up", "writing"} /\ at # "idle" => dumper_pid',
           dumper_pid' => server \notin {"forking", "dead"},
           (dumper_pid' \/ server = "forking") /\ at = "idle" => missed',
           cut' \in BOOLEAN, crashes' \in 0 .. MaxCrashes,
           cut \/ dump["child"].at = "renamed" => cut',
           UNCHANGED <<mem, epoch, server, files, past, saved, overtaken>>
    PROVE  IInv'
<1>1. dump' = [d \in Dumpers |-> IF d \in {"child"} THEN [Idle EXCEPT !.at = at] ELSE dump[d]]
  BY DEF IInv, TypeOK, Dumpers
<1>2. /\ dump' \in [Dumpers -> [at : {"idle", "forked", "writing", "closed", "renamed", "done"},
                                epoch : 0 .. MaxEpoch, image : Images]]
      /\ dump'["child"].at = at /\ dump'["server"] = dump["server"]
      /\ \A d \in Dumpers : dump'[d].at \notin {"idle", "done"} => dump'[d] = dump[d] /\ Busy(d)
  BY <1>1, DumpEnds DEF Dumpers
<1>3. TypeOK'
  BY <1>2 DEF IInv, TypeOK, mem
<1>4. Epochs' /\ FilesOK' /\ Ages'
  BY <1>2 DEF IInv, Epochs, FilesOK, Ages, Busy, Dumpers, mem, Delta
<1>5. NotAhead' /\ PanicOK' /\ FlagsOK' /\ Kept' /\ WillBeKept'
  BY <1>2 DEF IInv, NotAhead, PanicOK, FlagsOK, Kept, WillBeKept, Base, Deltas, mem, Running
<1>6. StatesOK'
  <2>1. InPast'
    BY <1>2 DEF IInv, StatesOK, InPast, Busy, mem
  <2>2. Loose => Loose'
    BY DEF Loose
  <2>3. Loose' \/ \A d \in Dumpers : dump'[d].at = "renamed" <=> dump[d].at = "renamed"
    BY <1>2 DEF Loose, Dumpers
  <2>4. Exact' /\ WillBeExact'
    BY <1>2, <2>2, <2>3 DEF IInv, StatesOK, Exact, WillBeExact, Renamed, Base, Deltas, Running
  <2>5. QED
    BY <2>1, <2>4 DEF StatesOK
<1>7. QED
  BY <1>3, <1>4, <1>5, <1>6 DEF IInv

(* The server learns of it, or init does.                                  *)
LEMMA ReapDumperStep ==
    ASSUME IInv, ReapDumper \/ InitReaps
    PROVE  IInv'
<1>1. /\ dump["child"].at = "done" /\ dump' = [dump EXCEPT !["child"] = [Idle EXCEPT !.at = "idle"]]
      /\ UNCHANGED <<mem, epoch, server, files, ghosts>>
  BY DEF ReapDumper, InitReaps, Goes
<1>2. /\ {dumper_pid', sigchld', missed'} \subseteq BOOLEAN /\ resolver' \in {"up", "done"}
      /\ dumper_pid' => server \notin {"forking", "dead"}
      /\ dumper_pid' \/ server = "forking" => missed'
  <2>1. CASE ReapDumper
    BY <2>1 DEF ReapDumper, IInv, TypeOK
  <2>2. CASE InitReaps
    BY <2>2 DEF InitReaps, IInv, TypeOK, children
  <2>3. QED
    BY <2>1, <2>2
<1>3. UNCHANGED <<mem, epoch, server, files, past, saved, overtaken>> /\ cut' = cut
  BY <1>1 DEF ghosts
<1>4. cut' \in BOOLEAN /\ crashes' \in 0 .. MaxCrashes
  BY <1>1 DEF IInv, TypeOK, ghosts
<1>5. cut \/ dump["child"].at = "renamed" => cut'
  BY <1>1, <1>3
<1>6. QED
  BY <1>1, <1>2, <1>3, <1>4, <1>5, ChildEnds

(* The child dies at any step.                                             *)
LEMMA ChildDiesStep ==
    ASSUME IInv, ChildDies
    PROVE  IInv'
<1>1. /\ dump' = [dump EXCEPT !["child"] = [Idle EXCEPT !.at = "done"]] /\ Busy("child")
      /\ crashes < MaxCrashes /\ crashes' = crashes + 1 /\ cut' \in BOOLEAN
      /\ sigchld' \in BOOLEAN
      /\ UNCHANGED <<mem, epoch, server, dumper_pid, resolver, missed, files, past, saved, overtaken>>
  BY DEF ChildDies, Dies, Cut, Saving, Busy, IInv, TypeOK
<1>2. crashes' \in 0 .. MaxCrashes
  BY <1>1, DumpsAssumption DEF IInv, TypeOK
<1>3. /\ {dumper_pid', sigchld', missed'} \subseteq BOOLEAN /\ resolver' \in {"up", "done"}
      /\ server \in {"up", "writing"} => dumper_pid'
      /\ dumper_pid' => server \notin {"forking", "dead"}
  BY <1>1 DEF IInv, TypeOK, Busy
<1>4. cut \/ dump["child"].at = "renamed" => cut'
  BY DEF ChildDies, Cut
<1>5. QED
  BY <1>1, <1>2, <1>3, <1>4, ChildEnds

(* What happens to the resolver concerns no dump.                          *)
LEMMA ResolverStep ==
    ASSUME IInv, ReapResolver \/ ResolverDies
    PROVE  IInv'
<1>1. /\ UNCHANGED <<mem, epoch, server, dump, dumper_pid, files, ghosts>>
      /\ resolver' \in {"up", "done"} /\ sigchld' \in BOOLEAN /\ missed' \in BOOLEAN /\ (missed => missed')
  BY DEF ReapResolver, ResolverDies, IInv, TypeOK
<1>2. TypeOK'
  BY <1>1 DEF IInv, TypeOK, mem, ghosts
<1>3. Epochs' /\ FilesOK' /\ Ages' /\ NotAhead'
  BY <1>1 DEF IInv, Epochs, FilesOK, Ages, NotAhead, Busy, mem, ghosts, Delta
<1>4. PanicOK' /\ FlagsOK' /\ Kept' /\ WillBeKept'
  BY <1>1 DEF IInv, PanicOK, FlagsOK, Kept, WillBeKept, Base, Deltas, mem, ghosts, Running
<1>5. StatesOK'
  BY <1>1 DEF IInv, StatesOK, InPast, Exact, WillBeExact, Renamed, Loose, Busy, Base, Deltas, mem, ghosts, Running
<1>6. QED
  BY <1>2, <1>3, <1>4, <1>5 DEF IInv

(* The server dies; nothing happens to the files.                          *)
LEMMA CrashStep ==
    ASSUME IInv, NEW dead \in {{"server"}, Dumpers}, Crash(dead)
    PROVE  IInv'
<1>1. /\ server # "dead" /\ server' = "dead" /\ Childless
      /\ dump' = [d \in Dumpers |-> IF d \in dead THEN Idle ELSE dump[d]]
      /\ crashes < MaxCrashes /\ crashes' = crashes + 1 /\ cut' \in BOOLEAN
      /\ UNCHANGED <<mem, epoch, files, past, saved, overtaken>>
  BY DEF Crash, Dies, Cut, IInv, TypeOK
<1>2. [Idle EXCEPT !.at = "idle"] = Idle
  BY DEF Idle
<1>3. /\ dump' \in [Dumpers -> [at : {"idle", "forked", "writing", "closed", "renamed", "done"},
                                epoch : 0 .. MaxEpoch, image : Images]]
      /\ dump'["server"].at = "idle"
      /\ \A d \in Dumpers : dump'[d].at \notin {"idle", "done"} => dump'[d] = dump[d] /\ Busy(d)
  BY <1>1, <1>2, DumpEnds DEF Dumpers
<1>4. ~ Running'
  BY <1>1 DEF Running
<1>5. TypeOK'
  <2>1. crashes' \in 0 .. MaxCrashes
    BY <1>1, DumpsAssumption DEF IInv, TypeOK
  <2>2. QED
    BY <1>1, <1>3, <2>1 DEF IInv, TypeOK, mem, Childless
<1>6. Epochs' /\ Ages' /\ FilesOK' /\ NotAhead'
  BY <1>1, <1>3 DEF IInv, Epochs, Ages, FilesOK, NotAhead, Busy, Dumpers, mem
<1>7. PanicOK' /\ FlagsOK'
  BY <1>1, <1>4 DEF IInv, PanicOK, FlagsOK, mem
<1>8. Kept' /\ WillBeKept'
  BY <1>1, <1>3, <1>4 DEF IInv, Kept, WillBeKept, Base, Deltas
<1>9. StatesOK'
  <2>1. InPast'
    BY <1>1, <1>3 DEF IInv, StatesOK, InPast, Busy, mem
  <2>2. cut' = (cut \/ \E d \in dead : dump[d].at = "renamed")
    BY DEF Crash, Cut
  <2>3. Loose => Loose'
    BY <1>1, <2>2 DEF Loose
  <2>4. \A d \in Dumpers : dump'[d].at = IF d \in dead THEN "idle" ELSE dump[d].at
    BY <1>1 DEF Idle
  <2>5. \A d \in Dumpers \ dead : dump'[d] = dump[d]
    BY <1>1
  <2>6. Loose' \/ \A d \in Dumpers : dump'[d].at = "renamed" <=> dump[d].at = "renamed"
    BY <2>2, <2>4 DEF Loose
  <2>7. Base' = Base /\ Deltas' = Deltas
    BY <1>1 DEF Base, Deltas
  <2>8. Exact'
    BY <1>1, <2>3, <2>6, <2>7 DEF IInv, StatesOK, Exact, Renamed
  <2>9. WillBeExact'
    <3>1. SUFFICES ASSUME ~ Loose', Renamed'
                   PROVE  \/ \E d \in Dumpers : dump'[d].at = "renamed" /\ files'.dbout = Whole(dump'[d].image)
                          \/ ~ Running' /\ files'.deltas = << >> /\ Base' = saved'
      BY DEF WillBeExact
    <3>2. ~ Loose /\ Renamed
      BY <2>3, <2>6, <3>1 DEF Renamed
    <3>3. CASE \E d \in Dumpers : dump[d].at = "renamed" /\ files.dbout = Whole(dump[d].image)
      BY <1>1, <2>4, <2>5, <2>6, <3>1, <3>3
    <3>4. CASE ~ Running /\ files.deltas = << >> /\ Base = saved
      BY <1>1, <1>4, <2>7, <3>4
    <3>5. QED
      BY <3>2, <3>3, <3>4 DEF IInv, StatesOK, WillBeExact
  <2>10. QED
    BY <2>1, <2>8, <2>9 DEF StatesOK
<1>10. QED
  BY <1>5, <1>6, <1>7, <1>8, <1>9 DEF IInv

(* In what the script makes of the files nothing is still to come.         *)
LEMMA RestoredIsKnown ==
    ASSUME IInv, NEW o \in Objs
    PROVE  Restored[o] <= now
<1>1. CASE files.panic.is = "whole"
  BY <1>1 DEF IInv, PanicOK, Ages, Restored
<1>2. CASE files.panic.is # "whole"
  <2>1. Base[o] <= now
    <3>1. db[o] <= now /\ db[o] >= files.dbin.image[o]
      BY DEF IInv, Ages, NoOlder
    <3>2. db[o] \in Int /\ files.dbin.image[o] \in Int /\ now \in Int
      <4>1. files.dbin.image \in Images
        BY FileIs DEF IInv, TypeOK, FilesOK, children
      <4>2. QED
        BY <4>1 DEF IInv, TypeOK, Images, children
    <3>3. files.dbout.is # "absent" => files.dbout.is = "whole"
      BY FileIs DEF IInv, TypeOK, FilesOK, children
    <3>4. files.dbout.is = "whole" => files.dbout.image[o] <= now
      BY DEF IInv, NotAhead
    <3>5. QED
      BY <3>1, <3>2, <3>3, <3>4 DEF Base
  <2>2. CASE Holding(Deltas, o) = {}
    BY <1>2, <2>1, <2>2, FromDump DEF Restored
  <2>3. CASE Holding(Deltas, o) # {}
    <3>1. Deltas \in Seq(ObjectLists)
      BY DeltasType DEF IInv
    <3>2. PICK i \in Holding(Deltas, o) : Applied(Base, Deltas)[o] = Deltas[i][o]
      BY <2>3, <3>1, FromDelta
    <3>3. i \in 1 .. Len(Deltas) /\ o \in DOMAIN Deltas[i]
      BY DEF Holding
    <3>4. i \in 1 .. Len(files.deltas) /\ Deltas[i] = files.deltas[i]
      BY <3>3, DeltasAreThere DEF IInv
    <3>5. QED
      BY <1>2, <3>2, <3>3, <3>4 DEF IInv, NotAhead, Restored
  <2>4. QED
    BY <2>2, <2>3
<1>3. QED
  BY <1>1, <1>2

(* The panic file is begun,                                                *)
LEMMA PanicStep ==
    ASSUME IInv, Panic
    PROVE  IInv'
<1>1. /\ (Running \/ server = "shutdown") /\ server' = "panicking"
      /\ files' = [files EXCEPT !.panic = Part]
      /\ dump' = [dump EXCEPT !["server"] = Idle]
      /\ crashes < MaxCrashes /\ crashes' = crashes + 1 /\ cut' \in BOOLEAN
      /\ UNCHANGED <<mem, epoch, children, past, saved, overtaken>>
  BY DEF Panic, Dies, Cut, IInv, TypeOK, children
<1>2. dump' = [d \in Dumpers |-> IF d \in {"server"} THEN [Idle EXCEPT !.at = "idle"] ELSE dump[d]]
  BY <1>1 DEF IInv, TypeOK, Dumpers, Idle, children
<1>3. /\ dump' \in [Dumpers -> [at : {"idle", "forked", "writing", "closed", "renamed", "done"},
                                epoch : 0 .. MaxEpoch, image : Images]]
      /\ dump'["server"].at = "idle" /\ dump'["child"] = dump["child"]
      /\ \A d \in Dumpers : dump'[d].at \notin {"idle", "done"} => dump'[d] = dump[d] /\ Busy(d)
  BY <1>2, DumpEnds DEF Dumpers
<1>4. /\ files'.dbin = files.dbin /\ files'.dbout = files.dbout /\ files'.tmp = files.tmp
      /\ files'.deltas = files.deltas /\ files'.torn = files.torn /\ files'.holed = files.holed /\ files'.panic.is = "part"
      /\ files' \in [tmp : [0 .. MaxEpoch -> Files], dbin : Files, dbout : Files, panic : Files,
                     deltas : Seq(ObjectLists), torn : BOOLEAN, holed : BOOLEAN]
  BY <1>1, FileKinds DEF IInv, TypeOK, children
<1>5. TypeOK'
  <2>1. crashes' \in 0 .. MaxCrashes
    BY <1>1, DumpsAssumption DEF IInv, TypeOK, children
  <2>2. QED
    BY <1>1, <1>3, <1>4, <2>1 DEF IInv, TypeOK, mem, children
<1>6. Epochs' /\ FilesOK' /\ Ages' /\ NotAhead'
  BY <1>1, <1>3, <1>4 DEF IInv, Epochs, FilesOK, Ages, NotAhead, Busy, Dumpers, mem
<1>7. PanicOK' /\ FlagsOK'
  BY <1>1, <1>4 DEF PanicOK, FlagsOK, Running
<1>8. Kept' /\ WillBeKept'
  <2>1. files.panic.is # "whole"
    BY <1>1 DEF IInv, PanicOK, Running
  <2>2. QED
    BY <1>1, <1>3, <1>4, <2>1 DEF IInv, Kept, WillBeKept, Base, Deltas, Running
<1>9. StatesOK'
  <2>1. InPast'
    BY <1>1, <1>3 DEF IInv, StatesOK, InPast, Busy, mem, Running
  <2>2. files.panic.is # "whole" /\ cut' = (cut \/ dump["server"].at = "renamed")
    BY <1>1 DEF IInv, PanicOK, Panic, Cut, Running
  <2>3. Loose => Loose'
    BY <1>1, <2>2 DEF Loose
  <2>4. dump'["child"] = dump["child"]
    BY <1>2 DEF Dumpers
  <2>5. Loose' \/ \A d \in Dumpers : dump'[d].at = "renamed" <=> dump[d].at = "renamed"
    BY <1>3, <2>2, <2>4 DEF Loose, Dumpers
  <2>6. Exact' /\ WillBeExact'
    BY <1>1, <1>3, <1>4, <2>3, <2>4, <2>5
    DEF IInv, StatesOK, Exact, WillBeExact, Renamed, Base, Deltas, Dumpers, Running
  <2>7. QED
    BY <2>1, <2>6 DEF StatesOK, Running
<1>10. QED
  BY <1>5, <1>6, <1>7, <1>8, <1>9 DEF IInv

(* and complete: it has all there is,                                      *)
LEMMA PanicWrittenStep ==
    ASSUME IInv, PanicWritten
    PROVE  IInv'
<1>1. /\ server = "panicking" /\ server' = "panicked"
      /\ files' = [files EXCEPT !.panic = Whole(db)]
      /\ saved' = db
      /\ UNCHANGED <<mem, epoch, dump, children, past, overtaken, cut, crashes>>
  BY DEF PanicWritten
<1>2. /\ files'.dbin = files.dbin /\ files'.dbout = files.dbout /\ files'.tmp = files.tmp
      /\ files'.deltas = files.deltas /\ files'.torn = files.torn /\ files'.holed = files.holed
      /\ files'.panic.is = "whole" /\ files'.panic.image = db
      /\ files' \in [tmp : [0 .. MaxEpoch -> Files], dbin : Files, dbout : Files, panic : Files,
                     deltas : Seq(ObjectLists), torn : BOOLEAN, holed : BOOLEAN]
  BY <1>1, FileKinds DEF IInv, TypeOK, children
<1>3. TypeOK'
  BY <1>1, <1>2 DEF IInv, TypeOK, mem, children
<1>4. Epochs' /\ FilesOK' /\ Ages' /\ NotAhead'
  BY <1>1, <1>2, NoOlderReflexive DEF IInv, TypeOK, Epochs, FilesOK, Ages, NotAhead, Busy, mem, children
<1>5. PanicOK' /\ FlagsOK' /\ Kept' /\ WillBeKept'
  BY <1>1, <1>2 DEF PanicOK, FlagsOK, Kept, WillBeKept, mem, Running
<1>6. StatesOK'
  BY <1>1, <1>2 DEF IInv, StatesOK, InPast, Exact, WillBeExact, Renamed, Loose, Busy, mem, Running
<1>7. QED
  BY <1>3, <1>4, <1>5, <1>6 DEF IInv

(* so the deltas may go.                                                   *)
LEMMA PanicUnlinksStep ==
    ASSUME IInv, PanicUnlinks
    PROVE  IInv'
<1>1. /\ server = "panicked" /\ server' = "dead" /\ Childless
      /\ files' = [files EXCEPT !.deltas = << >>, !.torn = FALSE, !.holed = FALSE]
      /\ UNCHANGED <<mem, epoch, dump, ghosts>>
  BY DEF PanicUnlinks
<1>2. /\ files'.dbin = files.dbin /\ files'.dbout = files.dbout /\ files'.tmp = files.tmp
      /\ files'.panic = files.panic /\ files'.deltas = << >> /\ files'.torn = FALSE
      /\ files' \in [tmp : [0 .. MaxEpoch -> Files], dbin : Files, dbout : Files, panic : Files,
                     deltas : Seq(ObjectLists), torn : BOOLEAN, holed : BOOLEAN]
  <2>1. << >> \in Seq(ObjectLists)
    OBVIOUS
  <2>2. QED
    BY <1>1, <2>1 DEF IInv, TypeOK, children
<1>3. TypeOK'
  BY <1>1, <1>2 DEF IInv, TypeOK, mem, ghosts, Childless
<1>4. Epochs' /\ FilesOK' /\ Ages' /\ NotAhead'
  BY <1>1, <1>2 DEF IInv, Epochs, FilesOK, Ages, NotAhead, Busy, mem, ghosts
<1>5. PanicOK' /\ FlagsOK' /\ Kept' /\ WillBeKept'
  BY <1>1, <1>2 DEF IInv, PanicOK, FlagsOK, Kept, WillBeKept, mem, Running
<1>6. StatesOK'
  <2>1. files.panic.is = "whole"
    BY <1>1 DEF IInv, PanicOK
  <2>2. QED
    BY <1>1, <1>2, <2>1 DEF IInv, StatesOK, InPast, Exact, WillBeExact, Renamed, Loose, Busy, mem, ghosts, Running
<1>7. QED
  BY <1>3, <1>4, <1>5, <1>6 DEF IInv

(* The next server starts with nothing unsaved.                            *)
LEMMA RestartStep ==
    ASSUME IInv, Restart
    PROVE  IInv'
<1>1. /\ server = "dead" /\ dump["child"].at = "idle"
      /\ server' = "up" /\ epoch' = 0
      /\ db' = Restored /\ changed' = {}
      /\ files' = [files EXCEPT !.dbin = Whole(Restored), !.dbout = Absent,
                                !.panic = IF @.is = "whole" THEN Absent ELSE @,
                                !.deltas = << >>, !.torn = FALSE, !.holed = FALSE]
      /\ past' = {Restored} /\ saved' = Restored /\ overtaken' = FALSE /\ cut' = FALSE
      /\ UNCHANGED <<now, dump, children, crashes>>
  BY DEF Restart
<1>2. Restored \in Images /\ \A o \in Objs : Restored[o] <= now
  BY RestoredType, RestoredIsKnown
<1>3. /\ files'.dbin = Whole(Restored) /\ files'.dbout = Absent /\ files'.tmp = files.tmp
      /\ files'.panic.is # "whole" /\ files'.deltas = << >> /\ files'.torn = FALSE
      /\ files' \in [tmp : [0 .. MaxEpoch -> Files], dbin : Files, dbout : Files, panic : Files,
                     deltas : Seq(ObjectLists), torn : BOOLEAN, holed : BOOLEAN]
  <2>1. << >> \in Seq(ObjectLists)
    OBVIOUS
  <2>2. QED
    BY <1>1, <1>2, <2>1, FileKinds DEF IInv, TypeOK, children
<1>4. \A d \in Dumpers : ~ Busy(d) /\ dump[d].at = "idle"
  BY <1>1 DEF IInv, TypeOK, Busy, Dumpers, children
<1>5. TypeOK'
  <2>1. 0 \in 0 .. MaxEpoch
    BY DumpsAssumption
  <2>2. QED
    BY <1>1, <1>2, <1>3, <1>4, <2>1 DEF IInv, TypeOK, Dumpers, children
<1>6. Epochs' /\ FilesOK' /\ NotAhead' /\ PanicOK' /\ FlagsOK' /\ WillBeKept'
  BY <1>1, <1>2, <1>3, <1>4, FileKinds
  DEF Epochs, FilesOK, NotAhead, PanicOK, FlagsOK, WillBeKept, Busy, Dumpers, Running
<1>7. Ages'
  BY <1>1, <1>2, <1>3, <1>4, FileKinds, NoOlderReflexive DEF Ages, Busy
<1>8. Kept'
  <2>1. Base' = Restored /\ Deltas' = << >>
    BY <1>2, <1>3, FileKinds DEF Base, Deltas
  <2>2. QED
    BY <1>1, <1>2, <2>1, AppliedEmpty, NoOlderReflexive DEF Kept
<1>9. StatesOK'
  <2>1. Base' = Restored /\ Deltas' = << >>
    BY <1>2, <1>3, FileKinds DEF Base, Deltas
  <2>2. Applied(Base', Deltas') = saved'
    BY <1>1, <1>2, <2>1, AppliedEmpty
  <2>3. QED
    BY <1>1, <1>4, <2>2 DEF StatesOK, InPast, Exact, WillBeExact, Renamed, Loose, Busy, Running
<1>10. QED
  BY <1>5, <1>6, <1>7, <1>8, <1>9 DEF IInv

(* A step of nobody.                                                       *)
LEMMA StutterStep ==
    ASSUME IInv, UNCHANGED vars
    PROVE  IInv'
<1>1. TypeOK' /\ Epochs' /\ FilesOK' /\ Ages' /\ NotAhead'
  BY DEF IInv, TypeOK, Epochs, FilesOK, Ages, NotAhead, Busy, vars, mem, ghosts, children, Delta
<1>2. PanicOK' /\ FlagsOK' /\ Kept' /\ WillBeKept'
  BY DEF IInv, PanicOK, FlagsOK, Kept, WillBeKept, Base, Deltas, vars, mem, ghosts, Running
<1>3. StatesOK'
  BY DEF IInv, StatesOK, InPast, Exact, WillBeExact, Renamed, Loose, Busy, Base, Deltas, vars, mem, ghosts, Running
<1>4. QED
  BY <1>1, <1>2, <1>3 DEF IInv

-----------------------------------------------------------------------------

(* Every step keeps the invariant.                                         *)
LEMMA NextInv == IInv /\ [Next]_vars => IInv'
<1>1. SUFFICES ASSUME IInv, [Next]_vars PROVE IInv'
  OBVIOUS
<1>2. ASSUME NEW S \in SUBSET Objs \ {{}}, Change(S) PROVE IInv'
  BY <1>1, <1>2, ChangeStep
<1>3. ASSUME NEW d \in Dumpers, DumpStep(d) PROVE IInv'
  BY <1>1, <1>3, DumpOpenStep, DumpWriteStep, DumpRenameStep, DumpTruncateStep DEF DumpStep
<1>4. ASSUME NEW dead \in {{"server"}, Dumpers}, Crash(dead)
      PROVE  IInv'
  BY <1>1, <1>4, CrashStep
<1>5. CASE DeltasStart \/ DeltasPart \/ DeltasWritten \/ Fork \/ Forked \/ SkipDump \/ Shutdown
  BY <1>1, <1>5, DeltasStartStep, DeltasPartStep, DeltasWrittenStep, ForkStep, ForkedStep, SkipDumpStep, ShutdownStep
<1>6. CASE Reap \/ InitReaps \/ ChildDies \/ ResolverDies
  BY <1>1, <1>6, ReapDumperStep, ResolverStep, ChildDiesStep DEF Reap
<1>7. CASE Panic \/ PanicWritten \/ PanicUnlinks \/ Restart
  BY <1>1, <1>7, PanicStep, PanicWrittenStep, PanicUnlinksStep, RestartStep
<1>8. CASE UNCHANGED vars
  BY <1>1, <1>8, StutterStep
<1>9. QED
  BY <1>1, <1>2, <1>3, <1>4, <1>5, <1>6, <1>7, <1>8 DEF Next

-----------------------------------------------------------------------------
(* Whatever the server does and wherever it and its child die: the next    *)
(* server finds every object at least as it was when the last save was     *)
(* finished (game.c, game/restart.in), or overtaken says why not.          *)
THEOREM SavedStaysKept == Spec => [](TypeOK /\ SavedIsKept)
<1>1. IInv => TypeOK /\ SavedIsKept
  BY KeptIsEnough DEF IInv
<1>2. QED
  BY InitInv, NextInv, <1>1, PTL DEF Spec

\* What a process finds in the files and in memory has the types of TypeOK, wherever
\* the one before it died.
THEOREM TypesKept == Spec => []TypeOK
BY SavedStaysKept, PTL

(* And it finds a state that the database was in, and no mixture of two,   *)
(* except for overtaken, and between a rename and the end of the deltas.   *)
THEOREM RestoredStaysAState == Spec => []RestoredIsAState
BY InitInv, NextInv, ExactIsEnough, PTL DEF Spec
=============================================================================
