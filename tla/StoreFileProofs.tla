-------------------------- MODULE StoreFileProofs --------------------------
(***************************************************************************)
(* What holding the write guard across persist() buys the client store,    *)
(* for any number of changes and inodes.                                   *)
(***************************************************************************)
EXTENDS StoreFile, TLAPS

\* A request that was dropped had begun, and has given the guard back.
HolderWaits == /\ guard # None => req[guard].waited
               /\ \A c \in Changes : req[c].at = "new" => req[c].waited

TypeInv == TypeOK /\ HolderWaits

LEMMA ContentType ==
    /\ Empty \in Content /\ Torn \in Content
    /\ \A d \in SUBSET Changes : Whole(d) \in Content
    /\ Empty.form = "empty" /\ Torn.form = "torn"
    /\ \A d : Whole(d).form = "whole" /\ Whole(d).data = d
    /\ Empty.data = {} /\ Torn.data = {}
  BY DEF Empty, Torn, Whole, Content

Place == {"new", "open", "write", "rename", "reply", "over"}

\* What Move leaves of the requests.
Moved(c, place, fd, data) ==
    /\ req' \in [Changes -> Request]
    /\ req'[c].at = place /\ req'[c].fd = fd /\ req'[c].data = data
    /\ req'[c].waited = req[c].waited
    /\ \A g \in Changes \ {c} : req'[g] = req[g]

LEMMA MoveType ==
    ASSUME req \in [Changes -> Request], NEW c \in Changes, NEW place \in Place,
           NEW fd \in Inodes \cup {None}, NEW data \in SUBSET Changes,
           Move(c, place, fd, data)
    PROVE  Moved(c, place, fd, data)
  BY DEF Move, Moved, Place, Request

LEMMA AfterType ==
    ASSUME NEW c, NEW place \in Place
    PROVE  After(c, place) \in Place /\ (req[c].waited => After(c, place) = place)
  BY DEF After, Place

\* The parts of a request.
LEMMA RequestParts ==
    ASSUME req \in [Changes -> Request], NEW c \in Changes
    PROVE  /\ req[c].at \in Place /\ req[c].data \in SUBSET Changes
           /\ req[c].fd \in Inodes \cup {None} /\ req[c].waited \in BOOLEAN
  BY DEF Request, Place

\* What RequestDropped leaves of the requests: one forgets that it is waited for.
LEMMA DropType ==
    ASSUME req \in [Changes -> Request], NEW c \in Changes,
           req' = [req EXCEPT ![c].waited = FALSE]
    PROVE  /\ req' \in [Changes -> Request]
           /\ req'[c].at = req[c].at
           /\ \A g \in Changes \ {c} : req'[g] = req[g]
<1> DEFINE left == [req[c] EXCEPT !.waited = FALSE]
<1>1. left \in Request /\ left.at = req[c].at
  <2>1. req[c] \in Request
    OBVIOUS
  <2> QED
    BY <2>1 DEF Request
<1>2. req' = [req EXCEPT ![c] = left]
  OBVIOUS
<1> HIDE DEF left
<1> QED
  BY <1>1, <1>2

LEMMA TypeInit == Init => TypeInv
<1> SUFFICES ASSUME Init PROVE TypeInv
  OBVIOUS
<1>1. [i \in Inodes |-> Empty] \in [Inodes -> Content]
  BY ContentType
<1>2. \A c \in Changes :
        [at |-> "new", data |-> {}, fd |-> None, waited |-> TRUE] \in Request
  BY DEF Request
<1> QED
  BY <1>1, <1>2 DEF Init, TypeInv, TypeOK, HolderWaits

LEMMA TypeStep == TypeInv /\ [Next]_vars => TypeInv'
<1> SUFFICES ASSUME TypeInv, [Next]_vars PROVE TypeInv'
  OBVIOUS
<1> USE DEF TypeInv, TypeOK, HolderWaits, disk
<1>1. CASE Load
  BY <1>1 DEF Load, UnderWay, Content
<1>2. CASE Seed
  BY <1>2, ContentType DEF Seed, UnderWay
<1>3. CASE Seeded
  BY <1>3, ContentType DEF Seeded, UnderWay
<1>4. CASE Crash
  <2>2. \A c \in Changes :
           /\ req'[c] \in Request
           /\ req'[c].at = "new" => req'[c] = req[c]
    BY <1>4, RequestParts DEF Crash, Request, Place
  <2>3. req' \in [Changes -> Request]
    BY <1>4, <2>2 DEF Crash
  <2> QED
    BY <1>4, <2>2, <2>3 DEF Crash, UnderWay
<1>5. ASSUME NEW c \in Changes, Change(c) PROVE TypeInv'
  <2>1. Moved(c, "open", None, memory \cup {c})
    BY <1>5, MoveType DEF Change, Place
  <2>2. c \in UnderWay' /\ UnderWay \subseteq UnderWay'
    BY <1>5, <2>1 DEF UnderWay, Moved
  <2>3. guard' \in {c, None} /\ (guard' = c => req'[c].waited)
    BY <1>5, <2>1 DEF Change, Moved
  <2> QED
    BY <1>5, <2>1, <2>2, <2>3 DEF Change, Moved
<1>6. ASSUME NEW c \in Changes, OpenTmp(c) PROVE TypeInv'
  <2>1. PICK i \in Inodes : /\ tmp' = i
                            /\ content' = [content EXCEPT ![i] = Empty]
                            /\ Move(c, "write", i, req[c].data)
    BY <1>6 DEF OpenTmp
  <2>2. Moved(c, "write", i, req[c].data)
    BY <2>1, MoveType, RequestParts DEF Place
  <2>3. UnderWay' = UnderWay /\ \A g \in Changes : req'[g].waited = req[g].waited
    BY <1>6, <2>2 DEF OpenTmp, UnderWay, Moved
  <2>4. content' \in [Inodes -> Content]
    BY <2>1, ContentType
  <2> QED
    BY <1>6, <2>1, <2>2, <2>3, <2>4 DEF OpenTmp, Moved, UnderWay
<1>7. ASSUME NEW c \in Changes, WriteTmp(c) PROVE TypeInv'
  <2>1. content' \in [Inodes -> Content]
    <3>1. PICK new \in {Whole(req[c].data), Torn} :
             content' = [content EXCEPT ![req[c].fd] = new]
      BY <1>7 DEF WriteTmp
    <3>2. new \in Content
      BY <3>1, ContentType, RequestParts
    <3> QED
      BY <3>1, <3>2
  <2>2. Moved(c, After(c, "rename"), None, req[c].data)
    <3>1. After(c, "rename") \in Place
      BY AfterType DEF Place
    <3> QED
      BY <1>7, <3>1, MoveType, RequestParts DEF WriteTmp
  <2>3. \A g \in UnderWay : req[g].waited => g \in UnderWay' /\ req'[g].waited
    BY <1>7, <2>2, AfterType DEF UnderWay, Moved, Place
  <2>4. After(c, "rename") # "new"
    BY DEF After
  <2> QED
    BY <1>7, <2>1, <2>2, <2>3, <2>4 DEF WriteTmp, UnderWay, Moved
<1>8. ASSUME NEW c \in Changes, NEW ok \in BOOLEAN, Answer(c, ok),
             UNCHANGED <<server, memory, path, tmp, mishap>>,
             content' \in [Inodes -> Content]
      PROVE  TypeInv'
  <2>1. Moved(c, "over", None, {})
    BY <1>8, MoveType DEF Answer, Place
  <2>2. \A g \in UnderWay \ {c} : g \in UnderWay' /\ req'[g].waited = req[g].waited
    BY <2>1 DEF UnderWay, Moved
  <2>3. guard' = None \/ (guard' = guard /\ guard # c)
    BY <1>8 DEF Answer, Release
  <2>4. acked' \subseteq Changes /\ failed' \subseteq Changes
    BY <1>8 DEF Answer
  <2> QED
    BY <1>8, <2>1, <2>2, <2>3, <2>4 DEF Moved
<1>9. ASSUME NEW c \in Changes, WriteFails(c) PROVE TypeInv'
  <2>1. content' \in [Inodes -> Content]
    BY <1>9, ContentType DEF WriteFails
  <2> QED
    BY <1>8, <1>9, <2>1 DEF WriteFails
<1>10. ASSUME NEW c \in Changes, Rename(c) PROVE TypeInv'
  <2>1. Moved(c, After(c, "reply"), None, req[c].data)
    <3>1. After(c, "reply") \in Place
      BY AfterType DEF Place
    <3> QED
      BY <1>10, <3>1, MoveType, RequestParts DEF Rename
  <2>2. \A g \in UnderWay : req[g].waited => g \in UnderWay' /\ req'[g].waited
    BY <1>10, <2>1, AfterType DEF UnderWay, Moved, Place
  <2>3. After(c, "reply") # "new"
    BY DEF After
  <2> QED
    BY <1>10, <2>1, <2>2, <2>3 DEF Rename, UnderWay, Moved
<1>11. ASSUME NEW c \in Changes, RenameFails(c) \/ Reply(c) PROVE TypeInv'
  BY <1>8, <1>11 DEF RenameFails, Reply
<1>12. ASSUME NEW c \in Changes, RequestDropped(c) PROVE TypeInv'
  <2>1. /\ req' \in [Changes -> Request]
        /\ req'[c].at = req[c].at
        /\ \A g \in Changes \ {c} : req'[g] = req[g]
    <3>1. req' = [req EXCEPT ![c].waited = FALSE]
      BY <1>12 DEF RequestDropped
    <3> QED
      BY <3>1, DropType
  <2>2. UnderWay' = UnderWay
    BY <2>1 DEF UnderWay
  <2>3. guard' = None \/ (guard' = guard /\ guard # c)
    BY <1>12 DEF RequestDropped, Release
  <2> QED
    BY <1>12, <2>1, <2>2, <2>3 DEF RequestDropped, UnderWay
<1>13. CASE UNCHANGED vars
  BY <1>13 DEF vars, UnderWay
<1> QED
  BY <1>1, <1>2, <1>3, <1>4, <1>5, <1>6, <1>7, <1>9, <1>10, <1>11, <1>12, <1>13
     DEF Next, Persist

\* Every variable keeps its type and a guard is held only by a request that
\* still runs, with or without the guard across persist().
THEOREM StoreTypeCorrect == Spec => []TypeOK
<1>1. TypeInv => TypeOK
  BY DEF TypeInv
<1> QED
  BY <1>1, TypeInit, TypeStep, PTL DEF Spec

-----------------------------------------------------------------------------
(* Changes that are made in turn have the file to themselves.              *)

\* No two changes are inside persist() at a time.
InTurn == mishap \/ \A c, d \in UnderWay : c = d

\* What the request under way is about to write is the store in memory, and its
\* temporary file is not the file itself.
OneWriter ==
    /\ \A c \in UnderWay : /\ req[c].waited /\ server = "up"
                           /\ req[c].data = memory /\ c \in memory
    /\ \A c \in Changes : req[c].at = "write" =>
          tmp # None /\ req[c].fd = tmp /\ content[tmp] = Empty
    /\ \A c \in Changes : req[c].at = "rename" =>
          tmp # None /\ content[tmp] = Whole(memory)
    /\ \A c \in Changes : req[c].at = "reply" => content[path].data = memory
    /\ tmp # None => tmp # path

\* The file is whole and holds what was acknowledged; memory is ahead of it by
\* failed changes and by the one under way.
FileFollows ==
    /\ server # "down" => path # None
    /\ path = None \/ server = "seeding" => acked = {}
    /\ path # None /\ server # "seeding" =>
          content[path].form = "whole" /\ acked \subseteq content[path].data
    /\ server = "up" => /\ content[path].data \subseteq memory
                       /\ memory \ content[path].data \subseteq failed \cup UnderWay

\* A change is not in memory before it is made, nor in the file before the rename.
Untouched == \A c \in Changes :
    /\ req[c].at = "new" => c \notin memory
    /\ req[c].at \in {"new", "open", "write", "rename"} => c \notin OnFile

Held == mishap \/ (OneWriter /\ FileFollows /\ Untouched)

LEMMA HeldInit == Init => Held
  BY DEF Init, Held, OneWriter, FileFollows, Untouched, OnFile, UnderWay

LEMMA MishapStays == TypeInv /\ mishap /\ [Next]_vars => mishap'
  BY DEF Next, vars, Persist, Load, Seed, Seeded, Crash, Change, OpenTmp, WriteTmp,
         WriteFails, Answer, Rename, RenameFails, Reply, RequestDropped, TypeInv, TypeOK

LEMMA FileStep ==
    ASSUME TypeInv, OneWriter, FileFollows, [Next]_vars, ~mishap, ~mishap', InTurn, InTurn'
    PROVE  OneWriter' /\ FileFollows'
<1> USE DEF TypeInv, TypeOK, disk
<1>0. \A c \in UnderWay : UnderWay = {c}
  BY DEF InTurn
<1>1. CASE Load
  BY <1>1, NoneAssumption DEF Load, OneWriter, FileFollows, UnderWay, Request
<1>2. CASE Seed
  BY <1>2, NoneAssumption DEF Seed, OneWriter, FileFollows, UnderWay, InUse
<1>3. CASE Seeded
  BY <1>3, ContentType, NoneAssumption DEF Seeded, OneWriter, FileFollows, UnderWay
<1>4. CASE Crash
  BY <1>4, NoneAssumption DEF Crash, OneWriter, FileFollows, UnderWay
<1>5. ASSUME NEW c \in Changes, Change(c) PROVE OneWriter' /\ FileFollows'
  <2>1. Moved(c, "open", None, memory \cup {c})
    BY <1>5, MoveType DEF Change, Place
  <2>2. UnderWay = {} /\ UnderWay' = {c} /\ req[c].waited
    <3>1. c \notin UnderWay /\ c \in UnderWay' /\ UnderWay \subseteq UnderWay'
          /\ UnderWay' \subseteq UnderWay \cup {c}
      BY <1>5, <2>1 DEF Change, Moved, UnderWay
    <3>2. \A d \in UnderWay' : d = c
      BY <3>1 DEF InTurn
    <3> QED
      BY <1>5, <3>1, <3>2 DEF Change, HolderWaits
  <2>3. OneWriter'
    BY <1>5, <2>1, <2>2 DEF Change, Moved, OneWriter, UnderWay
  <2>4. FileFollows'
    BY <1>5, <2>2 DEF Change, FileFollows
  <2> QED
    BY <2>3, <2>4
<1>6. ASSUME NEW c \in Changes, OpenTmp(c) PROVE OneWriter' /\ FileFollows'
  <2>1. PICK i \in Inodes : /\ i \in IF tmp = None THEN Inodes \ InUse ELSE {tmp}
                            /\ tmp' = i
                            /\ content' = [content EXCEPT ![i] = Empty]
                            /\ Move(c, "write", i, req[c].data)
    BY <1>6 DEF OpenTmp
  <2>2. Moved(c, "write", i, req[c].data)
    BY <2>1, MoveType, RequestParts DEF Place
  <2>3. i # path /\ i # None
    BY <2>1, NoneAssumption DEF InUse, OneWriter
  <2>4. UnderWay = {c} /\ UnderWay' = {c}
    BY <1>6, <2>2, <1>0 DEF OpenTmp, UnderWay, Moved
  <2>5. OneWriter'
    BY <1>6, <2>1, <2>2, <2>3, <2>4 DEF OpenTmp, OneWriter, Moved, UnderWay
  <2>6. FileFollows'
    BY <1>6, <2>1, <2>3, <2>4 DEF OpenTmp, FileFollows
  <2> QED
    BY <2>5, <2>6
<1>7. ASSUME NEW c \in Changes, WriteTmp(c) PROVE OneWriter' /\ FileFollows'
  <2>1. c \in UnderWay /\ req[c].waited /\ req[c].data = memory
        /\ tmp # None /\ req[c].fd = tmp /\ content[tmp] = Empty /\ tmp # path
    BY <1>7 DEF WriteTmp, UnderWay, OneWriter
  <2>2. Moved(c, "rename", None, memory)
    <3>1. After(c, "rename") = "rename"
      BY <2>1 DEF After
    <3>2. Move(c, "rename", None, memory)
      BY <1>7, <2>1, <3>1 DEF WriteTmp
    <3>3. "rename" \in Place /\ None \in Inodes \cup {None} /\ memory \in SUBSET Changes
          /\ req \in [Changes -> Request]
      BY <2>1, RequestParts DEF Place
    <3> QED
      BY <3>2, <3>3, MoveType
  <2>3. content' = [content EXCEPT ![tmp] = Whole(memory)]
    BY <1>7, <2>1 DEF WriteTmp
  <2>4. UnderWay = {c} /\ UnderWay' = {c}
    BY <2>1, <2>2, <1>0 DEF UnderWay, Moved
  <2>5. OneWriter'
    <3>1. \A g \in Changes : req'[g].at \notin {"write", "reply"}
      BY <2>2, <2>4 DEF Moved, UnderWay
    <3>2. \A g \in UnderWay' : req'[g].waited /\ server' = "up"
                               /\ req'[g].data = memory' /\ g \in memory'
      BY <1>7, <2>1, <2>2, <2>4 DEF WriteTmp, OneWriter, Moved
    <3>3. tmp' # None /\ tmp' # path' /\ content'[tmp'] = Whole(memory')
      BY <1>7, <2>1, <2>3 DEF WriteTmp
    <3> QED
      BY <3>1, <3>2, <3>3 DEF OneWriter
  <2>6. FileFollows'
    BY <1>7, <2>1, <2>3, <2>4 DEF WriteTmp, FileFollows
  <2> QED
    BY <2>5, <2>6
<1>8. ASSUME NEW c \in Changes, WriteFails(c) \/ RenameFails(c)
      PROVE  OneWriter' /\ FileFollows'
  <2>1. UnderWay = {c} /\ req[c].waited
    BY <1>0, <1>8 DEF WriteFails, RenameFails, UnderWay, OneWriter
  <2>2. Answer(c, FALSE) /\ UNCHANGED <<server, memory, path, tmp>>
    BY <1>8 DEF WriteFails, RenameFails
  <2>3. Moved(c, "over", None, {})
    BY <2>2, MoveType DEF Answer, Place
  <2>4. UnderWay' = {} /\ failed' = failed \cup {c} /\ acked' = acked
    BY <2>1, <2>2, <2>3 DEF Answer, UnderWay, Moved
  <2>5. path # None => content'[path] = content[path]
    <3>1. CASE req[c].at = "write"
      <4>1. req[c].fd = tmp /\ tmp # None /\ tmp # path
        BY <3>1 DEF OneWriter
      <4> QED
        BY <1>8, <3>1, <4>1, NoneAssumption DEF WriteFails, RenameFails
    <3>2. CASE req[c].at # "write"
      BY <1>8, <3>2 DEF WriteFails, RenameFails
    <3> QED
      BY <3>1, <3>2
  <2>6. OneWriter'
    BY <2>1, <2>2, <2>3, <2>4 DEF OneWriter, Moved, UnderWay
  <2>7. FileFollows'
    BY <2>1, <2>2, <2>4, <2>5 DEF FileFollows
  <2> QED
    BY <2>6, <2>7
<1>9. ASSUME NEW c \in Changes, Rename(c) PROVE OneWriter' /\ FileFollows'
  <2>1. c \in UnderWay /\ req[c].waited /\ req[c].data = memory /\ server = "up"
        /\ tmp # None /\ content[tmp] = Whole(memory)
    BY <1>9 DEF Rename, UnderWay, OneWriter
  <2>2. Moved(c, "reply", None, memory)
    <3>1. After(c, "reply") = "reply"
      BY <2>1 DEF After
    <3> QED
      BY <1>9, <2>1, <3>1, MoveType, RequestParts DEF Rename, Place
  <2>3. content[tmp].form = "whole" /\ content[tmp].data = memory
    BY <2>1, ContentType
  <2>4. UnderWay = {c} /\ UnderWay' = {c}
    BY <2>1, <2>2, <1>0 DEF UnderWay, Moved
  <2>5. OneWriter'
    <3>1. \A g \in Changes : req'[g].at \notin {"write", "rename"}
          /\ (req'[g].at = "reply" => g = c)
      BY <2>2, <2>4 DEF Moved, UnderWay
    <3>2. \A g \in UnderWay' : req'[g].waited /\ server' = "up"
                               /\ req'[g].data = memory' /\ g \in memory'
      BY <1>9, <2>1, <2>2, <2>4 DEF Rename, OneWriter, Moved
    <3>3. tmp' = None /\ content'[path'].data = memory'
      BY <1>9, <2>3 DEF Rename
    <3> QED
      BY <3>1, <3>2, <3>3 DEF OneWriter
  <2>6. FileFollows'
    BY <1>9, <2>1, <2>3, <2>4 DEF Rename, FileFollows
  <2> QED
    BY <2>5, <2>6
<1>10. ASSUME NEW c \in Changes, Reply(c) PROVE OneWriter' /\ FileFollows'
  <2>1. UnderWay = {c} /\ req[c].waited /\ server = "up"
        /\ c \in memory /\ content[path].data = memory
    BY <1>0, <1>10 DEF Reply, UnderWay, OneWriter
  <2>2. Moved(c, "over", None, {})
    BY <1>10, MoveType DEF Reply, Answer, Place
  <2>3. UnderWay' = {} /\ acked' = acked \cup {c}
    BY <1>10, <2>1, <2>2 DEF Reply, Answer, UnderWay, Moved
  <2>4. OneWriter'
    BY <1>10, <2>1, <2>2, <2>3 DEF Reply, Answer, OneWriter, Moved, UnderWay
  <2>5. FileFollows'
    BY <1>10, <2>1, <2>3 DEF Reply, Answer, FileFollows
  <2> QED
    BY <2>4, <2>5
<1>11. ASSUME NEW c \in Changes, RequestDropped(c) PROVE OneWriter' /\ FileFollows'
  BY <1>11 DEF RequestDropped
<1>12. CASE UNCHANGED vars
  BY <1>12 DEF vars, OneWriter, FileFollows, UnderWay
<1> QED
  BY <1>1, <1>2, <1>3, <1>4, <1>5, <1>6, <1>7, <1>8, <1>9, <1>10, <1>11, <1>12
     DEF Next, Persist

Before == {"new", "open", "write", "rename"}

LEMMA ChangeMoves ==
    ASSUME TypeInv, NEW c \in Changes, Change(c)
    PROVE  Moved(c, "open", None, memory \cup {c}) /\ req[c].at = "new"
<1>1. req \in [Changes -> Request] /\ memory \cup {c} \in SUBSET Changes
  BY DEF TypeInv, TypeOK
<1>2. Move(c, "open", None, memory \cup {c}) /\ req[c].at = "new"
  BY DEF Change
<1>3. "open" \in Place /\ None \in Inodes \cup {None}
  BY DEF Place
<1> QED
  BY <1>1, <1>2, <1>3, MoveType

\* A request never goes back, and only Change takes it from "new".
LEMMA Onward ==
    ASSUME TypeInv, [Next]_vars, NEW d \in Changes
    PROVE  /\ req'[d].at = "new" => req[d].at = "new"
           /\ req'[d].at \in Before => req[d].at \in Before
<1> USE DEF TypeInv, TypeOK, Before
<1>1. CASE UNCHANGED req
  BY <1>1
<1>2. CASE Crash
  BY <1>2 DEF Crash
<1>3. ASSUME NEW c \in Changes, NEW place \in Place, NEW fd \in Inodes \cup {None},
             NEW data \in SUBSET Changes, Move(c, place, fd, data),
             place # "new", place \in Before => req[c].at \in Before
      PROVE  /\ req'[d].at = "new" => req[d].at = "new"
             /\ req'[d].at \in Before => req[d].at \in Before
  BY <1>3, MoveType DEF Moved
<1>4. ASSUME NEW c \in Changes, RequestDropped(c)
      PROVE  req'[d].at = req[d].at
  <2>1. req' = [req EXCEPT ![c].waited = FALSE]
    BY <1>4 DEF RequestDropped
  <2> QED
    BY <2>1, DropType
<1>5. ASSUME NEW c \in Changes, Change(c)
      PROVE  /\ req'[d].at = "new" => req[d].at = "new"
             /\ req'[d].at \in Before => req[d].at \in Before
  BY <1>5, ChangeMoves DEF Moved
<1>7. ASSUME NEW c \in Changes, OpenTmp(c)
      PROVE  /\ req'[d].at = "new" => req[d].at = "new"
             /\ req'[d].at \in Before => req[d].at \in Before
  <2>1. PICK i \in Inodes : Move(c, "write", i, req[c].data) /\ req[c].at = "open"
    BY <1>7 DEF OpenTmp
  <2> QED
    BY <2>1, <1>3, RequestParts DEF Place
<1>8. ASSUME NEW c \in Changes, WriteTmp(c) \/ Rename(c)
      PROVE  /\ req'[d].at = "new" => req[d].at = "new"
             /\ req'[d].at \in Before => req[d].at \in Before
  <2>1. req[c].at \in {"write", "rename"} /\ req[c].data \in SUBSET Changes
    BY <1>8, RequestParts DEF WriteTmp, Rename
  <2>2. ASSUME NEW next \in {"rename", "reply"}, Move(c, After(c, next), None, req[c].data)
        PROVE  /\ req'[d].at = "new" => req[d].at = "new"
               /\ req'[d].at \in Before => req[d].at \in Before
    <3>1. After(c, next) \in {"rename", "reply", "over"}
      BY DEF After
    <3> QED
      BY <2>1, <2>2, <3>1, <1>3 DEF Place
  <2> QED
    BY <1>8, <2>2 DEF WriteTmp, Rename
<1>9. ASSUME NEW c \in Changes, WriteFails(c) \/ RenameFails(c) \/ Reply(c)
      PROVE  /\ req'[d].at = "new" => req[d].at = "new"
             /\ req'[d].at \in Before => req[d].at \in Before
  <2>1. Move(c, "over", None, {})
    BY <1>9 DEF WriteFails, RenameFails, Reply, Answer
  <2> QED
    BY <2>1, <1>3 DEF Place
<1> QED
  BY <1>1, <1>2, <1>4, <1>5, <1>7, <1>8, <1>9
     DEF Next, Persist, Load, Seed, Seeded, vars

\* The file changes by a rename only, which brings it level with memory.
LEMMA FileChanges ==
    ASSUME TypeInv, OneWriter, FileFollows, [Next]_vars, ~mishap'
    PROVE  OnFile' = OnFile \/ \E c \in Changes : Rename(c) /\ OnFile' = memory
<1> USE NoneAssumption DEF TypeInv, TypeOK, OnFile, disk
<1>1. CASE UNCHANGED <<server, path, content>>
  BY <1>1
<1>2. CASE Load
  BY <1>2 DEF Load
<1>3. CASE Seed
  BY <1>3 DEF Seed
<1>4. CASE Seeded
  BY <1>4, ContentType DEF Seeded
<1>5. CASE Crash
  BY <1>5 DEF Crash
<1>6. ASSUME NEW c \in Changes, OpenTmp(c) PROVE OnFile' = OnFile
  <2>1. PICK i \in Inodes : /\ i \in IF tmp = None THEN Inodes \ InUse ELSE {tmp}
                            /\ content' = [content EXCEPT ![i] = Empty]
    BY <1>6 DEF OpenTmp
  <2>2. i # path
    BY <2>1 DEF InUse, OneWriter
  <2> QED
    BY <1>6, <2>1, <2>2 DEF OpenTmp
<1>7. ASSUME NEW c \in Changes, WriteTmp(c) \/ WriteFails(c) PROVE OnFile' = OnFile
  <2>1. UNCHANGED <<server, path>>
    BY <1>7 DEF WriteTmp, WriteFails
  <2>2. path # None => content'[path] = content[path]
    <3>1. req[c].at = "write" => req[c].fd # path
      BY DEF OneWriter
    <3> QED
      BY <1>7, <3>1 DEF WriteTmp, WriteFails
  <2> QED
    BY <2>1, <2>2
<1>8. ASSUME NEW c \in Changes, Rename(c) PROVE OnFile' = memory
  BY <1>8, ContentType DEF Rename, OneWriter, UnderWay
<1> QED
  BY <1>1, <1>2, <1>3, <1>4, <1>5, <1>6, <1>7, <1>8
     DEF Next, Persist, Change, RenameFails, Reply, RequestDropped, vars

\* Memory gains the change that begins, or what the file holds.
LEMMA MemoryChanges ==
    ASSUME TypeInv, [Next]_vars
    PROVE  \/ memory' \subseteq memory
           \/ server = "down" /\ memory' = OnFile
           \/ \E c \in Changes : req'[c].at # "new" /\ memory' = memory \cup {c}
<1>1. ASSUME NEW c \in Changes, Change(c)
      PROVE  req'[c].at # "new" /\ memory' = memory \cup {c}
  BY <1>1, ChangeMoves DEF Change, Moved
<1> QED
  BY <1>1 DEF Next, Persist, Load, Seed, Seeded, Crash, OpenTmp, WriteTmp, WriteFails,
              Rename, RenameFails, Reply, RequestDropped, OnFile, vars

LEMMA UntouchedStep ==
    ASSUME TypeInv, OneWriter, FileFollows, Untouched, [Next]_vars, ~mishap', InTurn, ~mishap
    PROVE  Untouched'
<1> SUFFICES ASSUME NEW d \in Changes
             PROVE  /\ req'[d].at = "new" => d \notin memory'
                    /\ req'[d].at \in Before => d \notin OnFile'
  BY DEF Untouched, Before
<1>1. /\ req[d].at = "new" => d \notin memory
      /\ req[d].at \in Before => d \notin OnFile
  BY DEF Untouched, Before
<1>2. req'[d].at = "new" => d \notin memory'
  BY <1>1, Onward, MemoryChanges DEF Before
<1>3. ASSUME NEW c \in Changes, Rename(c), OnFile' = memory, req'[d].at \in Before
      PROVE  d \notin OnFile'
  <2>1. CASE req[d].at = "new"
    BY <1>1, <1>3, <2>1
  <2>2. CASE req[d].at # "new"
    <3>1. c \in UnderWay /\ d \in UnderWay
      BY <1>3, <2>2, Onward DEF Rename, UnderWay, Before
    <3>2. d = c
      BY <3>1 DEF InTurn
    <3>3. Moved(c, "reply", None, req[c].data)
      <4>1. After(c, "reply") = "reply"
        BY <3>1 DEF After, OneWriter
      <4> QED
        BY <1>3, <4>1, MoveType, RequestParts DEF Rename, Place, TypeInv, TypeOK
    <3> QED
      BY <1>3, <3>2, <3>3 DEF Moved, Before
  <2> QED
    BY <2>1, <2>2
<1> QED
  BY <1>1, <1>2, <1>3, Onward, FileChanges

LEMMA HeldStep == TypeInv /\ Held /\ InTurn /\ InTurn' /\ [Next]_vars => Held'
  BY FileStep, UntouchedStep, MishapStays DEF Held

LEMMA HeldInTurn == Spec /\ []InTurn => [](TypeInv /\ Held)
<1>1. Init => TypeInv /\ Held
  BY TypeInit, HeldInit
<1>2. TypeInv /\ Held /\ InTurn /\ InTurn' /\ [Next]_vars => (TypeInv /\ Held)'
  BY TypeStep, HeldStep
<1> QED
  BY <1>1, <1>2, PTL DEF Spec

\* With the guard, changes are made in turn: whoever is inside persist() holds it.
Guarding == mishap \/ \A c \in UnderWay : guard = c

LEMMA GuardingStep == GuardHeld /\ TypeInv /\ Guarding /\ [Next]_vars => Guarding'
<1> SUFFICES ASSUME GuardHeld, TypeInv, Guarding, [Next]_vars, ~mishap'
             PROVE  \A c \in UnderWay' : guard' = c
  BY DEF Guarding
<1> SUFFICES ASSUME NEW d \in UnderWay' PROVE guard' = d
  OBVIOUS
<1>1. ~mishap
  BY MishapStays
<1>2. \A c \in UnderWay : guard = c
  BY <1>1 DEF Guarding
<1> USE DEF TypeInv, TypeOK
<1>3. CASE UNCHANGED <<req, guard>>
  BY <1>2, <1>3 DEF UnderWay
<1>4. CASE Crash
  BY <1>4 DEF Crash, UnderWay
<1>5. ASSUME NEW c \in Changes, Change(c) PROVE guard' = d
  <2>1. Moved(c, "open", None, memory \cup {c})
    BY <1>5, ChangeMoves
  <2>2. UnderWay = {} /\ guard' = c
    BY <1>2, <1>5, NoneAssumption DEF Change, UnderWay
  <2> QED
    BY <2>1, <2>2 DEF Moved, UnderWay
<1>6. ASSUME NEW c \in Changes, NEW place \in Place, NEW fd \in Inodes \cup {None},
             NEW data \in SUBSET Changes, Move(c, place, fd, data), c \in UnderWay,
             UNCHANGED guard
      PROVE  guard' = d
  <2>1. Moved(c, place, fd, data)
    BY <1>6, MoveType
  <2> HIDE DEF TypeInv, TypeOK
  <2>2. d \in UnderWay
    <3>1. d \in Changes /\ req'[d].at \notin {"new", "over"}
      BY DEF UnderWay
    <3>2. d # c => req'[d] = req[d]
      BY <2>1, <3>1 DEF Moved
    <3> QED
      BY <1>6, <3>1, <3>2 DEF UnderWay
  <2> QED
    BY <1>2, <1>6, <2>2
<1>7. ASSUME NEW c \in Changes, NEW ok \in BOOLEAN, Answer(c, ok), c \in UnderWay
      PROVE  FALSE
  <2>1. Moved(c, "over", None, {})
    BY <1>7, MoveType DEF Answer, Place
  <2> QED
    BY <1>2, <1>7, <2>1 DEF Moved, UnderWay
<1>8. ASSUME NEW c \in Changes, OpenTmp(c) PROVE guard' = d
  <2>1. PICK i \in Inodes : Move(c, "write", i, req[c].data)
    BY <1>8 DEF OpenTmp
  <2>2. c \in UnderWay /\ guard' = guard
    BY <1>8 DEF OpenTmp, UnderWay
  <2> QED
    BY <2>1, <2>2, <1>6, RequestParts DEF Place
<1>9. ASSUME NEW c \in Changes, WriteTmp(c) \/ Rename(c) PROVE guard' = d
  <2>1. c \in UnderWay /\ guard' = guard /\ req[c].data \in SUBSET Changes
    BY <1>9, RequestParts DEF WriteTmp, Rename, UnderWay
  <2>2. After(c, "rename") \in Place /\ After(c, "reply") \in Place
    BY DEF After, Place
  <2>3. Move(c, After(c, "rename"), None, req[c].data) \/ Move(c, After(c, "reply"), None, req[c].data)
    BY <1>9 DEF WriteTmp, Rename
  <2> QED
    BY <2>1, <2>2, <2>3, <1>6
<1>10. ASSUME NEW c \in Changes, WriteFails(c) \/ RenameFails(c) \/ Reply(c) PROVE FALSE
  <2>1. c \in UnderWay
    BY <1>10 DEF WriteFails, RenameFails, Reply, UnderWay
  <2> QED
    BY <1>10, <2>1, <1>7 DEF WriteFails, RenameFails, Reply
<1> QED
  BY <1>3, <1>4, <1>5, <1>8, <1>9, <1>10
     DEF Next, Persist, Load, Seed, Seeded, RequestDropped, vars

LEMMA GuardInTurn == GuardHeld => (Spec => []InTurn)
<1>1. Init => TypeInv /\ Guarding
  BY TypeInit DEF Init, Guarding, UnderWay
<1>2. GuardHeld /\ TypeInv /\ Guarding /\ [Next]_vars => (TypeInv /\ Guarding)'
  BY TypeStep, GuardingStep
<1>3. Guarding => InTurn
  BY DEF Guarding, InTurn
<1> SUFFICES ASSUME GuardHeld PROVE Spec => []InTurn
  OBVIOUS
<1> QED
  BY <1>1, <1>2, <1>3, PTL DEF Spec

LEMMA HeldAlways == GuardHeld => (Spec => [](TypeInv /\ Held))
  BY HeldInTurn, GuardInTurn, PTL

-----------------------------------------------------------------------------
(* The refinement: a step of the store is a step of DurableSet or none.    *)

\* The answer ends the only change under way.
LEMMA AnswerEnds ==
    ASSUME TypeInv, InTurn, ~mishap, NEW c \in UnderWay, NEW ok \in BOOLEAN, Answer(c, ok)
    PROVE  UnderWay' = {}
<1>1. c \in Changes /\ UnderWay = {c}
  BY DEF UnderWay, InTurn
<1>2. Moved(c, "over", None, {})
  BY <1>1, MoveType DEF Answer, Place, TypeInv, TypeOK
<1> QED
  BY <1>1, <1>2 DEF Moved, UnderWay

\* A request that goes on stays under way.
LEMMA GoesOn ==
    ASSUME TypeInv, NEW c \in UnderWay, NEW place \in Place \ {"new", "over"},
           NEW fd \in Inodes \cup {None}, Move(c, place, fd, req[c].data)
    PROVE  UnderWay' = UnderWay
<1>1. c \in Changes /\ Moved(c, place, fd, req[c].data)
  BY MoveType, RequestParts DEF UnderWay, TypeInv, TypeOK
<1> QED
  BY <1>1 DEF Moved, UnderWay

LEMMA DurableStep ==
    ASSUME TypeInv, OneWriter, FileFollows, Untouched, ~mishap, ~mishap', InTurn, InTurn',
           [Next]_vars
    PROVE  [Durable!Next]_(Durable!vars)
<1> DEFINE Memory == IF server = "up" THEN memory ELSE OnFile
<1> USE NoneAssumption DEF TypeInv, TypeOK
<1>1. CASE Load \/ Seed \/ Seeded
  <2>1. UNCHANGED <<UnderWay, acked, failed, mishap>>
    BY <1>1 DEF Load, Seed, Seeded, UnderWay, disk
  <2>2. OnFile' = OnFile
    BY <1>1, FileChanges DEF Load, Seed, Seeded, Rename
  <2>3. Memory' = Memory
    BY <1>1, <2>2 DEF Load, Seed, Seeded, OnFile, FileFollows
  <2> QED
    BY <2>1, <2>2, <2>3 DEF Durable!vars
<1>2. CASE Crash
  <2>1. UnderWay' = {} /\ server' = "down" /\ UNCHANGED <<path, content, acked, failed>>
    BY <1>2 DEF Crash, UnderWay, disk
  <2>2. OnFile' = OnFile
    BY <1>2, <2>1 DEF Crash, OnFile
  <2>3. mishap' = mishap
    BY <1>2 DEF Crash
  <2>4. Memory' = OnFile
    BY <2>1, <2>2
  <2>5. Durable!Crash
    BY <2>1, <2>2, <2>3, <2>4 DEF Durable!Crash
  <2> QED
    BY <2>5 DEF Durable!Next
<1>3. ASSUME NEW c \in Changes, Change(c) PROVE Durable!Next
  <2>1. Moved(c, "open", None, memory \cup {c}) /\ req[c].at = "new"
    BY <1>3, ChangeMoves
  <2>2. UnderWay = {} /\ UnderWay' = {c}
    <3>1. c \notin UnderWay /\ UnderWay' = UnderWay \cup {c}
      BY <2>1 DEF Moved, UnderWay
    <3> QED
      BY <3>1 DEF InTurn
  <2>3. c \notin memory /\ OnFile' = OnFile
    BY <1>3, <2>1 DEF Change, Untouched, OnFile, disk
  <2>4. Durable!Begin(c)
    BY <1>3, <2>2, <2>3 DEF Change, Durable!Begin
  <2> QED
    BY <2>4 DEF Durable!Next
<1>4. ASSUME NEW c \in Changes, OpenTmp(c) \/ WriteTmp(c) PROVE UNCHANGED Durable!vars
  <2>1. c \in UnderWay /\ req[c].waited
    BY <1>4 DEF OpenTmp, WriteTmp, UnderWay, OneWriter
  <2>2. UnderWay' = UnderWay
    <3>1. CASE OpenTmp(c)
      <4>1. PICK i \in Inodes : Move(c, "write", i, req[c].data)
        BY <3>1 DEF OpenTmp
      <4> QED
        BY <2>1, <4>1, GoesOn DEF Place
    <3>2. CASE WriteTmp(c)
      <4>1. Move(c, "rename", None, req[c].data)
        BY <2>1, <3>2 DEF WriteTmp, After
      <4> QED
        BY <2>1, <4>1, GoesOn DEF Place
    <3> QED
      BY <1>4, <3>1, <3>2
  <2>3. UNCHANGED <<server, memory, acked, failed, mishap, path>>
    BY <1>4 DEF OpenTmp, WriteTmp
  <2>4. OnFile' = OnFile
    <3>1. path # None => content'[path] = content[path]
      BY <1>4 DEF OpenTmp, WriteTmp, OneWriter, InUse
    <3> QED
      BY <2>3, <3>1 DEF OnFile
  <2> QED
    BY <2>2, <2>3, <2>4 DEF Durable!vars
<1>5. ASSUME NEW c \in Changes, WriteFails(c) \/ RenameFails(c) PROVE Durable!Next
  <2>1. c \in UnderWay /\ c \notin OnFile /\ req[c].waited
    BY <1>5 DEF WriteFails, RenameFails, UnderWay, Untouched, OneWriter
  <2>2. Answer(c, FALSE) /\ UNCHANGED <<server, memory, path, mishap>>
    BY <1>5 DEF WriteFails, RenameFails, disk
  <2>3. UnderWay' = {}
    BY <2>1, <2>2, AnswerEnds
  <2>4. OnFile' = OnFile
    <3>1. path # None => content'[path] = content[path]
      <4>1. req[c].at = "write" => req[c].fd # path
        BY DEF OneWriter
      <4> QED
        BY <1>5, <4>1 DEF WriteFails, RenameFails, disk
    <3> QED
      BY <2>2, <3>1 DEF OnFile
  <2>5. acked' = acked /\ failed' = failed \cup {c}
    BY <2>1, <2>2 DEF Answer
  <2>6. Durable!Fail(c)
    BY <2>1, <2>2, <2>3, <2>4, <2>5 DEF Durable!Fail
  <2> QED
    BY <2>6 DEF Durable!Next
<1>6. ASSUME NEW c \in Changes, Rename(c) PROVE Durable!Next
  <2>1. c \in UnderWay /\ req[c].waited /\ server = "up"
    BY <1>6 DEF Rename, UnderWay, OneWriter
  <2>2. UnderWay' = UnderWay
    <3>1. Move(c, "reply", None, req[c].data)
      BY <1>6, <2>1 DEF Rename, After
    <3> QED
      BY <2>1, <3>1, GoesOn DEF Place
  <2>3. OnFile' = memory
    BY <1>6, <2>1, ContentType DEF Rename, OneWriter, OnFile
  <2>4. Durable!Commit
    BY <1>6, <2>1, <2>2, <2>3 DEF Rename, Durable!Commit
  <2> QED
    BY <2>4 DEF Durable!Next
<1>7. ASSUME NEW c \in Changes, Reply(c) PROVE Durable!Next
  <2>1. c \in UnderWay /\ req[c].waited /\ server = "up" /\ c \in OnFile
    BY <1>7 DEF Reply, UnderWay, OneWriter, OnFile, FileFollows
  <2>2. UnderWay' = {}
    BY <1>7, <2>1, AnswerEnds DEF Reply
  <2>3. acked' = acked \cup {c} /\ failed' = failed /\ OnFile' = OnFile
    BY <1>7, <2>1 DEF Reply, Answer, OnFile, disk
  <2>4. Durable!Acknowledge(c)
    BY <1>7, <2>1, <2>2, <2>3 DEF Reply, Durable!Acknowledge
  <2> QED
    BY <2>4 DEF Durable!Next
<1>8. CASE UNCHANGED vars
  BY <1>8 DEF vars, disk, UnderWay, OnFile, Durable!vars
<1> QED
  BY <1>1, <1>2, <1>3, <1>4, <1>5, <1>6, <1>7, <1>8 DEF Next, Persist, RequestDropped

\* Whatever the store, changes made in turn are a DurableSet: this is what is left
\* of auth.json's promise, whose guard does not see to the turns (state.rs:526-533).
THEOREM TurnsAreDurable == Spec /\ []InTurn => DurableSpec
<1>1. Init => Durable!Init
  BY DEF Init, Durable!Init, OnFile, UnderWay
<1>2. TypeInv /\ Held /\ InTurn /\ InTurn' /\ [Next]_vars => [Durable!Next]_(Durable!vars)
  <2>1. CASE mishap'
    BY <2>1 DEF Durable!Next
  <2>2. CASE ~mishap'
    BY <2>2, DurableStep, MishapStays DEF Held
  <2> QED
    BY <2>1, <2>2
<1> QED
  BY <1>1, <1>2, HeldInTurn, PTL DEF Spec, DurableSpec, Durable!Spec

\* clients.json: holding the guard across persist() is enough for the turns, so
\* the client store is a DurableSet (state.rs:94-113, 145-159).
THEOREM ImplementsDurableSet == GuardHeld => (Spec => DurableSpec)
  BY TurnsAreDurable, GuardInTurn, PTL

\* What a DurableSet is good for: as long as it is not broken, what was
\* acknowledged is durable, and memory is ahead by failed changes and the open one.
Kept ==
    LET Memory == IF server = "up" THEN memory ELSE OnFile
    IN  mishap \/ /\ \A c, d \in UnderWay : c = d
                  /\ acked \subseteq OnFile
                  /\ OnFile \subseteq Memory
                  /\ Memory \ OnFile \subseteq failed \cup UnderWay

\* An acknowledged change is never lost again, whatever fails or crashes later,
\* by the abstract specification alone (state.rs:94-113).
THEOREM DurableSetKeeps == DurableSpec => []Kept
<1>1. Durable!Init => Kept
  BY DEF Durable!Init, Kept
<1>2. Kept /\ [Durable!Next]_(Durable!vars) => Kept'
  <2> DEFINE Memory == IF server = "up" THEN memory ELSE OnFile
  <2> SUFFICES ASSUME Kept, [Durable!Next]_(Durable!vars) PROVE Kept'
    OBVIOUS
  <2>1. CASE Durable!Commit \/ Durable!Crash
    BY <2>1 DEF Durable!Commit, Durable!Crash, Kept
  <2>2. ASSUME NEW c \in Changes, Durable!Begin(c) \/ Durable!Acknowledge(c) \/ Durable!Fail(c)
        PROVE  Kept'
    BY <2>2 DEF Durable!Begin, Durable!Acknowledge, Durable!Fail, Kept
  <2>3. CASE UNCHANGED Durable!vars
    BY <2>3 DEF Durable!vars, Kept
  <2>4. CASE mishap'
    BY <2>4 DEF Kept
  <2> QED
    BY <2>1, <2>2, <2>3, <2>4 DEF Durable!Next
<1> QED
  BY <1>1, <1>2, PTL DEF DurableSpec, Durable!Spec

\* auth.json: a password changed while no other change is under way is the one
\* in the file; only overlapping changes can leave another one there.
THEOREM PasswordsInTurn == Spec /\ []InTurn => []PasswordPersisted
<1>1. TypeInv /\ Held => PasswordPersisted
  <2> SUFFICES ASSUME TypeInv, Held, server = "up", UnderWay = {}, failed = {}, ~mishap
               PROVE  content[path] = Whole(memory)
    BY DEF PasswordPersisted
  <2>1. path # None /\ content[path].form = "whole" /\ content[path].data = memory
    BY DEF Held, FileFollows
  <2>2. content[path] \in Content
    BY <2>1 DEF TypeInv, TypeOK
  <2> QED
    BY <2>1, <2>2 DEF Content, Whole
<1> QED
  BY <1>1, HeldInTurn, PTL

\* clients.json: as long as no request is dropped inside persist(), no crash
\* and no failing write leaves a file that cannot be loaded.
THEOREM ClientsFileWhole == GuardHeld => (Spec => []DiskWhole)
<1>1. TypeInv /\ Held => DiskWhole
  BY DEF Held, FileFollows, DiskWhole
<1> QED
  BY <1>1, HeldAlways, PTL

\* clients.json: nor does it lose a change the administrator was told is done.
THEOREM ClientsFileDurable == GuardHeld => (Spec => []AcknowledgedSurvives)
<1>1. TypeInv /\ Held => AcknowledgedSurvives
  BY DEF Held, FileFollows, AcknowledgedSurvives
<1> QED
  BY <1>1, HeldAlways, PTL

\* clients.json: and at rest it differs from memory only by failed changes.
THEOREM ClientsFileCurrent == GuardHeld => (Spec => []DiskCurrent)
<1>1. TypeInv /\ Held => DiskCurrent
  BY DEF Held, FileFollows, DiskCurrent
<1> QED
  BY <1>1, HeldAlways, PTL

=============================================================================
