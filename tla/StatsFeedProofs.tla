--------------------------- MODULE StatsFeedProofs ---------------------------
(***************************************************************************)
(* Proofs about StatsFeed, for any number of dashboards, changes and       *)
(* waiting messages.                                                       *)
(*                                                                         *)
(* The figures a dashboard has shown, those that wait in its channel in    *)
(* their order, those of the newest message the sampler has built and      *)
(* those of now form one ascending line (Ascending); the sampler has       *)
(* overlooked a dashboard no more often than it has turned since its last  *)
(* look (Looking).                                                         *)
(***************************************************************************)
EXTENDS StatsFeed, TLAPS

Looking == missed <= sampler.idle

\* The statistics in s ascend, up to hi.
Rising(s, hi) ==
    /\ \A i \in DOMAIN s : s[i].kind = "stats" => s[i].shows <= hi
    /\ \A i, j \in DOMAIN s :
          i < j /\ s[i].kind = "stats" /\ s[j].kind = "stats" => s[i].shows <= s[j].shows

Above(s, lo) == \A i \in DOMAIN s : s[i].kind = "stats" => lo <= s[i].shows

Ascending ==
    /\ announce <= version
    /\ sampler.msg <= version
    /\ \A d \in Dashboards :
          /\ Rising(dash[d].inbox, sampler.msg)
          /\ d \in fed => /\ dash[d].at \in {"forward", "gone"}
                          /\ dash[d].view <= sampler.msg
                          /\ Above(dash[d].inbox, dash[d].view)

Inv == TypeOK /\ Looking /\ Ascending

DashRec == [at : {"new", "subscribed", "greeting", "forward", "gone"},
            inbox : Seq(Message), view : 0..MaxChanges]

-----------------------------------------------------------------------------
(* Channels.                                                               *)

LEMMA NoMessage ==
    ASSUME NEW hi, NEW lo
    PROVE  <<>> \in Seq(Message) /\ Rising(<<>>, hi) /\ Above(<<>>, lo)
BY DEF Rising, Above

LEMMA Appended ==
    ASSUME NEW s \in Seq(Message), NEW m \in Message, NEW hi \in Nat,
           Rising(s, hi), m.kind = "stats" => m.shows = hi
    PROVE  /\ Append(s, m) \in Seq(Message) /\ Rising(Append(s, m), hi)
           /\ \A lo \in Nat : Above(s, lo) /\ lo <= hi => Above(Append(s, m), lo)
<1> DEFINE a == Append(s, m)
<1>1. /\ a \in Seq(Message) /\ Len(s) \in Nat /\ DOMAIN s = 1..Len(s)
      /\ DOMAIN a = 1..(Len(s) + 1) /\ a[Len(s) + 1] = m
      /\ \A i \in 1..Len(s) : a[i] = s[i]
  OBVIOUS
<1> HIDE DEF a
<1>2. \A i \in DOMAIN a : i \in DOMAIN s \/ (i = Len(s) + 1 /\ a[i] = m)
  BY <1>1
<1>3. \A i \in DOMAIN a : a[i].kind = "stats" => a[i].shows <= hi
  BY <1>1, <1>2 DEF Rising
<1>4. ASSUME NEW i \in DOMAIN a, NEW j \in DOMAIN a, i < j,
             a[i].kind = "stats", a[j].kind = "stats"
      PROVE  a[i].shows <= a[j].shows
  <2>1. CASE j = Len(s) + 1
    BY <1>1, <1>3, <1>4, <2>1
  <2>2. CASE j \in DOMAIN s
    BY <1>1, <1>4, <2>2 DEF Rising
  <2> QED
    BY <1>2, <2>1, <2>2
<1>5. Rising(a, hi)
  BY <1>3, <1>4 DEF Rising
<1>6. ASSUME NEW lo \in Nat, Above(s, lo), lo <= hi PROVE Above(a, lo)
  BY <1>1, <1>2, <1>6 DEF Above
<1> QED
  BY <1>1, <1>5, <1>6 DEF a

LEMMA Taken ==
    ASSUME NEW s \in Seq(Message), s # <<>>, NEW hi \in Nat, Rising(s, hi)
    PROVE  /\ Tail(s) \in Seq(Message) /\ Rising(Tail(s), hi) /\ Head(s) \in Message
           /\ Head(s).kind = "stats" =>
                 Head(s).shows <= hi /\ Above(Tail(s), Head(s).shows)
           /\ \A lo : Above(s, lo) =>
                 /\ Above(Tail(s), lo)
                 /\ Head(s).kind = "stats" => lo <= Head(s).shows
<1> DEFINE r == Tail(s)
<1>1. /\ r \in Seq(Message) /\ Len(s) \in Nat \ {0} /\ DOMAIN s = 1..Len(s)
      /\ DOMAIN r = 1..(Len(s) - 1) /\ Head(s) = s[1] /\ Head(s) \in Message
      /\ \A i \in 1..(Len(s) - 1) : r[i] = s[i + 1]
  OBVIOUS
<1> HIDE DEF r
<1>2. 1 \in DOMAIN s /\ \A i \in DOMAIN r : i + 1 \in DOMAIN s /\ r[i] = s[i + 1] /\ 1 < i + 1
  BY <1>1
<1>3. Rising(r, hi)
  <2>1. \A i, j \in DOMAIN r : i < j => i + 1 < j + 1
    BY <1>1
  <2> QED
    BY <1>2, <2>1 DEF Rising
<1>4. s[1].kind = "stats" => s[1].shows <= hi /\ Above(r, s[1].shows)
  BY <1>2 DEF Rising, Above
<1>5. ASSUME NEW lo, Above(s, lo)
      PROVE  Above(r, lo) /\ (s[1].kind = "stats" => lo <= s[1].shows)
  BY <1>2, <1>5 DEF Above
<1> QED
  BY <1>1, <1>3, <1>4, <1>5 DEF r

\* A broadcast keeps every channel in order.
LEMMA BroadcastKeeps ==
    ASSUME Inv, NEW m \in Message, m.kind = "stats" => m.shows = sampler.msg, Broadcast(m)
    PROVE  /\ dash' \in [Dashboards -> DashRec] /\ senders' \subseteq Dashboards
           /\ \A d \in Dashboards :
                 /\ dash'[d].at = dash[d].at /\ dash'[d].view = dash[d].view
                 /\ Rising(dash'[d].inbox, sampler.msg)
                 /\ d \in fed => Above(dash'[d].inbox, dash[d].view)
<1>1. ASSUME NEW d \in Dashboards
      PROVE  /\ dash'[d] \in DashRec
             /\ dash'[d].at = dash[d].at /\ dash'[d].view = dash[d].view
             /\ Rising(dash'[d].inbox, sampler.msg)
             /\ d \in fed => Above(dash'[d].inbox, dash[d].view)
  <2> DEFINE s == dash[d].inbox
  <2>1. /\ dash[d] \in DashRec /\ s \in Seq(Message) /\ sampler.msg \in Nat /\ dash[d].view \in Nat
        /\ Rising(s, sampler.msg)
        /\ d \in fed => dash[d].view <= sampler.msg /\ Above(s, dash[d].view)
    BY DEF Inv, TypeOK, DashRec, Ascending
  <2>2. CASE dash'[d] = dash[d]
    BY <2>1, <2>2
  <2>3. CASE dash'[d] = [dash[d] EXCEPT !.inbox = Append(s, m)]
    <3>1. /\ Append(s, m) \in Seq(Message) /\ Rising(Append(s, m), sampler.msg)
          /\ d \in fed => Above(Append(s, m), dash[d].view)
      BY <2>1, Appended
    <3>2. /\ dash'[d].inbox = Append(s, m) /\ dash'[d] \in DashRec
          /\ dash'[d].at = dash[d].at /\ dash'[d].view = dash[d].view
      BY <2>1, <2>3, <3>1 DEF DashRec
    <3> QED
      BY <3>1, <3>2
  <2> QED
    BY <2>2, <2>3 DEF Broadcast
<1>2. dash' = [d \in Dashboards |-> dash'[d]]
  BY DEF Broadcast
<1> QED
  BY <1>1, <1>2 DEF Broadcast, LiveSenders, Inv, TypeOK

-----------------------------------------------------------------------------
(* The steps.                                                              *)

SamplerRec == [at : {"sleep", "build", "send"}, subs : BOOLEAN,
               idle : 0..IdleTicks, msg : 0..MaxChanges]

LEMMA InvInit == Init => Inv
<1> SUFFICES ASSUME Init PROVE Inv
  OBVIOUS
<1>1. dash \in [Dashboards -> DashRec] /\ \A d \in Dashboards : dash[d].inbox = <<>>
  BY NoMessage, FeedAssumption DEF Init, DashRec
<1>2. TypeOK /\ Looking
  BY <1>1, FeedAssumption DEF Init, TypeOK, DashRec, Looking
<1>3. Ascending
  BY <1>1, NoMessage DEF Init, Ascending
<1> QED
  BY <1>2, <1>3 DEF Inv

\* One dashboard becomes r, the others stay.
LEMMA OneDash ==
    ASSUME Inv, NEW d \in Dashboards, NEW r \in DashRec, dash' = [dash EXCEPT ![d] = r]
    PROVE  /\ dash' \in [Dashboards -> DashRec] /\ dash'[d] = r
           /\ \A e \in Dashboards \ {d} : dash'[e] = dash[e]
BY DEF Inv, TypeOK, DashRec

LEMMA TurnKeeps == ASSUME Inv, Turn PROVE Inv'
<1> DEFINE look == sampler.subs \/ sampler.idle >= IdleTicks
           subs == IF look THEN LiveSenders # {} ELSE sampler.subs
<1>0. sampler \in SamplerRec /\ IdleTicks \in Nat /\ missed \in Nat
  BY FeedAssumption DEF Inv, TypeOK, SamplerRec
<1>1. /\ sampler' = [sampler EXCEPT !.at = IF subs THEN "build" ELSE "sleep",
                                    !.subs = subs,
                                    !.idle = IF look THEN 0 ELSE sampler.idle + 1]
      /\ missed' = IF ~subs /\ LiveSenders # {} THEN missed + 1 ELSE 0
      /\ senders' = IF look THEN LiveSenders ELSE senders
      /\ UNCHANGED <<version, announce, dash, fed>>
  BY DEF Turn
<1>2. subs \in BOOLEAN /\ (look => missed' = 0)
  BY <1>0, <1>1 DEF SamplerRec
<1> HIDE DEF subs
<1>3. /\ sampler'.idle = (IF look THEN 0 ELSE sampler.idle + 1)
      /\ sampler'.msg = sampler.msg
      /\ missed' \in {0, missed + 1}
  BY <1>0, <1>1 DEF SamplerRec
<1>4. sampler'.idle \in 0..IdleTicks /\ missed' <= sampler'.idle /\ missed' \in Nat
  <2>1. CASE look
    BY <1>0, <1>2, <1>3, <2>1
  <2>2. CASE ~look
    BY <1>0, <1>3, <2>2 DEF Inv, Looking, SamplerRec
  <2> QED
    BY <2>1, <2>2
<1> HIDE DEF look
<1>5. sampler' \in SamplerRec
  BY <1>0, <1>1, <1>2, <1>3, <1>4 DEF SamplerRec
<1>6. TypeOK'
  BY <1>1, <1>4, <1>5 DEF Inv, TypeOK, SamplerRec, LiveSenders
<1>7. Ascending'
  BY <1>1, <1>3 DEF Inv, Ascending
<1> QED
  BY <1>4, <1>6, <1>7 DEF Inv, Looking

LEMMA BuildKeeps == ASSUME Inv, Build PROVE Inv'
<1>0. sampler \in SamplerRec /\ version \in 0..MaxChanges /\ MaxChanges \in Nat
  BY FeedAssumption DEF Inv, TypeOK, SamplerRec
<1>1. /\ sampler' \in SamplerRec /\ sampler'.msg = version /\ sampler'.idle = sampler.idle
      /\ UNCHANGED <<version, announce, senders, dash, fed, missed>>
  BY <1>0 DEF Build, SamplerRec
<1>2. TypeOK' /\ Looking'
  BY <1>1 DEF Inv, TypeOK, SamplerRec, Looking
<1>3. ASSUME NEW d \in Dashboards
      PROVE  /\ Rising(dash[d].inbox, version)
             /\ d \in fed => dash[d].view <= version
  <2>1. sampler.msg <= version /\ sampler.msg \in Nat /\ version \in Nat
        /\ dash[d].view \in Nat /\ dash[d].inbox \in Seq(Message)
    BY <1>0 DEF Inv, TypeOK, Ascending, SamplerRec
  <2>2. \A i \in DOMAIN dash[d].inbox : dash[d].inbox[i].shows \in Nat
    <3>1. \A i \in DOMAIN dash[d].inbox : dash[d].inbox[i] \in Message
      BY <2>1
    <3> QED
      BY <3>1 DEF Message
  <2> QED
    BY <2>1, <2>2 DEF Inv, Ascending, Rising
<1>4. Ascending'
  BY <1>0, <1>1, <1>3 DEF Inv, Ascending
<1> QED
  BY <1>2, <1>4 DEF Inv

LEMMA SendKeeps == ASSUME Inv, SendStats PROVE Inv'
<1>0. sampler \in SamplerRec
  BY DEF Inv, TypeOK, SamplerRec
<1>1. Stats(sampler.msg) \in Message /\ Stats(sampler.msg).shows = sampler.msg
  BY <1>0 DEF Stats, Message, SamplerRec
<1>2. /\ sampler' \in SamplerRec /\ sampler'.msg = sampler.msg /\ sampler'.idle = sampler.idle
      /\ Broadcast(Stats(sampler.msg)) /\ UNCHANGED <<version, announce, fed, missed>>
  BY <1>0 DEF SendStats, SamplerRec
<1>3. /\ dash' \in [Dashboards -> DashRec] /\ senders' \subseteq Dashboards
      /\ \A d \in Dashboards :
            /\ dash'[d].at = dash[d].at /\ dash'[d].view = dash[d].view
            /\ Rising(dash'[d].inbox, sampler.msg)
            /\ d \in fed => Above(dash'[d].inbox, dash[d].view)
  BY <1>1, <1>2, BroadcastKeeps
<1> QED
  BY <1>2, <1>3 DEF Inv, TypeOK, DashRec, SamplerRec, Looking, Ascending

LEMMA ChangeKeeps == ASSUME Inv, Change PROVE Inv'
<1>1. /\ version' = version + 1 /\ version' \in 0..MaxChanges
      /\ announce' \in {announce, announce + 1} /\ announce \in Nat /\ version \in Nat
      /\ announce <= version /\ sampler.msg <= version /\ sampler.msg \in Nat
      /\ UNCHANGED <<sampler, senders, dash, fed, missed>>
  BY FeedAssumption DEF Change, Inv, TypeOK, Ascending
<1>2. announce' \in 0..MaxChanges /\ announce' <= version' /\ sampler.msg <= version'
  BY <1>1, FeedAssumption
<1> QED
  BY <1>1, <1>2 DEF Inv, TypeOK, Looking, Ascending

LEMMA AnnounceKeeps == ASSUME Inv, Announce PROVE Inv'
<1>1. SessionChange \in Message /\ SessionChange.kind # "stats"
  BY FeedAssumption DEF SessionChange, Message
<1>2. /\ announce' \in 0..MaxChanges /\ announce' <= version
      /\ Broadcast(SessionChange) /\ UNCHANGED <<version, sampler, fed, missed>>
  BY FeedAssumption DEF Announce, Inv, TypeOK, Ascending
<1>3. /\ dash' \in [Dashboards -> DashRec] /\ senders' \subseteq Dashboards
      /\ \A d \in Dashboards :
            /\ dash'[d].at = dash[d].at /\ dash'[d].view = dash[d].view
            /\ Rising(dash'[d].inbox, sampler.msg)
            /\ d \in fed => Above(dash'[d].inbox, dash[d].view)
  BY <1>1, <1>2, BroadcastKeeps
<1> QED
  BY <1>2, <1>3 DEF Inv, TypeOK, DashRec, Looking, Ascending

\* Before the first broadcast nothing is said of what a dashboard shows.
LEMMA ArriveKeeps ==
    ASSUME Inv, NEW d \in Dashboards, Subscribe(d) \/ Snapshot(d) \/ Greet(d) PROVE Inv'
<1>0. dash[d] \in DashRec /\ version \in 0..MaxChanges
  BY DEF Inv, TypeOK, DashRec
<1>1. PICK r \in DashRec : dash' = [dash EXCEPT ![d] = r] /\ r.inbox = dash[d].inbox
  BY <1>0 DEF Subscribe, Snapshot, Greet, DashRec
<1>2. /\ dash' \in [Dashboards -> DashRec] /\ dash'[d] = r
      /\ \A e \in Dashboards \ {d} : dash'[e] = dash[e]
  BY <1>1, OneDash
<1>3. /\ d \notin fed /\ senders' \subseteq Dashboards
      /\ UNCHANGED <<version, announce, sampler, fed, missed>>
  BY DEF Subscribe, Snapshot, Greet, Inv, TypeOK, Ascending
<1> QED
  BY <1>1, <1>2, <1>3 DEF Inv, TypeOK, DashRec, Looking, Ascending

LEMMA ForwardKeeps ==
    ASSUME Inv, NEW d \in Dashboards, Forward(d)
    PROVE  /\ Inv'
           /\ d \in fed => dash'[d].view >= dash[d].view
           /\ \A e \in Dashboards \ {d} : dash'[e] = dash[e]
<1> DEFINE s == dash[d].inbox
           msg == Head(s)
           r == [dash[d] EXCEPT !.inbox = Tail(s),
                                !.view = IF msg.kind = "stats" THEN msg.shows ELSE dash[d].view]
<1>0. /\ dash[d] \in DashRec /\ s \in Seq(Message) /\ s # <<>> /\ sampler.msg \in Nat
      /\ Rising(s, sampler.msg) /\ dash[d].view \in 0..MaxChanges
      /\ dash[d].at = "forward"
  BY DEF Inv, TypeOK, DashRec, Ascending, Forward
<1>1. /\ Tail(s) \in Seq(Message) /\ Rising(Tail(s), sampler.msg) /\ msg \in Message
      /\ msg.kind = "stats" => msg.shows <= sampler.msg /\ Above(Tail(s), msg.shows)
      /\ \A lo : Above(s, lo) =>
            /\ Above(Tail(s), lo)
            /\ msg.kind = "stats" => lo <= msg.shows
  BY <1>0, Taken
<1>2. /\ dash' = [dash EXCEPT ![d] = r]
      /\ fed' = IF msg.kind = "stats" THEN fed \cup {d} ELSE fed
      /\ UNCHANGED <<version, announce, sampler, senders, missed>>
  BY <1>0 DEF Forward, Inv, TypeOK, DashRec
<1>3. msg.kind = "stats" => msg.shows \in 0..MaxChanges
  BY <1>1 DEF Message
<1>4. /\ r.at = "forward" /\ r.inbox = Tail(s)
      /\ r.view = IF msg.kind = "stats" THEN msg.shows ELSE dash[d].view
  BY <1>0 DEF DashRec
<1>5. r \in DashRec
  BY <1>0, <1>1, <1>3 DEF DashRec
<1> HIDE DEF r, s, msg
<1>6. /\ dash' \in [Dashboards -> DashRec] /\ dash'[d] = r
      /\ \A e \in Dashboards \ {d} : dash'[e] = dash[e]
  BY <1>2, <1>5, OneDash
<1>7. d \in fed => Above(s, dash[d].view) /\ dash[d].view <= sampler.msg
  BY DEF Inv, Ascending, s
<1>8. d \in fed' => r.view <= sampler.msg /\ Above(Tail(s), r.view)
  BY <1>1, <1>2, <1>4, <1>7
<1>9. d \in fed => r.view >= dash[d].view
  BY <1>0, <1>1, <1>3, <1>4, <1>7, FeedAssumption
<1>10. TypeOK' /\ Looking'
  BY <1>2, <1>6 DEF Inv, TypeOK, DashRec, Looking
<1>11. Ascending'
  BY <1>1, <1>2, <1>4, <1>6, <1>8 DEF Inv, Ascending
<1> QED
  BY <1>6, <1>9, <1>10, <1>11 DEF Inv

LEMMA LeaveKeeps ==
    ASSUME Inv, NEW d \in Dashboards, Leave(d)
    PROVE  /\ Inv' /\ ~Alive(d)'
           /\ \A e \in Dashboards \ {d} : dash'[e] = dash[e]
<1> DEFINE r == [at |-> "gone", inbox |-> <<>>, view |-> 0]
<1>1. /\ r \in DashRec /\ r.at = "gone" /\ r.view = 0 /\ r.inbox = <<>>
      /\ Rising(<<>>, sampler.msg) /\ Above(<<>>, 0) /\ 0 <= sampler.msg
  <2>1. 0 \in 0..MaxChanges
    BY FeedAssumption
  <2>2. 0 <= sampler.msg
    BY DEF Inv, TypeOK
  <2> QED
    BY <2>1, <2>2, NoMessage DEF DashRec
<1>2. dash' = [dash EXCEPT ![d] = r] /\ UNCHANGED <<version, announce, sampler, senders, fed, missed>>
  BY DEF Leave
<1> HIDE DEF r
<1>3. /\ dash' \in [Dashboards -> DashRec] /\ dash'[d] = r
      /\ \A e \in Dashboards \ {d} : dash'[e] = dash[e]
  BY <1>1, <1>2, OneDash
<1>4. Inv'
  BY <1>1, <1>2, <1>3 DEF Inv, TypeOK, DashRec, Looking, Ascending
<1> QED
  BY <1>1, <1>3, <1>4 DEF Alive

LEMMA InvNext == Inv /\ [Next]_vars => Inv'
<1> SUFFICES ASSUME Inv, [Next]_vars PROVE Inv'
  OBVIOUS
<1>1. CASE UNCHANGED vars
  BY <1>1 DEF vars, Inv, TypeOK, Looking, Ascending
<1> QED
  BY <1>1, TurnKeeps, BuildKeeps, SendKeeps, ChangeKeeps, AnnounceKeeps, ArriveKeeps,
     ForwardKeeps, LeaveKeeps DEF Next, SamplerStep

LEMMA AlwaysInv == Spec => []Inv
BY InvInit, InvNext, PTL DEF Spec

-----------------------------------------------------------------------------

\* Every variable of the feed keeps its type.
THEOREM TypeCorrect == Spec => []TypeOK
<1>1. Inv => TypeOK
  BY DEF Inv
<1> QED
  BY <1>1, AlwaysInv, PTL

\* server.rs:168-170, 183-184: a dashboard is overlooked for IdleTicks turns at most.
THEOREM NoticeSound == Spec => []NoticedInTime
<1>1. Inv => NoticedInTime
  BY FeedAssumption DEF Inv, TypeOK, Looking, NoticedInTime
<1> QED
  BY <1>1, AlwaysInv, PTL

\* A dashboard that has shown a broadcast never goes back to older figures.
THEOREM ViewsSound == Spec => ViewsAdvance
<1> DEFINE Advance == \A d \in Dashboards : d \in fed /\ Alive(d)' => dash'[d].view >= dash[d].view
<1>1. Inv /\ [Next]_vars => [Advance]_vars
  <2> SUFFICES ASSUME Inv, Next PROVE Advance
    OBVIOUS
  <2>0. \A d \in Dashboards : dash[d].view \in Nat
    BY DEF Inv, TypeOK
  <2>1. CASE SendStats \/ Announce
    <3>1. PICK m : Broadcast(m)
      BY <2>1 DEF SendStats, Announce
    <3>2. ASSUME NEW d \in Dashboards PROVE dash'[d].view = dash[d].view
      <4>1. dash[d] \in DashRec
        BY DEF Inv, TypeOK, DashRec
      <4> QED
        BY <3>1, <4>1 DEF Broadcast, DashRec
    <3> QED
      BY <2>0, <3>2
  <2>2. CASE Turn \/ Build \/ Change
    BY <2>0, <2>2 DEF Turn, Build, Change
  <2>3. ASSUME NEW d \in Dashboards, Subscribe(d) \/ Snapshot(d) \/ Greet(d) PROVE Advance
    <3>1. d \notin fed /\ \A e \in Dashboards \ {d} : dash'[e] = dash[e]
      BY <2>3 DEF Subscribe, Snapshot, Greet, Inv, TypeOK, Ascending
    <3> QED
      BY <2>0, <3>1
  <2>4. ASSUME NEW d \in Dashboards, Forward(d) PROVE Advance
    BY <2>0, <2>4, ForwardKeeps
  <2>5. ASSUME NEW d \in Dashboards, Leave(d) PROVE Advance
    BY <2>0, <2>5, LeaveKeeps
  <2> QED
    BY <2>1, <2>2, <2>3, <2>4, <2>5 DEF Next, SamplerStep
<1> QED
  BY <1>1, AlwaysInv, PTL DEF Spec, ViewsAdvance

=============================================================================
