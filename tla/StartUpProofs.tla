---------------------------- MODULE StartUpProofs ----------------------------
(***************************************************************************)
(* Proofs about StartUp, for any number of starts, log entries and tasks.  *)
(*                                                                         *)
(* The files and the audit log share no variable: each has an invariant of *)
(* its own.  Of the files three things are kept from life to life: a       *)
(* secret that something was made with is in its file and nobody is        *)
(* writing it (SecretsKept); an empty configuration is a mishap            *)
(* (ConfigKept); and the certificates are either of one start or not all   *)
(* there, but for mishaps and while they are being made (CertsKept).  Of   *)
(* the log: every entry is in one place (Distinct), and the file that has  *)
(* the name holds the end of what was written (Tidy).                      *)
(***************************************************************************)
EXTENDS StartUp, FiniteSetTheorems, TLAPS

\* Steps that follow the certificates in run().
Serving == {"load", "log", "acceptor", "up", "drain"}

\* run() has the secret in memory.
Past(s) == /\ at \notin {"down", "config", s}
           /\ s = "token_pepper" => at # "jwt_secret"

SecretsKept ==
    \A s \in Secrets :
       /\ issued[s] \subseteq {file[s]}
       /\ file[s] = None \/ (at = s /\ step = "write") => issued[s] = {}
       /\ Past(s) => file[s] # None /\ mem[s] = file[s]

ConfigKept == file["config"] = 0 => mishap \/ (at = "config" /\ step = "write")

\* The four files are those of one start.
Whole == /\ \A c \in Certs : file[c] = file["ca"]
         /\ file["ca"] \notin {None, 0}

\* The set is being made.
Amid == at \in Certs /\ (at = "ca" => step = "write")

\* The files of the set that are made before file c.
Before(c) == IF c = "ca" THEN {}
             ELSE IF c = "ca_key" THEN {"ca"}
             ELSE IF c = "cert" THEN {"ca", "ca_key"}
             ELSE {"ca", "ca_key", "cert"}

CertsKept ==
    /\ Amid => \A c \in Before(at) : file[c] = starts
    /\ at \in Serving => \A c \in Certs : file[c] # None
    /\ ~mishap /\ ~Amid => Whole \/ (at \notin Serving /\ \E c \in Certs : file[c] = None)

\* Until a renewal, the key is the last of the four to come.
PinsKept ==
    /\ at \in {"up", "drain"} => KeyFits
    /\ ~renewed => /\ Amid => file["key"] \in {None, 0}
                   /\ Amid \/ file["key"] \in {None, 0} \/ Whole
                   /\ file["key"] \in {None, 0} => pinned = {}
                   /\ pinned \subseteq {file["cert"]}

Started == /\ at # "down" => starts > 0
           /\ step = "write" => at \in Files /\ file[at] = 0

Kept == RunTypeOK /\ Started /\ SecretsKept /\ ConfigKept /\ CertsKept /\ PinsKept

-----------------------------------------------------------------------------
(* Types, and the step of run().                                           *)

LEMMA Names == "down" \notin Files /\ Serving \cap Files = {}
BY DEF Files, Secrets, Certs, Serving

LEMMA Order ==
    /\ \A f \in Files : Following[f] \in Files \cup {"load"}
    /\ \A s \in Secrets : Following[s] \in {"token_pepper", "ca"}
    /\ Following["config"] = "jwt_secret" /\ Following["jwt_secret"] = "token_pepper"
    /\ Following["token_pepper"] = "ca" /\ Following["ca"] = "ca_key"
    /\ Following["ca_key"] = "cert" /\ Following["cert"] = "key" /\ Following["key"] = "load"
BY DEF Following, Files, Secrets, Certs

LEMMA ValueFacts == 0 \in Value /\ None \notin Value /\ Value \subseteq Nat
BY LogAssumption, StartAssumption DEF Value

LEMMA TypeInit == Init => RunTypeOK /\ Started
BY ValueFacts DEF Init, RunTypeOK, Started

\* What a death leaves behind.
LEMMA DownFacts ==
    Down => /\ at' = "down" /\ step' = "look" /\ mem' = [s \in Secrets |-> 0]
            /\ UNCHANGED <<file, starts, issued, pinned, renewed>>
BY DEF Down

Dies == Down /\ \/ Die
                \/ (at = "config" /\ step = "look" /\ file[at] = 0 /\ UNCHANGED mishap)
                \/ (at = "acceptor" /\ ~KeyFits /\ UNCHANGED mishap)
                \/ (at = "drain" /\ UNCHANGED mishap)

\* Read, when it reads something.
ReadOn == /\ at \in {"config"} \cup Secrets /\ step = "look" /\ file[at] # None
          /\ mem' = IF at \in Secrets THEN [mem EXCEPT ![at] = file[at]] ELSE mem
          /\ at' = Following[at]
          /\ UNCHANGED <<file, step, starts, issued, pinned, renewed, mishap>>

\* Steps that touch neither files nor secrets, from one phase to another.
Moves(from, to) ==
    /\ at = from /\ at' = to
    /\ UNCHANGED <<file, step, mem, issued, pinned, renewed, mishap>>

LEMMA Steps ==
    [Next]_vars =>
       \/ Dies \/ ReadOn \/ Create \/ FillFile \/ RemoveCert \/ HandOut
       \/ \E s \in Secrets : Issue(s)
       \/ Start /\ Moves("down", "config")
       \/ CertsThere /\ Moves("ca", "load") /\ UNCHANGED starts
       \/ Moves("load", "log") /\ UNCHANGED starts
       \/ Moves("log", "acceptor") /\ UNCHANGED starts
       \/ KeyFits /\ Moves("acceptor", "up") /\ UNCHANGED starts
       \/ Moves("up", "drain") /\ UNCHANGED starts
       \/ UNCHANGED runvars
<1> SUFFICES ASSUME [Next]_vars
             PROVE  \/ Dies \/ ReadOn \/ Create \/ FillFile \/ RemoveCert \/ HandOut
                    \/ \E s \in Secrets : Issue(s)
                    \/ Start /\ Moves("down", "config")
                    \/ CertsThere /\ Moves("ca", "load") /\ UNCHANGED starts
                    \/ Moves("load", "log") /\ UNCHANGED starts
                    \/ Moves("log", "acceptor") /\ UNCHANGED starts
                    \/ KeyFits /\ Moves("acceptor", "up") /\ UNCHANGED starts
                    \/ Moves("up", "drain") /\ UNCHANGED starts
                    \/ UNCHANGED runvars
  OBVIOUS
<1>1. CASE Start
  BY <1>1 DEF Start, Moves
<1>2. CASE Read
  BY <1>2 DEF Read, ReadOn, Dies
<1>3. CASE CertsThere
  BY <1>3 DEF CertsThere, Moves
<1>4. CASE Load
  BY <1>4 DEF Load, Moves
<1>5. CASE Logged
  BY <1>5 DEF Logged, Moves
<1>6. CASE Acceptor
  BY <1>6 DEF Acceptor, Moves, Dies
<1>7. CASE Die
  BY <1>7 DEF Die, Dies
<1>8. CASE Logging
  BY <1>8 DEF Logging
<1>9. CASE Signal
  BY <1>9 DEF Signal, Moves
<1>10. CASE Leave
  BY <1>10 DEF Leave, Dies
<1>11. CASE UNCHANGED vars
  BY <1>11 DEF vars, runvars
<1> QED
  BY <1>1, <1>2, <1>3, <1>4, <1>5, <1>6, <1>7, <1>8, <1>9, <1>10, <1>11 DEF Next

LEMMA DeathMarks ==
    RunTypeOK /\ Dies =>
       /\ mishap => mishap'
       /\ CutShort => mishap' \/ at \in Serving \/ (at = "config" /\ step = "look")
<1> SUFFICES ASSUME RunTypeOK, Dies
             PROVE  /\ mishap => mishap'
                    /\ CutShort => mishap' \/ at \in Serving \/ (at = "config" /\ step = "look")
  OBVIOUS
<1>1. CASE Die
  BY <1>1 DEF Die
<1>2. CASE UNCHANGED mishap /\ (at \in Serving \/ (at = "config" /\ step = "look"))
  BY <1>2
<1> QED
  BY <1>1, <1>2 DEF Dies, Serving

LEMMA TypeNext == RunTypeOK /\ Started /\ [Next]_vars => RunTypeOK' /\ Started'
<1> SUFFICES ASSUME RunTypeOK, Started, [Next]_vars PROVE RunTypeOK' /\ Started'
  OBVIOUS
<1> USE ValueFacts DEF RunTypeOK, Started
<1>1. CASE Dies
  <2>1. mishap' \in BOOLEAN
    BY <1>1 DEF Dies, Die, CutShort
  <2>2. [s \in Secrets |-> 0] \in [Secrets -> Value]
    OBVIOUS
  <2> QED
    BY <1>1, <2>1, <2>2, DownFacts DEF Dies
<1>2. CASE ReadOn
  <2>1. file[at] \in Value
    BY <1>2 DEF ReadOn, Files
  <2>2. at' \in Files
    BY <1>2, Order DEF ReadOn, Files, Secrets, Certs
  <2>3. mem' \in [Secrets -> Value]
    BY <1>2, <2>1 DEF ReadOn
  <2>4. step = "look" /\ UNCHANGED <<file, step, starts, issued, pinned, renewed, mishap>>
    BY <1>2 DEF ReadOn
  <2>5. starts > 0
    BY <1>2, Names DEF ReadOn, Files
  <2> QED
    BY <2>2, <2>3, <2>4, <2>5
<1>3. CASE Create
  <2>1. at \in Files
    BY <1>3 DEF Create, Files, Certs
  <2>2. file' \in [Files -> Value \cup {None}] /\ file'[at] = 0
    BY <1>3, <2>1 DEF Create
  <2> QED
    BY <1>3, <2>1, <2>2 DEF Create
<1>4. CASE FillFile
  <2>0. at \in Files
    BY <1>4 DEF FillFile
  <2>1. at \in Files /\ Following[at] \in Files \cup {"load"}
    BY <2>0, Order
  <2>2. starts > 0
    BY <2>0, Names
  <2>3. file' \in [Files -> Value \cup {None}] /\ mem' \in [Secrets -> Value]
    BY <1>4, <2>1 DEF FillFile
  <2> QED
    BY <1>4, <2>1, <2>2, <2>3 DEF FillFile
<1>5. CASE RemoveCert
  <2>1. file' \in [Files -> Value \cup {None}]
    BY <1>5 DEF RemoveCert, Files
  <2>2. step = "look"
    BY <1>5 DEF RemoveCert, Files, Secrets, Certs
  <2> QED
    BY <1>5, <2>1, <2>2 DEF RemoveCert
<1>6. CASE HandOut
  <2>1. file["ca"] \in Value \cup {None}
    BY DEF Files, Certs
  <2> QED
    BY <1>6, <2>1 DEF HandOut
<1>7. ASSUME NEW s \in Secrets, Issue(s) PROVE RunTypeOK' /\ Started'
  <2>1. issued' \in [Secrets -> SUBSET Value]
    BY <1>7 DEF Issue
  <2> QED
    BY <1>7, <2>1 DEF Issue
<1>8. CASE Start /\ Moves("down", "config")
  <2>1. starts' \in Value /\ starts' > 0
    BY <1>8, StartAssumption DEF Start, Value
  <2>2. step = "look"
    BY <1>8 DEF Moves, Files, Secrets, Certs
  <2> QED
    BY <1>8, <2>1, <2>2 DEF Moves, Files
<1>9. CASE CertsThere /\ Moves("ca", "load") /\ UNCHANGED starts
  BY <1>9 DEF Moves, CertsThere
<1>10. CASE (\/ Moves("load", "log") \/ Moves("log", "acceptor") \/ Moves("acceptor", "up")
             \/ Moves("up", "drain")) /\ UNCHANGED starts
  <2>1. step = "look"
    BY <1>10, Names DEF Moves, Serving
  <2> QED
    BY <1>10, <2>1 DEF Moves
<1>11. CASE UNCHANGED runvars
  BY <1>11 DEF runvars
<1> QED
  BY <1>1, <1>2, <1>3, <1>4, <1>5, <1>6, <1>7, <1>8, <1>9, <1>10, <1>11, Steps

-----------------------------------------------------------------------------
(* Secrets and configuration.                                              *)

LEMMA SecretsInit == Init => SecretsKept /\ ConfigKept
BY LogAssumption DEF Init, SecretsKept, ConfigKept, Past, Files

\* One secret at a time.
Secret(s) == /\ issued[s] \subseteq {file[s]}
             /\ file[s] = None \/ (at = s /\ step = "write") => issued[s] = {}
             /\ Past(s) => file[s] # None /\ mem[s] = file[s]

LEMMA SecretNext ==
    ASSUME RunTypeOK, Started, NEW s \in Secrets, Secret(s), [Next]_vars
    PROVE  Secret(s)'
<1> USE DEF Secret, Past
<1>0. s \in Files /\ s \notin Certs /\ s # "config" /\ s \in {"jwt_secret", "token_pepper"}
  BY DEF Files, Secrets, Certs
<1>1. CASE Dies
  <2>1. at' = "down" /\ step' = "look" /\ file' = file /\ issued' = issued
    BY <1>1, DownFacts DEF Dies
  <2> QED
    BY <1>0, <2>1
<1>2. CASE ReadOn
  <2>1. /\ at \in {"config", "jwt_secret", "token_pepper"} /\ step' = "look"
        /\ at' = Following[at] /\ file' = file /\ issued' = issued /\ file[at] # None
    BY <1>2 DEF ReadOn, Secrets
  <2>2. mem' = IF at \in Secrets THEN [mem EXCEPT ![at] = file[at]] ELSE mem
    BY <1>2 DEF ReadOn
  <2>3. mem'[s] = IF at = s THEN file[s] ELSE mem[s]
    BY <2>2 DEF RunTypeOK
  <2>4. Past(s)' => at = s \/ Past(s)
    BY <1>0, <2>1, Order
  <2>5. step = "look"
    BY <1>2 DEF ReadOn
  <2> QED
    BY <1>0, <2>1, <2>3, <2>4, <2>5
<1>3. CASE Create
  <2>1. /\ at \in Files /\ step = "look" /\ step' = "write" /\ at' = at
        /\ UNCHANGED <<mem, issued>>
        /\ at \in Secrets => file[at] = None
    BY <1>3 DEF Create, Files, Secrets, Certs
  <2>2. file'[s] = IF at = s THEN 0 ELSE file[s]
    BY <1>0, <1>3 DEF Create, RunTypeOK
  <2>3. ~(at = s /\ Past(s))
    OBVIOUS
  <2> QED
    BY <1>0, <2>1, <2>2, <2>3, LogAssumption
<1>4. CASE FillFile
  <2>1. /\ at \in Files /\ step = "write" /\ step' = "look" /\ at' = Following[at]
        /\ issued' = issued /\ starts \in Value
    BY <1>4 DEF FillFile, Started, RunTypeOK
  <2>2. file'[s] = IF at = s THEN starts ELSE file[s]
    BY <1>0, <1>4 DEF FillFile, RunTypeOK
  <2>3. mem' = IF at \in Secrets THEN [mem EXCEPT ![at] = starts] ELSE mem
    BY <1>4 DEF FillFile
  <2>4. mem'[s] = IF at = s THEN starts ELSE mem[s]
    BY <2>3 DEF RunTypeOK
  <2>5. Past(s)' => at = s \/ Past(s)
    BY <1>0, <2>1, Order DEF Files, Secrets, Certs
  <2> QED
    BY <1>0, <2>1, <2>2, <2>4, <2>5, ValueFacts
<1>5. CASE RemoveCert
  <2>1. file'[s] = file[s] /\ UNCHANGED <<at, step, mem, issued>>
    BY <1>0, <1>5 DEF RemoveCert, RunTypeOK
  <2> QED
    BY <2>1
<1>6. CASE HandOut
  BY <1>6 DEF HandOut
<1>7. ASSUME NEW q \in Secrets, Issue(q) PROVE Secret(s)'
  <2>1. /\ at = "up" /\ UNCHANGED <<file, at, step, mem>>
        /\ issued' = [issued EXCEPT ![q] = issued[q] \cup {mem[q]}]
    BY <1>7 DEF Issue
  <2>2. issued'[s] = IF s = q THEN issued[s] \cup {mem[s]} ELSE issued[s]
    BY <2>1 DEF RunTypeOK
  <2>3. Past(s) /\ at # s
    BY <1>0, <2>1
  <2> QED
    BY <2>1, <2>2, <2>3
<1>8. CASE Moves("down", "config")
  BY <1>0, <1>8 DEF Moves
<1>9. CASE Moves("ca", "load")
  BY <1>0, <1>9 DEF Moves, Certs
<1>10. CASE \/ Moves("load", "log") \/ Moves("log", "acceptor") \/ Moves("acceptor", "up")
            \/ Moves("up", "drain")
  BY <1>0, <1>10 DEF Moves
<1>11. CASE UNCHANGED runvars
  BY <1>11 DEF runvars
<1> QED
  BY <1>1, <1>2, <1>3, <1>4, <1>5, <1>6, <1>7, <1>8, <1>9, <1>10, <1>11, Steps

LEMMA SecretsNext == RunTypeOK /\ Started /\ SecretsKept /\ [Next]_vars => SecretsKept'
BY SecretNext DEF SecretsKept, Secret

LEMMA ConfigNext == RunTypeOK /\ Started /\ ConfigKept /\ [Next]_vars => ConfigKept'
<1> SUFFICES ASSUME RunTypeOK, Started, ConfigKept, [Next]_vars PROVE ConfigKept'
  OBVIOUS
<1> USE DEF ConfigKept
<1>0. "config" \in Files /\ "config" \notin Certs
  BY DEF Files, Certs
<1>1. CASE Dies
  <2>1. file' = file
    BY <1>1, DownFacts DEF Dies
  <2>2. at = "config" /\ step = "write" => CutShort
    BY DEF CutShort
  <2> QED
    BY <1>0, <1>1, <2>1, <2>2, DeathMarks, Names
<1>2. CASE ReadOn
  BY <1>2 DEF ReadOn
<1>3. CASE Create
  <2>1. file'["config"] = IF at = "config" THEN 0 ELSE file["config"]
    BY <1>0, <1>3 DEF Create, RunTypeOK
  <2> QED
    BY <1>3, <2>1 DEF Create
<1>4. CASE FillFile
  <2>1. at \in Files /\ starts > 0 /\ at \in Files /\ mishap' = mishap
    BY <1>4, Names DEF FillFile, Started
  <2>2. file'["config"] = IF at = "config" THEN starts ELSE file["config"]
    BY <1>0, <1>4 DEF FillFile, RunTypeOK
  <2> QED
    BY <2>1, <2>2
<1>5. CASE RemoveCert
  <2>1. file'["config"] = file["config"] /\ UNCHANGED <<at, step, mishap>>
    BY <1>0, <1>5 DEF RemoveCert, RunTypeOK
  <2> QED
    BY <2>1
<1>6. CASE HandOut \/ \E s \in Secrets : Issue(s)
  BY <1>6 DEF HandOut, Issue
<1>7. CASE \/ Moves("down", "config") \/ Moves("ca", "load") \/ Moves("load", "log")
           \/ Moves("log", "acceptor") \/ Moves("acceptor", "up") \/ Moves("up", "drain")
  BY <1>7 DEF Moves
<1>8. CASE UNCHANGED runvars
  BY <1>8 DEF runvars
<1> QED
  BY <1>1, <1>2, <1>3, <1>4, <1>5, <1>6, <1>7, <1>8, Steps

-----------------------------------------------------------------------------
(* Certificates.                                                           *)

LEMMA CertsInit == Init => CertsKept /\ PinsKept
BY LogAssumption DEF Init, CertsKept, PinsKept, Amid, Serving, Files, Certs, Secrets

\* Places of run() with regard to the certificates.
LEMMA Places ==
    /\ Certs = {"ca", "ca_key", "cert", "key"} /\ Certs \subseteq Files
    /\ Serving \cap Certs = {} /\ {"up", "drain"} \subseteq Serving
    /\ Certs \cap ({"down", "config"} \cup Secrets) = {}
    /\ Serving \cap ({"down", "config"} \cup Secrets) = {}
BY DEF Certs, Files, Serving, Secrets

LEMMA CertsNext ==
    RunTypeOK /\ Started /\ CertsKept /\ [Next]_vars => CertsKept'
<1> SUFFICES ASSUME RunTypeOK, Started, CertsKept, [Next]_vars PROVE CertsKept'
  OBVIOUS
<1> USE Places
<1>0. file \in [Files -> Value \cup {None}] /\ starts \in Value
  BY DEF RunTypeOK
<1>1. CASE Dies
  <2>1. at' = "down" /\ file' = file
    BY <1>1, DownFacts DEF Dies
  <2>2. ASSUME ~mishap', Amid PROVE \E c \in Certs : file[c] = None
    <3>1. ~CutShort /\ at \in Certs
      BY <1>1, <2>2, DeathMarks DEF Amid
    <3>2. ASSUME at # "ca" PROVE file["ca"] = starts
      BY <2>2, <3>1, <3>2 DEF CertsKept, Before
    <3> QED
      BY <2>2, <3>1, <3>2 DEF CutShort, Amid
  <2>3. ~mishap' => ~mishap
    BY <1>1, DeathMarks
  <2> QED
    BY <2>1, <2>2, <2>3 DEF CertsKept, Amid, Whole
<1>2. CASE ReadOn
  <2>1. /\ at \in {"config"} \cup Secrets /\ at' \in Secrets \cup {"ca"} /\ step' = "look"
        /\ file' = file /\ mishap' = mishap
    BY <1>2, Order DEF ReadOn, Secrets
  <2> QED
    BY <2>1 DEF CertsKept, Amid, Whole
<1>3. CASE Create /\ at \in {"config"} \cup Secrets
  <2>1. \A c \in Certs : file'[c] = file[c]
    BY <1>0, <1>3 DEF Create
  <2>2. at' = at /\ mishap' = mishap
    BY <1>3 DEF Create
  <2> QED
    BY <1>3, <2>1, <2>2 DEF CertsKept, Amid, Whole
<1>4. CASE Create /\ at \in Certs
  <2>1. /\ at' = at /\ step' = "write" /\ starts' = starts /\ step = "look"
        /\ \A c \in Certs \ {at} : file'[c] = file[c]
    BY <1>0, <1>4 DEF Create
  <2>2. Before(at) \subseteq Certs \ {at} /\ (at = "ca" => Before(at) = {})
    BY <1>4 DEF Before
  <2>3. \A c \in Before(at) : file[c] = starts
    BY <1>4, <2>2 DEF CertsKept, Amid
  <2> QED
    BY <1>4, <2>1, <2>2, <2>3 DEF CertsKept, Amid
<1>5. CASE FillFile /\ at \in {"config"} \cup Secrets
  <2>1. \A c \in Certs : file'[c] = file[c]
    BY <1>0, <1>5 DEF FillFile
  <2>2. at' \in Secrets \cup {"ca"} /\ step' = "look" /\ mishap' = mishap
    BY <1>5, Order DEF FillFile, Secrets
  <2> QED
    BY <1>5, <2>1, <2>2 DEF CertsKept, Amid, Whole
<1>6. CASE FillFile /\ at \in Certs
  <2>1. /\ at' = Following[at] /\ step = "write" /\ step' = "look" /\ starts' = starts
        /\ file'[at] = starts /\ \A c \in Certs \ {at} : file'[c] = file[c]
    BY <1>0, <1>6 DEF FillFile
  <2>2. \A c \in Before(at) : file[c] = starts
    BY <1>6, <2>1 DEF CertsKept, Amid
  <2>3. starts # None /\ starts # 0
    BY <1>0, <1>6, ValueFacts DEF Started
  <2>4. CASE at = "key"
    <3>1. \A c \in Certs : file'[c] = starts
      BY <2>1, <2>2, <2>4 DEF Before
    <3>2. at' = "load"
      BY <2>1, <2>4, Order
    <3> QED
      BY <2>3, <3>1, <3>2 DEF CertsKept, Amid, Whole
  <2>5. CASE at # "key"
    <3>1. at' \in Certs \ {"ca"} /\ Before(at') = Before(at) \cup {at}
      BY <1>6, <2>1, <2>5, Order DEF Before
    <3>2. \A c \in Before(at') : file'[c] = starts
      BY <1>6, <2>1, <2>2, <3>1 DEF Before
    <3> QED
      BY <2>1, <3>1, <3>2 DEF CertsKept, Amid
  <2> QED
    BY <2>4, <2>5
<1>7. CASE RemoveCert
  <2>1. at' = "down" /\ \E c \in Certs : file'[c] = None
    BY <1>0, <1>7 DEF RemoveCert
  <2> QED
    BY <2>1 DEF CertsKept, Amid
<1>8. CASE HandOut \/ (\E s \in Secrets : Issue(s)) \/ UNCHANGED runvars
  BY <1>8 DEF HandOut, Issue, runvars, CertsKept, Amid, Whole
<1>9. CASE Moves("down", "config")
  BY <1>9 DEF Moves, CertsKept, Amid, Whole
<1>10. CASE CertsThere /\ Moves("ca", "load")
  BY <1>10 DEF Moves, CertsThere, CertsKept, Amid, Whole
<1>11. CASE \/ Moves("load", "log") \/ Moves("log", "acceptor") \/ Moves("acceptor", "up")
            \/ Moves("up", "drain")
  <2>1. at \in Serving /\ at' \in Serving /\ file' = file /\ mishap' = mishap
    BY <1>11 DEF Moves, Serving
  <2> QED
    BY <2>1 DEF CertsKept, Amid, Whole
<1>12. Create \/ FillFile => at \in {"config"} \cup Secrets \cup Certs
  BY DEF Create, FillFile, Started, Files
<1> QED
  BY <1>1, <1>2, <1>3, <1>4, <1>5, <1>6, <1>7, <1>8, <1>9, <1>10, <1>11, <1>12, Steps

LEMMA PinsNext ==
    RunTypeOK /\ Started /\ CertsKept /\ PinsKept /\ [Next]_vars => PinsKept'
<1> SUFFICES ASSUME RunTypeOK, Started, CertsKept, PinsKept, [Next]_vars PROVE PinsKept'
  OBVIOUS
<1> USE Places
<1>0. file \in [Files -> Value \cup {None}] /\ starts \in Value
  BY DEF RunTypeOK
<1>1. CASE Dies
  <2>1. at' = "down" /\ UNCHANGED <<file, pinned, renewed>>
    BY <1>1, DownFacts DEF Dies
  <2> QED
    BY <2>1 DEF PinsKept, Amid, Whole
<1>2. CASE ReadOn
  <2>1. /\ at \in {"config"} \cup Secrets /\ at' \in Secrets \cup {"ca"} /\ step' = "look"
        /\ UNCHANGED <<file, pinned, renewed>>
    BY <1>2, Order DEF ReadOn, Secrets
  <2> QED
    BY <2>1 DEF PinsKept, Amid, Whole
<1>3. CASE Create /\ at \in {"config"} \cup Secrets
  <2>1. \A c \in Certs : file'[c] = file[c]
    BY <1>0, <1>3 DEF Create
  <2>2. at' = at /\ UNCHANGED <<pinned, renewed>>
    BY <1>3 DEF Create
  <2> QED
    BY <1>3, <2>1, <2>2 DEF PinsKept, Amid, Whole
<1>4. CASE Create /\ at \in Certs
  <2>1. /\ at' = at /\ step' = "write" /\ UNCHANGED <<pinned, renewed>> /\ step = "look"
        /\ file'[at] = 0 /\ \A c \in Certs \ {at} : file'[c] = file[c]
        /\ at = "ca" => \E c \in Certs : file[c] = None
    BY <1>0, <1>4 DEF Create
  <2>2. ~renewed => file["key"] \in {None, 0}
    BY <1>4, <2>1 DEF PinsKept, Amid, Whole
  <2>3. ~renewed => pinned = {}
    BY <2>2 DEF PinsKept
  <2>4. file'["key"] \in {file["key"], 0}
    BY <1>4, <2>1
  <2>5. at' \notin {"up", "drain"}
    BY <1>4, <2>1 DEF Certs
  <2> QED
    BY <1>4, <2>1, <2>2, <2>3, <2>4, <2>5 DEF PinsKept, Amid
<1>5. CASE FillFile /\ at \in {"config"} \cup Secrets
  <2>1. \A c \in Certs : file'[c] = file[c]
    BY <1>0, <1>5 DEF FillFile
  <2>2. at' \in Secrets \cup {"ca"} /\ step' = "look" /\ UNCHANGED <<pinned, renewed>>
    BY <1>5, Order DEF FillFile, Secrets
  <2> QED
    BY <1>5, <2>1, <2>2 DEF PinsKept, Amid, Whole
<1>6. CASE FillFile /\ at \in Certs
  <2>1. /\ at' = Following[at] /\ step = "write" /\ step' = "look"
        /\ UNCHANGED <<pinned, renewed>>
        /\ file'[at] = starts /\ \A c \in Certs \ {at} : file'[c] = file[c]
    BY <1>0, <1>6 DEF FillFile
  <2>2. ~renewed => file["key"] \in {None, 0} /\ pinned = {}
    BY <1>6, <2>1 DEF PinsKept, Amid
  <2>3. CASE at = "key"
    <3>1. \A c \in Certs : file'[c] = starts
      BY <1>6, <2>1, <2>3 DEF CertsKept, Amid, Before
    <3>2. at' = "load" /\ starts \notin {None, 0}
      BY <1>0, <1>6, <2>1, <2>3, Order, ValueFacts DEF Started
    <3>3. Whole' /\ (~renewed' => pinned' = {})
      BY <2>1, <2>2, <3>1, <3>2 DEF Whole
    <3>4. file'["key"] = starts /\ ~(~renewed' /\ Amid')
      BY <3>1, <3>2 DEF Amid
    <3> QED
      BY <3>2, <3>3, <3>4 DEF PinsKept
  <2>4. CASE at # "key"
    <3>1. at' \in Certs \ {"ca"}
      BY <1>6, <2>1, <2>4, Order
    <3>2. file'["key"] = file["key"]
      BY <2>1, <2>4
    <3> QED
      BY <2>1, <2>2, <3>1, <3>2 DEF PinsKept, Amid
  <2> QED
    BY <2>3, <2>4
<1>7. CASE RemoveCert
  BY <1>7 DEF RemoveCert, PinsKept
<1>8. CASE HandOut
  <2>1. /\ at = "up" /\ pinned' = pinned \cup {file["ca"]}
        /\ UNCHANGED <<file, at, step, renewed>>
    BY <1>8 DEF HandOut
  <2>2. KeyFits /\ \A c \in Certs : file[c] # None
    BY <2>1 DEF PinsKept, CertsKept, Serving
  <2>3. file["key"] \notin {None, 0}
    BY <2>2 DEF KeyFits
  <2>4. ~renewed => Whole
    BY <2>1, <2>3 DEF PinsKept, Amid
  <2> QED
    BY <2>1, <2>3, <2>4 DEF PinsKept, Amid, Whole, KeyFits
<1>9. CASE (\E s \in Secrets : Issue(s)) \/ UNCHANGED runvars
  BY <1>9 DEF Issue, runvars, PinsKept, Amid, Whole, KeyFits
<1>10. CASE Moves("down", "config")
  BY <1>10 DEF Moves, PinsKept, Amid, Whole
<1>11. CASE CertsThere /\ Moves("ca", "load")
  BY <1>11 DEF Moves, CertsThere, PinsKept, Amid, Whole
<1>12. CASE KeyFits /\ Moves("acceptor", "up")
  BY <1>12 DEF Moves, PinsKept, Amid, Whole, KeyFits
<1>13. CASE Moves("load", "log") \/ Moves("log", "acceptor") \/ Moves("up", "drain")
  BY <1>13 DEF Moves, PinsKept, Amid, Whole, KeyFits
<1>14. Create \/ FillFile => at \in {"config"} \cup Secrets \cup Certs
  BY DEF Create, FillFile, Started, Files
<1> QED
  BY <1>1, <1>2, <1>3, <1>4, <1>5, <1>6, <1>7, <1>8, <1>9, <1>10, <1>11, <1>12, <1>13,
     <1>14, Steps

-----------------------------------------------------------------------------
LEMMA AlwaysKept == Spec => []Kept
<1>1. Init => Kept
  BY TypeInit, SecretsInit, CertsInit DEF Kept
<1>2. Kept /\ [Next]_vars => Kept'
  BY TypeNext, SecretsNext, ConfigNext, CertsNext, PinsNext DEF Kept
<1> QED
  BY <1>1, <1>2, PTL DEF Spec

\* server.rs:34-48: what was made with a secret in one life of the server is
\* valid in every later one, wherever earlier lives have ended.
THEOREM SecretsSafe == Spec => []TokensStayValid
<1>1. Kept => TokensStayValid
  BY DEF Kept, SecretsKept, Past, Secrets, TokensStayValid
<1> QED
  BY <1>1, AlwaysKept, PTL

\* config.rs:37-38: ca.pem belongs to the server's certificate, unless a renewal
\* was cut short half-way through the four files.
THEOREM CaSafe == Spec => []CaMatchesCert
<1>1. Kept => CaMatchesCert
  BY Places DEF Kept, CertsKept, Amid, Whole, Serving, CaMatchesCert
<1> QED
  BY <1>1, AlwaysKept, PTL

\* Until the operator has the certificates renewed, a client that pinned the CA
\* goes on accepting the server.
THEOREM PinsSafe == Spec => []PinsStayValid
<1>1. Kept => PinsStayValid
  BY DEF Kept, PinsKept, PinsStayValid
<1> QED
  BY <1>1, AlwaysKept, PTL

\* A start that is cut short makes the next one fail only if it was between
\* creating a file and filling it, or amid a renewal.
THEOREM StartsSafe == Spec => []StartsUnlessCut
<1>1. Kept => StartsUnlessCut
  BY Places DEF Kept, ConfigKept, CertsKept, Amid, Whole, Serving, KeyFits, StartsUnlessCut
<1> QED
  BY <1>1, AlwaysKept, PTL

-----------------------------------------------------------------------------
(* The audit log.                                                          *)

Active(t) == add[t].at # "out"

\* Every entry is in one place: with the task that adds it, handed over, or
\* on the disk.
Distinct ==
    /\ \A t \in Tasks : Active(t) =>
          /\ add[t].entry \in 1..count
          /\ \A u \in Tasks \ {t} : Active(u) => add[u].entry # add[t].entry
          /\ \A w \in pending : w.entry # add[t].entry
          /\ \A i \in DOMAIN written : written[i] # add[t].entry
          /\ add[t].at = "write" => add[t].fd \in Entries
    /\ \A w \in pending :
          /\ w.entry \in 1..count
          /\ \A v \in pending : v.entry = w.entry => v = w
          /\ \A i \in DOMAIN written : written[i] # w.entry
    /\ \A i \in DOMAIN written : written[i] \in 1..count

\* As long as no rename has met another append() half-way: every write goes
\* to audit.log, who is about to rename it is right in that it is full, and it
\* holds the end of what was written.
Tidy ==
    /\ \A t \in Tasks :
          /\ add[t].at = "write" => add[t].fd = log
          /\ add[t].at = "rename" => log # None /\ Cardinality(lines[log]) >= MaxLines
          /\ add[t].at \in {"stat", "rename", "open"} =>
                add[t].entry # log /\ lines[add[t].entry] = {}
    /\ \A w \in pending : w.fd = log
    /\ log # None => log <= count
    /\ \A e \in Entries : e > count => lines[e] = {}
    /\ log # None =>
          /\ lines[log] \subseteq {written[j] : j \in DOMAIN written}
          /\ \A i, j \in DOMAIN written :
                written[j] \in lines[log] /\ written[i] \notin lines[log] => i < j

LogKept == LogTypeOK /\ Distinct /\ (raced \/ Tidy)

LogStep == (\E t \in Tasks : Push(t) \/ AddStep(t)) \/ Flush \/ Stopped

LEMMA LogSteps == [Next]_vars => LogStep \/ UNCHANGED logvars
<1> SUFFICES ASSUME [Next]_vars PROVE LogStep \/ UNCHANGED logvars
  OBVIOUS
<1>1. CASE Load \/ Logging
  BY <1>1 DEF Load, Logging, LogStep
<1>2. CASE Die \/ Leave
  BY <1>2 DEF Die, Leave, Down, LogStep
<1>3. CASE Read \/ Acceptor
  BY <1>3 DEF Read, Acceptor, Down, LogStep
<1>4. CASE Start \/ CertsThere \/ Create \/ FillFile \/ Logged
  BY <1>4 DEF Start, CertsThere, Create, FillFile, Logged
<1>5. CASE HandOut \/ Signal \/ RemoveCert \/ \E s \in Secrets : Issue(s)
  BY <1>5 DEF HandOut, Signal, RemoveCert, Issue
<1>6. CASE UNCHANGED vars
  BY <1>6 DEF vars
<1> QED
  BY <1>1, <1>2, <1>3, <1>4, <1>5, <1>6 DEF Next

AddRec == [at : {"out", "stat", "rename", "open", "write"},
           entry : Entries \cup {0}, fd : Entries \cup {None}]

LEMMA EntryFacts ==
    /\ Entries \subseteq Nat /\ None \notin Entries /\ None \notin Nat
    /\ Out \in AddRec /\ Out.at = "out"
BY LogAssumption DEF Entries, AddRec, Out

\* What a step does to the tasks: one of them goes to r, the others stay.
Sets(t, r) == /\ add'[t] = r
              /\ \A u \in Tasks \ {t} : add'[u] = add[u]

LEMMA SetsType ==
    ASSUME LogTypeOK, NEW t \in Tasks, NEW r \in AddRec, add' = [add EXCEPT ![t] = r]
    PROVE  add' \in [Tasks -> AddRec] /\ Sets(t, r)
BY DEF LogTypeOK, AddRec, Sets

LEMMA LogTypeInit == Init => LogTypeOK
<1> SUFFICES ASSUME LogInit PROVE LogTypeOK
  BY DEF Init
<1>1. ring \in Seq(Entries) /\ Len(ring) <= Cap /\ written \in Seq(Entries)
  BY LogAssumption DEF LogInit
<1>2. add \in [Tasks -> AddRec]
  BY EntryFacts DEF LogInit
<1>3. count \in 0..MaxEntries /\ lines \in [1..MaxEntries -> SUBSET Entries]
  BY LogAssumption DEF LogInit
<1> QED
  BY <1>1, <1>2, <1>3 DEF LogInit, LogTypeOK, AddRec

LEMMA LogTypePush ==
    ASSUME LogTypeOK, NEW t \in Tasks, Push(t)
    PROVE  /\ LogTypeOK' /\ count' = count + 1 /\ count' \in Entries
           /\ Sets(t, [at |-> "stat", entry |-> count', fd |-> None])
           /\ UNCHANGED <<log, backup, lines, pending, written, raced>>
<1>1. count' = count + 1 /\ count' \in Entries /\ count' \in 0..MaxEntries
  BY LogAssumption DEF Push, LogTypeOK, Entries
<1>2. ring' \in Seq(Entries) /\ Len(ring') <= Cap
  <2>1. CASE Len(ring) >= Cap
    <3>1. ring # <<>> /\ Tail(ring) \in Seq(Entries) /\ Len(Tail(ring)) = Len(ring) - 1
      BY <2>1, LogAssumption DEF LogTypeOK
    <3>2. ring' = Append(Tail(ring), count')
      BY <2>1 DEF Push
    <3> QED
      BY <1>1, <2>1, <3>1, <3>2, LogAssumption DEF LogTypeOK
  <2>2. CASE ~(Len(ring) >= Cap)
    <3>1. ring' = Append(ring, count')
      BY <2>2 DEF Push
    <3> QED
      BY <1>1, <2>2, <3>1, LogAssumption DEF LogTypeOK
  <2> QED
    BY <2>1, <2>2
<1>3. [at |-> "stat", entry |-> count', fd |-> None] \in AddRec
  BY <1>1 DEF AddRec
<1>4. /\ add' \in [Tasks -> AddRec]
      /\ Sets(t, [at |-> "stat", entry |-> count', fd |-> None])
  BY <1>3, SetsType DEF Push
<1>5. UNCHANGED <<log, backup, lines, pending, written, raced>>
  BY DEF Push
<1> QED
  BY <1>1, <1>2, <1>4, <1>5 DEF LogTypeOK, AddRec

\* Stat, Rename and Open leave the entry where it is.
LEMMA LogTypeAdd ==
    ASSUME LogTypeOK, NEW t \in Tasks, Stat(t) \/ Rename(t) \/ Open(t), Distinct
    PROVE  /\ LogTypeOK'
           /\ \E r \in AddRec : /\ Sets(t, r) /\ r.entry = add[t].entry
                                /\ r.at \in {"rename", "open", "write"}
                                /\ r.at = "write" => r.fd \in Entries
           /\ Active(t)
           /\ UNCHANGED <<count, lines, pending, written>>
<1>0. add[t] \in AddRec /\ add \in [Tasks -> AddRec]
  BY DEF LogTypeOK, AddRec
<1>1. CASE Stat(t)
  <2> DEFINE r == [add[t] EXCEPT !.at = IF log # None /\ Cardinality(lines[log]) >= MaxLines
                                        THEN "rename" ELSE "open"]
  <2>1. r \in AddRec /\ r.entry = add[t].entry /\ r.at \in {"rename", "open"}
    BY <1>0 DEF AddRec
  <2>2. add' = [add EXCEPT ![t] = r] /\ Active(t)
        /\ UNCHANGED <<ring, count, log, backup, lines, pending, written, raced>>
    BY <1>0, <1>1 DEF Stat, Active
  <2> HIDE DEF r
  <2>3. add' \in [Tasks -> AddRec] /\ Sets(t, r)
    BY <2>1, <2>2, SetsType
  <2> QED
    BY <2>1, <2>2, <2>3 DEF LogTypeOK, AddRec
<1>2. CASE Rename(t)
  <2> DEFINE r == [add[t] EXCEPT !.at = "open"]
  <2>1. r \in AddRec /\ r.entry = add[t].entry /\ r.at = "open"
    BY <1>0 DEF AddRec
  <2>2. add' = [add EXCEPT ![t] = r] /\ Active(t)
        /\ UNCHANGED <<ring, count, lines, pending, written>>
    BY <1>0, <1>2 DEF Rename, Active
  <2>3. /\ log' \in Entries \cup {None} /\ backup' \in Entries \cup {None}
        /\ raced' \in BOOLEAN
    BY <1>2 DEF Rename, LogTypeOK, HalfWay
  <2> HIDE DEF r
  <2>4. add' \in [Tasks -> AddRec] /\ Sets(t, r)
    BY <2>1, <2>2, SetsType
  <2> QED
    BY <2>1, <2>2, <2>3, <2>4 DEF LogTypeOK, AddRec
<1>3. CASE Open(t)
  <2> DEFINE i == IF log # None THEN log ELSE add[t].entry
             r == [add[t] EXCEPT !.at = "write", !.fd = i]
  <2>1. i \in Entries /\ Active(t)
    <3>1. Active(t)
      BY <1>3 DEF Open, Active
    <3>2. add[t].entry \in Entries
      BY <3>1, LogAssumption DEF Distinct, LogTypeOK, Entries
    <3> QED
      BY <3>1, <3>2 DEF LogTypeOK
  <2> HIDE DEF i
  <2>2. r \in AddRec /\ r.entry = add[t].entry /\ r.at = "write" /\ r.fd \in Entries
    BY <1>0, <2>1 DEF AddRec
  <2>3. /\ add' = [add EXCEPT ![t] = r] /\ log' = i
        /\ UNCHANGED <<ring, count, backup, lines, pending, written, raced>>
    BY <1>0, <1>3 DEF Open, i
  <2> HIDE DEF r
  <2>4. add' \in [Tasks -> AddRec] /\ Sets(t, r)
    BY <2>2, <2>3, SetsType
  <2> QED
    BY <2>1, <2>2, <2>3, <2>4 DEF LogTypeOK, AddRec
<1> QED
  BY <1>1, <1>2, <1>3

LEMMA LogTypeWrite ==
    ASSUME LogTypeOK, Distinct, NEW t \in Tasks, Write(t)
    PROVE  /\ LogTypeOK' /\ Sets(t, Out) /\ add[t].at = "write"
           /\ pending' = pending \cup {[entry |-> add[t].entry, fd |-> add[t].fd]}
           /\ UNCHANGED <<count, log, backup, lines, written, raced>>
<1>1. /\ add[t].at = "write" /\ add' = [add EXCEPT ![t] = Out]
      /\ pending' = pending \cup {[entry |-> add[t].entry, fd |-> add[t].fd]}
      /\ UNCHANGED <<ring, count, log, backup, lines, written, raced>>
  BY DEF Write
<1>2. add[t].entry \in Entries /\ add[t].fd \in Entries
  BY <1>1, LogAssumption DEF Distinct, Active, LogTypeOK, Entries
<1>3. add' \in [Tasks -> AddRec] /\ Sets(t, Out)
  BY <1>1, EntryFacts, SetsType
<1> QED
  BY <1>1, <1>2, <1>3 DEF LogTypeOK, AddRec

LEMMA LogTypeOpenFails ==
    ASSUME LogTypeOK, NEW t \in Tasks, OpenFails(t)
    PROVE  /\ LogTypeOK' /\ Sets(t, Out)
           /\ UNCHANGED <<count, log, backup, lines, pending, written, raced>>
<1>1. /\ add' = [add EXCEPT ![t] = Out]
      /\ UNCHANGED <<ring, count, log, backup, lines, pending, written, raced>>
  BY DEF OpenFails
<1>2. add' \in [Tasks -> AddRec] /\ Sets(t, Out)
  BY <1>1, EntryFacts, SetsType
<1> QED
  BY <1>1, <1>2 DEF LogTypeOK, AddRec

LEMMA LogTypeFlush ==
    ASSUME LogTypeOK, NEW w \in pending,
           /\ pending' = pending \ {w}
           /\ lines' = [lines EXCEPT ![w.fd] = lines[w.fd] \cup {w.entry}]
           /\ written' = Append(written, w.entry)
           /\ UNCHANGED <<ring, count, add, log, backup, raced>>
    PROVE  /\ LogTypeOK' /\ w.entry \in Entries /\ w.fd \in Entries
           /\ DOMAIN written = 1..Len(written) /\ DOMAIN written' = 1..(Len(written) + 1)
           /\ Len(written) \in Nat /\ written'[Len(written) + 1] = w.entry
           /\ \A i \in DOMAIN written : written'[i] = written[i]
<1>1. w.entry \in Entries /\ w.fd \in Entries
  BY DEF LogTypeOK
<1>2. written \in Seq(Entries)
  BY DEF LogTypeOK
<1>3. lines' \in [1..MaxEntries -> SUBSET Entries]
  BY <1>1 DEF LogTypeOK, Entries
<1>4. written' \in Seq(Entries)
  BY <1>1, <1>2
<1>5. LogTypeOK'
  BY <1>3, <1>4 DEF LogTypeOK
<1> QED
  BY <1>1, <1>2, <1>5

LEMMA LogTypeStopped ==
    ASSUME LogTypeOK, Stopped
    PROVE  /\ LogTypeOK' /\ \A t \in Tasks : add'[t] = Out
           /\ pending' = {} /\ UNCHANGED <<count, log, backup, lines, written, raced>>
<1>1. add' = [t \in Tasks |-> Out] /\ ring' = <<>> /\ pending' = {}
      /\ UNCHANGED <<count, log, backup, lines, written, raced>>
  BY DEF Stopped
<1>2. add' \in [Tasks -> AddRec]
  BY <1>1, EntryFacts
<1>3. ring' \in Seq(Entries) /\ Len(ring') <= Cap
  BY <1>1, LogAssumption
<1> QED
  BY <1>1, <1>2, <1>3 DEF LogTypeOK, AddRec

LEMMA DistinctNext ==
    ASSUME LogTypeOK, Distinct, LogStep
    PROVE  LogTypeOK' /\ Distinct'
<1>0. count \in Nat
  BY DEF LogTypeOK
<1>1. ASSUME NEW t \in Tasks, Push(t) PROVE LogTypeOK' /\ Distinct'
  <2> DEFINE r == [at |-> "stat", entry |-> count', fd |-> None]
  <2>1. /\ LogTypeOK' /\ count' = count + 1 /\ count' \in Entries /\ Sets(t, r)
        /\ UNCHANGED <<log, backup, lines, pending, written, raced>>
    BY <1>1, LogTypePush
  <2>2. ASSUME NEW e \in 1..count PROVE e \in 1..count' /\ e # count'
    BY <1>0, <2>1
  <2>3. count' \in 1..count' /\ r.at = "stat" /\ r.entry = count'
    BY <1>0, <2>1
  <2> HIDE DEF r
  <2> QED
    BY <2>1, <2>2, <2>3 DEF Distinct, Active, Sets
<1>2. ASSUME NEW t \in Tasks, Stat(t) \/ Rename(t) \/ Open(t) PROVE LogTypeOK' /\ Distinct'
  <2>1. /\ LogTypeOK' /\ Active(t)
        /\ UNCHANGED <<count, lines, pending, written>>
    BY <1>2, LogTypeAdd
  <2>2. PICK r \in AddRec : /\ Sets(t, r) /\ r.entry = add[t].entry
                            /\ r.at = "write" => r.fd \in Entries
    BY <1>2, LogTypeAdd
  <2> QED
    BY <2>1, <2>2 DEF Distinct, Active, Sets
<1>3. ASSUME NEW t \in Tasks, Write(t) PROVE LogTypeOK' /\ Distinct'
  <2> DEFINE w == [entry |-> add[t].entry, fd |-> add[t].fd]
  <2>1. /\ LogTypeOK' /\ Sets(t, Out) /\ Active(t)
        /\ pending' = pending \cup {w}
        /\ UNCHANGED <<count, log, backup, lines, written, raced>>
    BY <1>3, LogTypeWrite DEF Active
  <2>2. w.entry = add[t].entry
    OBVIOUS
  <2> HIDE DEF w
  <2>3. \A u \in Tasks : Active(u)' => u # t /\ add'[u] = add[u] /\ Active(u)
    BY <2>1, EntryFacts DEF Active, Sets
  <2> QED
    BY <2>1, <2>2, <2>3 DEF Distinct
<1>4. ASSUME NEW t \in Tasks, OpenFails(t) PROVE LogTypeOK' /\ Distinct'
  <2>1. /\ LogTypeOK' /\ Sets(t, Out)
        /\ UNCHANGED <<count, log, backup, lines, pending, written, raced>>
    BY <1>4, LogTypeOpenFails
  <2>2. \A u \in Tasks : Active(u)' => u # t /\ add'[u] = add[u] /\ Active(u)
    BY <2>1, EntryFacts DEF Active, Sets
  <2> QED
    BY <2>1, <2>2 DEF Distinct
<1>5. CASE Flush
  <2>1. PICK w \in pending :
           /\ pending' = pending \ {w}
           /\ lines' = [lines EXCEPT ![w.fd] = lines[w.fd] \cup {w.entry}]
           /\ written' = Append(written, w.entry)
           /\ UNCHANGED <<ring, count, add, log, backup, raced>>
    BY <1>5 DEF Flush
  <2>2. /\ LogTypeOK'
        /\ DOMAIN written = 1..Len(written) /\ DOMAIN written' = 1..(Len(written) + 1)
        /\ Len(written) \in Nat /\ written'[Len(written) + 1] = w.entry
        /\ \A i \in DOMAIN written : written'[i] = written[i]
    BY <2>1, LogTypeFlush
  <2>3. \A i \in DOMAIN written' : \/ i \in DOMAIN written /\ written'[i] = written[i]
                                   \/ written'[i] = w.entry
    BY <2>2
  <2> QED
    BY <2>1, <2>2, <2>3 DEF Distinct, Active
<1>6. CASE Stopped
  <2>1. /\ LogTypeOK' /\ \A t \in Tasks : add'[t] = Out
        /\ pending' = {} /\ UNCHANGED <<count, log, backup, lines, written, raced>>
    BY <1>6, LogTypeStopped
  <2> QED
    BY <2>1, EntryFacts DEF Distinct, Active
<1> QED
  BY <1>1, <1>2, <1>3, <1>4, <1>5, <1>6 DEF LogStep, AddStep

\* The file that has the name is finite, as any other.
LEMMA LinesFinite ==
    ASSUME LogTypeOK, NEW e \in Entries PROVE IsFiniteSet(lines[e])
<1>1. IsFiniteSet(1..MaxEntries)
  BY FS_Interval, LogAssumption
<1> QED
  BY <1>1, FS_Subset DEF LogTypeOK, Entries

LEMMA TidyNext ==
    ASSUME LogTypeOK, Distinct, Tidy, LogStep, ~raced'
    PROVE  Tidy'
<1>0. count \in Nat /\ None \notin Nat /\ Entries \subseteq Nat
  BY EntryFacts DEF LogTypeOK
<1>1. ASSUME NEW t \in Tasks, Push(t) PROVE Tidy'
  <2> DEFINE r == [at |-> "stat", entry |-> count', fd |-> None]
  <2>1. /\ count' = count + 1 /\ count' \in Entries /\ Sets(t, r)
        /\ UNCHANGED <<log, backup, lines, pending, written, raced>>
    BY <1>1, LogTypePush
  <2>2. count' # log /\ lines[count'] = {} /\ (log # None => log <= count')
    BY <1>0, <2>1 DEF Tidy, LogTypeOK
  <2>3. \A e \in Entries : e > count' => e > count
    BY <1>0, <2>1
  <2>4. r.at = "stat" /\ r.entry = count'
    OBVIOUS
  <2> HIDE DEF r
  <2> QED
    BY <2>1, <2>2, <2>3, <2>4 DEF Tidy, Sets
<1>2. ASSUME NEW t \in Tasks, Stat(t) PROVE Tidy'
  <2>1. PICK r \in AddRec : Sets(t, r) /\ r.entry = add[t].entry
    BY <1>2, LogTypeAdd
  <2>2. /\ r.at \in {"rename", "open"}
        /\ r.at = "rename" => log # None /\ Cardinality(lines[log]) >= MaxLines
        /\ add[t].at = "stat"
        /\ UNCHANGED <<count, log, lines, pending, written>>
    BY <1>2, <2>1 DEF Stat, Sets, LogTypeOK
  <2> QED
    BY <2>1, <2>2 DEF Tidy, Sets
<1>3. ASSUME NEW t \in Tasks, Rename(t) PROVE Tidy'
  <2>1. PICK r \in AddRec : Sets(t, r) /\ r.entry = add[t].entry
    BY <1>3, LogTypeAdd
  <2>2. /\ r.at = "open" /\ add[t].at = "rename"
        /\ UNCHANGED <<count, lines, pending, written>>
    BY <1>3, <2>1 DEF Rename, Sets, LogTypeOK
  <2>3. CASE log' = log
    BY <2>1, <2>2, <2>3 DEF Tidy, Sets
  <2>4. CASE log' # log
    <3>1. log # None /\ log' = None /\ ~HalfWay(t)
      BY <1>3, <2>4 DEF Rename
    <3>2. \A u \in Tasks \ {t} : add[u].at # "rename" /\ add[u].at # "write"
      BY <3>1 DEF HalfWay, Tidy
    <3>3. pending = {}
      BY <3>1 DEF HalfWay, Tidy
    <3>4. add[t].entry # None
          /\ \A u \in Tasks : add[u].at \in {"stat", "open"} => add[u].entry # None
      BY <1>0, <2>2 DEF Distinct, Active
    <3> QED
      BY <2>1, <2>2, <3>1, <3>2, <3>3, <3>4 DEF Tidy, Sets
  <2> QED
    BY <2>3, <2>4
<1>4. ASSUME NEW t \in Tasks, Open(t) PROVE Tidy'
  <2>1. PICK r \in AddRec : Sets(t, r)
    BY <1>4, LogTypeAdd
  <2>2. /\ r.at = "write" /\ r.fd = log' /\ add[t].at = "open"
        /\ log' = IF log # None THEN log ELSE add[t].entry
        /\ UNCHANGED <<count, lines, pending, written>>
    BY <1>4, <2>1 DEF Open, Sets, LogTypeOK
  <2>3. CASE log # None
    BY <2>1, <2>2, <2>3 DEF Tidy, Sets
  <2>4. CASE log = None
    <3>1. pending = {}
      BY <1>0, <2>4 DEF Tidy, LogTypeOK
    <3>2. \A u \in Tasks : add[u].at # "rename" /\ add[u].at # "write"
      BY <1>0, <2>4 DEF Tidy, Distinct, Active
    <3>3. add[t].entry \in 1..count /\ lines[add[t].entry] = {}
          /\ \A u \in Tasks \ {t} : add[u].at \in {"stat", "open"} => add[u].entry # add[t].entry
      BY <2>2 DEF Tidy, Distinct, Active
    <3>4. add[t].entry <= count
      BY <1>0, <3>3
    <3> QED
      BY <2>1, <2>2, <2>4, <3>1, <3>2, <3>3, <3>4 DEF Tidy, Sets
  <2> QED
    BY <2>3, <2>4
<1>5. ASSUME NEW t \in Tasks, Write(t) PROVE Tidy'
  <2> DEFINE w == [entry |-> add[t].entry, fd |-> add[t].fd]
  <2>1. /\ Sets(t, Out) /\ add[t].at = "write" /\ pending' = pending \cup {w}
        /\ UNCHANGED <<count, log, backup, lines, written, raced>>
    BY <1>5, LogTypeWrite
  <2>2. w.fd = log
    BY <2>1 DEF Tidy
  <2> HIDE DEF w
  <2>3. \A u \in Tasks : add'[u].at # "out" => add'[u] = add[u]
    BY <2>1, EntryFacts DEF Sets
  <2>4. \A v \in pending' : v.fd = log'
    BY <2>1, <2>2 DEF Tidy
  <2> QED
    BY <2>1, <2>3, <2>4 DEF Tidy
<1>6. ASSUME NEW t \in Tasks, OpenFails(t) PROVE Tidy'
  <2>1. /\ Sets(t, Out)
        /\ UNCHANGED <<count, log, backup, lines, pending, written, raced>>
    BY <1>6, LogTypeOpenFails
  <2> QED
    BY <2>1, EntryFacts DEF Tidy, Sets
<1>7. CASE Flush
  <2>1. PICK w \in pending :
           /\ pending' = pending \ {w}
           /\ lines' = [lines EXCEPT ![w.fd] = lines[w.fd] \cup {w.entry}]
           /\ written' = Append(written, w.entry)
           /\ UNCHANGED <<ring, count, add, log, backup, raced>>
    BY <1>7 DEF Flush
  <2>2. /\ w.fd \in Entries
        /\ DOMAIN written = 1..Len(written) /\ DOMAIN written' = 1..(Len(written) + 1)
        /\ Len(written) \in Nat /\ written'[Len(written) + 1] = w.entry
        /\ \A i \in DOMAIN written : written'[i] = written[i]
    BY <2>1, LogTypeFlush
  <2>3. w.fd = log /\ log \in Entries /\ log <= count
    BY <1>0, <2>2 DEF Tidy
  <2>4. /\ lines'[log] = lines[log] \cup {w.entry}
        /\ \A e \in Entries \ {log} : lines'[e] = lines[e]
    BY <2>1, <2>3 DEF LogTypeOK, Entries
  <2>5. Cardinality(lines[log]) >= MaxLines => Cardinality(lines'[log]) >= MaxLines
    <3>0. IsFiniteSet(lines[log])
      BY <2>3, LinesFinite
    <3>1. IsFiniteSet(lines'[log])
      BY <2>4, <3>0, FS_AddElement
    <3>2. /\ Cardinality(lines[log]) <= Cardinality(lines'[log])
          /\ Cardinality(lines[log]) \in Nat /\ Cardinality(lines'[log]) \in Nat
      BY <2>4, <3>0, <3>1, FS_Subset, FS_CardinalityType
    <3> QED
      BY <3>2, LogAssumption
  <2>6. \A t \in Tasks : add[t].at \in {"stat", "rename", "open"} =>
           add[t].entry # log /\ lines'[add[t].entry] = {}
    <3> SUFFICES ASSUME NEW t \in Tasks, add[t].at \in {"stat", "rename", "open"}
                 PROVE  add[t].entry # log /\ lines'[add[t].entry] = {}
      OBVIOUS
    <3>1. add[t].entry \in Entries
      BY <1>0, LogAssumption DEF Distinct, Active, LogTypeOK, Entries
    <3> QED
      BY <2>4, <3>1 DEF Tidy
  <2>7. \A e \in Entries : e > count => lines'[e] = {}
    <3>1. \A e \in Entries : e > count => e # log
      BY <1>0, <2>3
    <3> QED
      BY <2>4, <3>1 DEF Tidy
  <2>8. lines'[log] \subseteq {written'[j] : j \in DOMAIN written'}
    <3>1. lines[log] \subseteq {written[j] : j \in DOMAIN written}
      BY <1>0, <2>3 DEF Tidy
    <3>2. \A e \in lines'[log] : \E j \in DOMAIN written' : e = written'[j]
      BY <2>2, <2>4, <3>1
    <3> QED
      BY <3>2
  <2>9. \A i, j \in DOMAIN written' :
           written'[j] \in lines'[log] /\ written'[i] \notin lines'[log] => i < j
    <3> SUFFICES ASSUME NEW i \in DOMAIN written', NEW j \in DOMAIN written',
                        written'[j] \in lines'[log], written'[i] \notin lines'[log]
                 PROVE  i < j
      OBVIOUS
    <3>1. i \in DOMAIN written /\ written'[i] = written[i] /\ written[i] \notin lines[log]
      BY <2>2, <2>4
    <3>2. CASE j = Len(written) + 1
      BY <2>2, <3>1, <3>2
    <3>3. CASE j \in DOMAIN written
      <4>1. written[j] \in lines[log]
        BY <2>2, <2>4, <3>3 DEF Distinct
      <4> QED
        BY <1>0, <2>3, <3>1, <3>3, <4>1 DEF Tidy
    <3> QED
      BY <2>2, <3>2, <3>3
  <2> QED
    BY <2>1, <2>3, <2>5, <2>6, <2>7, <2>8, <2>9 DEF Tidy
<1>8. CASE Stopped
  <2>1. /\ \A t \in Tasks : add'[t] = Out
        /\ pending' = {} /\ UNCHANGED <<count, log, backup, lines, written, raced>>
    BY <1>8, LogTypeStopped
  <2> QED
    BY <2>1, EntryFacts DEF Tidy
<1> QED
  BY <1>1, <1>2, <1>3, <1>4, <1>5, <1>6, <1>7, <1>8 DEF LogStep, AddStep

LEMMA LogKeptAlways == Spec => []LogKept
<1>1. Init => LogKept
  <2> SUFFICES ASSUME Init PROVE LogKept
    OBVIOUS
  <2>1. /\ \A t \in Tasks : add[t].at = "out"
        /\ pending = {} /\ written = <<>> /\ log = None
        /\ \A e \in Entries : lines[e] = {}
    BY EntryFacts DEF Init, LogInit, Entries
  <2>2. DOMAIN written = {}
    BY <2>1
  <2> QED
    BY <2>1, <2>2, LogTypeInit DEF LogKept, Distinct, Active, Tidy
<1>2. LogKept /\ [Next]_vars => LogKept'
  <2> SUFFICES ASSUME LogKept, [Next]_vars PROVE LogKept'
    OBVIOUS
  <2>1. CASE LogStep
    <3>1. raced => raced'
      BY <2>1 DEF LogStep, AddStep, Push, Stat, Rename, Open, Write, OpenFails, Flush, Stopped
    <3> QED
      BY <2>1, <3>1, DistinctNext, TidyNext DEF LogKept
  <2>2. CASE UNCHANGED logvars
    <3>1. LogTypeOK'
      BY <2>2 DEF logvars, LogKept, LogTypeOK
    <3>2. Distinct'
      BY <2>2 DEF logvars, LogKept, Distinct, Active
    <3>3. raced' \/ Tidy'
      BY <2>2 DEF logvars, LogKept, Tidy
    <3> QED
      BY <3>1, <3>2, <3>3 DEF LogKept
  <2> QED
    BY <2>1, <2>2, LogSteps
<1> QED
  BY <1>1, <1>2, PTL DEF Spec

\* Every variable of the server's life and of its audit log keeps its type; the
\* ring of entries never outgrows its capacity.
THEOREM TypeCorrect == Spec => []TypeOK
<1>1. LogKept /\ Kept => TypeOK
  BY DEF LogKept, Kept, TypeOK
<1> QED
  BY <1>1, AlwaysKept, LogKeptAlways, PTL

-----------------------------------------------------------------------------
(* What a rotation takes off the disk.                                     *)

\* The lines of s that come after the i-th and are in D.
Later(s, i, D) == {j \in DOMAIN s : j > i /\ s[j] \in D}

LEMMA LaterFinite ==
    ASSUME NEW s \in Seq(Entries), NEW i, NEW D
    PROVE  IsFiniteSet(Later(s, i, D)) /\ Cardinality(Later(s, i, D)) \in Nat
<1>1. DOMAIN s = 1..Len(s) /\ Len(s) \in Nat
  OBVIOUS
<1>2. IsFiniteSet(DOMAIN s)
  BY <1>1, FS_Interval
<1>3. IsFiniteSet(Later(s, i, D))
  BY <1>2, FS_Subset DEF Later
<1> QED
  BY <1>3, FS_CardinalityType

\* Lines that come are as good as lines that were there.
LEMMA LaterGrows ==
    ASSUME NEW s \in Seq(Entries), NEW i, NEW D, NEW S \in SUBSET Later(s, i, D),
           Cardinality(S) >= MaxLines
    PROVE  Cardinality(Later(s, i, D)) >= MaxLines
<1>1. /\ IsFiniteSet(S) /\ Cardinality(S) <= Cardinality(Later(s, i, D))
      /\ Cardinality(Later(s, i, D)) \in Nat
  BY LaterFinite, FS_Subset
<1>2. Cardinality(S) \in Nat
  BY <1>1, FS_CardinalityType
<1> QED
  BY <1>1, <1>2, LogAssumption

\* A set whose every member was written as one of J is no larger than J.
LEMMA WrittenSize ==
    ASSUME NEW J, IsFiniteSet(J), NEW L, \A e \in L : \E j \in J : written[j] = e
    PROVE  /\ IsFiniteSet(L)
           /\ Cardinality(L) <= Cardinality(J)
<1> DEFINE K == {j \in J : written[j] \in L}
           f == [j \in K |-> written[j]]
<1>1. IsFiniteSet(K) /\ Cardinality(K) <= Cardinality(J)
  BY FS_Subset
<1>2. f \in Surjection(K, L)
  BY DEF Surjection
<1>3. IsFiniteSet(L) /\ Cardinality(L) <= Cardinality(K)
  BY <1>1, <1>2, FS_Surjection
<1>4. Cardinality(L) \in Nat /\ Cardinality(K) \in Nat /\ Cardinality(J) \in Nat
  BY <1>1, <1>3, FS_CardinalityType
<1> QED
  BY <1>1, <1>3, <1>4

\* A rotation leaves a full file, written after everything it takes away.
LEMMA AfterRename ==
    ASSUME LogTypeOK, Tidy, NEW t \in Tasks, add[t].at = "rename",
           NEW i \in DOMAIN written, written[i] \notin lines[log]
    PROVE  Cardinality(Later(written, i, lines[log])) >= MaxLines
<1> DEFINE J == Later(written, i, lines[log])
<1>1. log # None /\ Cardinality(lines[log]) >= MaxLines
  BY DEF Tidy
<1>2. \A e \in lines[log] : \E j \in J : written[j] = e
  BY <1>1 DEF Tidy, Later
<1>3. IsFiniteSet(J) /\ Cardinality(J) \in Nat
  BY LaterFinite DEF LogTypeOK
<1>4. IsFiniteSet(lines[log]) /\ Cardinality(lines[log]) <= Cardinality(J)
  BY <1>2, <1>3, WrittenSize
<1>5. Cardinality(lines[log]) \in Nat
  BY <1>4, FS_CardinalityType
<1> QED
  BY <1>1, <1>3, <1>4, <1>5, LogAssumption

\* A line gone from the disk has MaxLines later ones there.
Outlived == \A i \in DOMAIN written :
               written[i] \notin OnDisk => Cardinality(Later(written, i, OnDisk)) >= MaxLines

\* Only a rename takes lines off the disk.
LEMMA OutlivedNext ==
    ASSUME LogKept, LogKept', Outlived, LogStep, ~raced, ~raced'
    PROVE  Outlived'
<1>0. LogTypeOK /\ LogTypeOK' /\ Distinct /\ Tidy /\ None \notin Entries
  BY EntryFacts DEF LogKept
<1>1. ASSUME NEW t \in Tasks, Rename(t), log' # log PROVE Outlived'
  <2>1. /\ add[t].at = "rename" /\ log' = None /\ backup' = log /\ log \in Entries
        /\ UNCHANGED <<lines, written>>
    BY <1>0, <1>1 DEF Rename, LogTypeOK
  <2>2. OnDisk' = lines[log]
    BY <1>0, <2>1 DEF OnDisk
  <2> QED
    BY <1>0, <2>1, <2>2, AfterRename DEF Outlived
<1>2. ASSUME NEW t \in Tasks, Open(t) PROVE Outlived'
  <2>1. /\ add[t].at = "open" /\ UNCHANGED <<backup, lines, written>>
        /\ log' = IF log # None THEN log ELSE add[t].entry
    BY <1>2 DEF Open
  <2>2. log = None => lines[log'] = {}
    BY <1>0, <2>1 DEF Tidy
  <2>3. OnDisk' = OnDisk
    <3>1. CASE log = None
      BY <1>0, <2>1, <2>2, <3>1 DEF OnDisk
    <3>2. CASE log # None
      BY <2>1, <3>2 DEF OnDisk
    <3> QED
      BY <3>1, <3>2
  <2> QED
    BY <2>1, <2>3 DEF Outlived
<1>3. CASE Flush
  <2>1. PICK w \in pending :
           /\ pending' = pending \ {w}
           /\ lines' = [lines EXCEPT ![w.fd] = lines[w.fd] \cup {w.entry}]
           /\ written' = Append(written, w.entry)
           /\ UNCHANGED <<ring, count, add, log, backup, raced>>
    BY <1>3 DEF Flush
  <2>2. /\ w.fd \in Entries /\ w.entry \in Entries
        /\ DOMAIN written = 1..Len(written) /\ DOMAIN written' = 1..(Len(written) + 1)
        /\ Len(written) \in Nat /\ written'[Len(written) + 1] = w.entry
        /\ \A i \in DOMAIN written : written'[i] = written[i]
    BY <1>0, <2>1, LogTypeFlush
  <2>3. /\ \A e \in Entries : lines[e] \subseteq lines'[e]
        /\ w.entry \in lines'[log] /\ log \in {log, backup} \ {None}
    BY <1>0, <2>1, <2>2 DEF Tidy, LogTypeOK, Entries
  <2>4. OnDisk \subseteq OnDisk' /\ w.entry \in OnDisk'
    BY <1>0, <2>1, <2>3 DEF OnDisk, LogTypeOK
  <2>5. ASSUME NEW i \in DOMAIN written', written'[i] \notin OnDisk'
        PROVE  Cardinality(Later(written', i, OnDisk')) >= MaxLines
    <3>1. i \in DOMAIN written /\ written[i] \notin OnDisk
      BY <2>2, <2>4, <2>5
    <3>2. Later(written, i, OnDisk) \subseteq Later(written', i, OnDisk')
      BY <2>2, <2>4 DEF Later
    <3>3. Cardinality(Later(written, i, OnDisk)) >= MaxLines
      BY <3>1 DEF Outlived
    <3>4. written' \in Seq(Entries)
      BY <1>0 DEF LogTypeOK
    <3> QED
      BY <3>2, <3>3, <3>4, LaterGrows
  <2> QED
    BY <2>5 DEF Outlived
<1>4. ASSUME UNCHANGED <<log, backup, lines, written>> PROVE Outlived'
  BY <1>4 DEF Outlived, OnDisk
<1>5. ASSUME NEW t \in Tasks, Rename(t), log' = log PROVE Outlived'
  BY <1>4, <1>5, <1>0 DEF Rename
<1> QED
  BY <1>1, <1>2, <1>3, <1>4, <1>5
  DEF LogStep, AddStep, Push, Stat, Write, OpenFails, Stopped

\* config.rs:70-72, 79-80: unless two appends met at a rotation, a line leaves the
\* disk only when MaxLines later ones are there.
THEOREM RotationSound == Spec => []RotationKeepsNewest
<1>1. RotationKeepsNewest <=> raced \/ Outlived
  BY DEF RotationKeepsNewest, Outlived, Later
<1>2. Init => raced \/ Outlived
  <2> SUFFICES ASSUME Init PROVE Outlived
    OBVIOUS
  <2>1. DOMAIN written = {}
    BY DEF Init, LogInit
  <2> QED
    BY <2>1 DEF Outlived
<1>3. LogKept /\ LogKept' /\ (raced \/ Outlived) /\ [Next]_vars => raced' \/ Outlived'
  <2> SUFFICES ASSUME LogKept, LogKept', raced \/ Outlived, [Next]_vars, ~raced'
               PROVE  Outlived'
    OBVIOUS
  <2>1. CASE LogStep
    <3>1. ~raced
      BY <2>1 DEF LogStep, AddStep, Push, Stat, Rename, Open, Write, OpenFails, Flush, Stopped
    <3> QED
      BY <2>1, <3>1, OutlivedNext
  <2>2. CASE UNCHANGED logvars
    BY <2>2 DEF logvars, Outlived, OnDisk
  <2> QED
    BY <2>1, <2>2, LogSteps
<1> QED
  BY <1>1, <1>2, <1>3, LogKeptAlways, PTL DEF Spec

=============================================================================
