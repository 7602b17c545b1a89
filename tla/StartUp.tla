------------------------------- MODULE StartUp -------------------------------
(***************************************************************************)
(* The life of the server process (`run` in server.rs): configuration,     *)
(* secrets and certificates are created in place on the first start and    *)
(* read back on every later one, the first audit entry is logged, the      *)
(* server serves, drains and exits.  It may die at any step, and a write   *)
(* may fail.  A file is absent (None), created but empty (0), or holds     *)
(* what start number n wrote.                                              *)
(*                                                                         *)
(* clients.json and auth.json are in StoreFile; the audit log, whose files *)
(* outlive the process, is AuditLog.                                       *)
(* Bounds: MaxStarts starts; MaxEntries audit entries; the operator        *)
(* removes at most one certificate file, to have the set renewed.          *)
(***************************************************************************)
EXTENDS AuditLog

CONSTANT MaxStarts

ASSUME StartAssumption == MaxStarts \in Nat \ {0}

VARIABLES
    file,    \* [Files -> None, 0 or the start that wrote it]
    at,      \* how far run() is; the name of a file: about to look at it
    step,    \* at a file: "look" for it, or "write" what was created
    starts,  \* starts so far
    mem,     \* [Secrets -> value]: the secrets in AppState
    issued,  \* [Secrets -> values tokens and cookies were made with] (history)
    pinned,  \* CA certificates handed to clients (history)
    renewed, \* has the operator removed a certificate file?
    mishap   \* a start died while it filled a file or replaced the set (history)

runvars == <<file, at, step, starts, mem, issued, pinned, renewed, mishap>>
vars == <<logvars, runvars>>

Secrets == {"jwt_secret", "token_pepper"}
Certs == {"ca", "ca_key", "cert", "key"}
Files == {"config"} \cup Secrets \cup Certs

\* The order in which run() looks at files, and what comes after the last one.
Following == [config       |-> "jwt_secret",
              jwt_secret   |-> "token_pepper",
              token_pepper |-> "ca",
              ca |-> "ca_key", ca_key |-> "cert", cert |-> "key", key |-> "load"]

Init ==
    /\ LogInit
    /\ file = [f \in Files |-> None]
    /\ at = "down" /\ step = "look"
    /\ starts = 0
    /\ mem = [s \in Secrets |-> 0]
    /\ issued = [s \in Secrets |-> {}]
    /\ pinned = {}
    /\ renewed = FALSE /\ mishap = FALSE

-----------------------------------------------------------------------------
(* Starting.                                                               *)

Start ==
    /\ at = "down" /\ starts < MaxStarts
    /\ at' = "config"
    /\ starts' = starts + 1
    /\ UNCHANGED <<logvars, file, step, mem, issued, pinned, renewed, mishap>>

\* The process is gone.  An empty file, or a set of certificates of which some
\* are new and some old, may stay behind.
Down ==
    /\ Stopped
    /\ at' = "down" /\ step' = "look"
    /\ mem' = [s \in Secrets |-> 0]
    /\ UNCHANGED <<file, starts, issued, pinned, renewed>>

\* What the next start would take for complete although it is not.
CutShort ==
    \/ /\ at \in {"config"} \cup Secrets /\ step = "write"
    \/ /\ at \in Certs /\ \A c \in Certs : file[c] # None
       /\ \/ step = "write"
          \/ \E c \in Certs : file[c] = starts

\* The process is killed, or a `?` ends run().
Die ==
    /\ at # "down"
    /\ Down
    /\ mishap' = (mishap \/ CutShort)

\* load_or_create and the secrets: what is there is read; an empty secret is as
\* good as any, an empty configuration does not parse.
Read ==
    /\ at \in {"config"} \cup Secrets /\ step = "look"
    /\ file[at] # None
    /\ IF at = "config" /\ file[at] = 0
       THEN Down /\ UNCHANGED mishap
       ELSE /\ mem' = IF at \in Secrets THEN [mem EXCEPT ![at] = file[at]] ELSE mem
            /\ at' = Following[at]
            /\ UNCHANGED <<logvars, file, step, starts, issued, pinned, renewed, mishap>>

\* Fault: the server certificate alone tells whether there is a set.
CertFileThere ==
    /\ at = "ca" /\ step = "look"
    /\ file["cert"] # None
    /\ at' = "load"
    /\ UNCHANGED <<logvars, file, step, starts, mem, issued, pinned, renewed, mishap>>

\* ensure_ca_and_server_cert: a complete set is taken as it is.
CertsThere ==
    /\ at = "ca" /\ step = "look"
    /\ \A c \in Certs : file[c] # None
    /\ at' = "load"
    /\ UNCHANGED <<logvars, file, step, starts, mem, issued, pinned, renewed, mishap>>

\* Fault: of an incomplete set, only the missing files are made.
CreateAbsent ==
    /\ step = "look" /\ at \in Files
    /\ \/ /\ file[at] = None
          /\ file' = [file EXCEPT ![at] = 0]
          /\ step' = "write" /\ at' = at
       \/ /\ at \in Certs /\ file[at] # None
          /\ at' = Following[at]
          /\ UNCHANGED <<file, step>>
    /\ UNCHANGED <<logvars, starts, mem, issued, pinned, renewed, mishap>>

\* Fault: the set is made anew at every start.
CreateAnew ==
    /\ step = "look"
    /\ at \in {"config"} \cup Secrets => file[at] = None
    /\ at \in Files
    /\ file' = [file EXCEPT ![at] = 0]
    /\ step' = "write"
    /\ UNCHANGED <<logvars, at, starts, mem, issued, pinned, renewed, mishap>>

\* fs::write creates or truncates the file ...
Create ==
    /\ step = "look"
    /\ \/ at \in {"config"} \cup Secrets /\ file[at] = None
       \/ at = "ca" /\ \E c \in Certs : file[c] = None
       \/ at \in Certs \ {"ca"}
    /\ file' = [file EXCEPT ![at] = 0]
    /\ step' = "write"
    /\ UNCHANGED <<logvars, at, starts, mem, issued, pinned, renewed, mishap>>

\* Fault: the error of a write is ignored.
FillIgnored ==
    /\ step = "write"
    /\ file' \in {file, [file EXCEPT ![at] = starts]}
    /\ mem' = IF at \in Secrets THEN [mem EXCEPT ![at] = starts] ELSE mem
    /\ at' = Following[at] /\ step' = "look"
    /\ UNCHANGED <<logvars, starts, issued, pinned, renewed, mishap>>

\* ... and then fills it.
FillFile ==
    /\ step = "write"
    /\ file' = [file EXCEPT ![at] = starts]
    /\ mem' = IF at \in Secrets THEN [mem EXCEPT ![at] = starts] ELSE mem
    /\ at' = Following[at] /\ step' = "look"
    /\ UNCHANGED <<logvars, starts, issued, pinned, renewed, mishap>>

\* The stores are loaded and the first audit entry is added.
Load ==
    /\ at = "load"
    /\ \E t \in Tasks : Push(t)
    /\ at' = "log"
    /\ UNCHANGED <<file, step, starts, mem, issued, pinned, renewed, mishap>>

Logged ==
    /\ at = "log" /\ \A t \in Tasks : add[t] = Out
    /\ at' = "acceptor"
    /\ UNCHANGED <<logvars, file, step, starts, mem, issued, pinned, renewed, mishap>>

\* The server's certificate can be read and belongs to its key.
KeyFits == file["cert"] # 0 /\ file["cert"] = file["key"]

\* build_tls_acceptor; then the tunnel listener, the sampler and the Web
\* server run.
Acceptor ==
    /\ at = "acceptor"
    /\ IF KeyFits
       THEN at' = "up" /\ UNCHANGED <<logvars, file, step, starts, mem, issued, pinned, renewed>>
       ELSE Down
    /\ UNCHANGED mishap

-----------------------------------------------------------------------------
(* Serving and leaving.                                                    *)

\* A login makes a cookie with the JWT secret, create_client a token with the
\* pepper.
Issue(s) ==
    /\ at = "up"
    /\ issued' = [issued EXCEPT ![s] = @ \cup {mem[s]}]
    /\ UNCHANGED <<logvars, file, at, step, starts, mem, pinned, renewed, mishap>>

\* The operator distributes ca.pem.
HandOut ==
    /\ at = "up"
    /\ pinned' = pinned \cup {file["ca"]}
    /\ UNCHANGED <<logvars, file, at, step, starts, mem, issued, renewed, mishap>>

\* Requests and tunnel tasks log.
Logging ==
    /\ \/ at \in {"up", "drain"} /\ \E t \in Tasks : Push(t)
       \/ at # "down" /\ (Flush \/ \E t \in Tasks : AddStep(t))
    /\ UNCHANGED runvars

\* The signal: the Web server finishes, the tunnel listener is aborted, and
\* what runs has two seconds left.
Signal ==
    /\ at = "up"
    /\ at' = "drain"
    /\ UNCHANGED <<logvars, file, step, starts, mem, issued, pinned, renewed, mishap>>

Leave ==
    /\ at = "drain"
    /\ Down
    /\ UNCHANGED mishap

\* To have the certificates renewed, the operator removes one of them.  (While
\* the server runs nobody would look.)
RemoveCert ==
    /\ at = "down" /\ ~renewed
    /\ \E c \in Certs : file[c] # None /\ file' = [file EXCEPT ![c] = None]
    /\ renewed' = TRUE
    /\ UNCHANGED <<logvars, at, step, starts, mem, issued, pinned, mishap>>

Next == \/ Start \/ Read \/ CertsThere \/ Create \/ FillFile \/ Load \/ Logged \/ Acceptor
        \/ Die \/ (\E s \in Secrets : Issue(s)) \/ HandOut \/ Logging
        \/ Signal \/ Leave \/ RemoveCert

Spec == Init /\ [][Next]_vars

-----------------------------------------------------------------------------
(* Properties.                                                             *)

Value == 0..MaxStarts

\* Every variable has its type.
RunTypeOK ==
    /\ file \in [Files -> Value \cup {None}]
    /\ at \in Files \cup {"down", "load", "log", "acceptor", "up", "drain"}
    /\ step \in {"look", "write"}
    /\ starts \in Value
    /\ mem \in [Secrets -> Value]
    /\ issued \in [Secrets -> SUBSET Value]
    /\ pinned \subseteq Value \cup {None}
    /\ renewed \in BOOLEAN /\ mishap \in BOOLEAN

TypeOK == LogTypeOK /\ RunTypeOK

\* server.rs:34-48: what was made with a secret in one life of the server is
\* valid in every later one: the secret in memory never differs from the one
\* in the file, and a file once read is never written again.
TokensStayValid == at = "up" => \A s \in Secrets : issued[s] \subseteq {mem[s]}

\* config.rs:37-38: ca.pem is in sync with the server's certificate, unless a
\* start died half-way through the four files (or while it filled the
\* configuration or a secret: `mishap` tells these histories not apart).
CaMatchesCert == at = "up" /\ ~mishap => \A c \in Certs : file[c] = file["ca"]

\* A client that pinned the CA goes on accepting the server, until the operator
\* has the certificates renewed.
PinsStayValid == at = "up" /\ ~renewed => pinned \subseteq {file["cert"]}

\* A start that is cut short does not make the next one fail, unless it was
\* between creating a file and filling it, or amid a renewal.
StartsUnlessCut ==
    (\/ at = "config" /\ step = "look" /\ file[at] = 0
     \/ at = "acceptor" /\ ~KeyFits)
    => mishap

=============================================================================
