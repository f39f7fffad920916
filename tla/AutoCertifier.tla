---------------------------- MODULE AutoCertifier ----------------------------
(***************************************************************************)
(* How a node gets a subdomain with a TLS certificate: the                 *)
(* AutoCertifierClient of the node, and the AutoCertifierServer with its   *)
(* database, its DNS and the certificate authority.                        *)
(*                                                                         *)
(* The client asks for a session, then for a new subdomain, a new          *)
(* certificate or a new address of its subdomain; before it does anything  *)
(* the server connects to the address the request came from and asks       *)
(* there for the session.  The node may exit at any point and come back    *)
(* at another address, while the server goes on with what it was asked.    *)
(* Names, tokens and keys are abstracted to the number of the subdomain,   *)
(* of which only the node that got it knows the token.                     *)
(***************************************************************************)
EXTENDS Naturals

CONSTANTS
    Address,                \* where the node may be
    OneDay, MaxTimer,       \* ONE_DAY and MAX_INT_32, in units of time
    Lifetime,               \* of a certificate
    MaxRequestTime,         \* how long the node waits for the server, at most
    MaxNow, MaxRequests, MaxExits, MaxCertifierFaults

\* makeHttpRequest() gives up after minutes.
ASSUME AutoCertifierAssumption ==
    /\ OneDay \in Nat /\ MaxTimer \in Nat /\ Lifetime \in Nat /\ MaxRequestTime \in Nat
    /\ 0 < OneDay /\ 0 < MaxTimer /\ MaxRequestTime <= OneDay /\ OneDay + MaxRequestTime < Lifetime
    /\ MaxNow \in Nat /\ MaxRequests \in Nat /\ MaxExits \in Nat /\ MaxCertifierFaults \in Nat

VARIABLES
    now,
    process,    \* the node: is its certifier down, starting, running or failed, and at which address is it?
    certTask,   \* what the client is doing, for whom, since when, and the request it waits for
    ongoingSessions,
    file,       \* configFile: the subdomain and when its certificate expires
    updateTimeout,
    requests,   \* the requests the server has got, by session, and how far it is with each
    asked,      \* how many there are
    db,         \* the table subdomains: the address of each
    zone,       \* the A records in Route53
    text,       \* the ACME challenge each subdomain answers TXT queries with
    route53,    \* does the server use Route53?
    exits, certifierFaults,
    cameBackEarly  \* history: did the node come back while the server was serving a confirmed request of it?

clientVars == <<process, certTask, ongoingSessions, file, updateTimeout>>
serverVars == <<requests, db, zone, text>>
certifierVars == <<now, clientVars, serverVars, asked, route53, exits, certifierFaults, cameBackEarly>>

CertRequests == 1 .. MaxRequests
Nobody == 0         \* no address, no challenge, no timer, no subdomain, no request
NoCertTask == [kind |-> "none", of |-> "start", since |-> 0, request |-> Nobody]
NoFile == [sub |-> Nobody, expires |-> 0]
NoRequest == [kind |-> "none", sub |-> Nobody, ip |-> Nobody, at |-> "none", expires |-> 0]

CertifierTypeOK ==
    /\ now \in 0 .. MaxNow
    /\ process \in [at : {"down", "starting", "running", "failed"}, address : Address]
    /\ certTask.kind \in {"none", "create", "renew", "ip"} /\ certTask.request \in CertRequests \cup {Nobody}
    /\ ongoingSessions \subseteq CertRequests
    /\ file.sub \in CertRequests \cup {Nobody} /\ updateTimeout \in 0 .. MaxNow + Lifetime
    /\ db \in [CertRequests -> Address \cup {Nobody}] /\ zone \in [CertRequests -> Address \cup {Nobody}]
    /\ text \in [CertRequests -> CertRequests \cup {Nobody}]

CertifierInit ==
    /\ now = 1
    /\ process \in [at : {"down"}, address : Address]
    /\ certTask = NoCertTask /\ ongoingSessions = {} /\ file = NoFile /\ updateTimeout = Nobody
    /\ requests = [q \in CertRequests |-> NoRequest] /\ asked = 0
    /\ db = [s \in CertRequests |-> Nobody] /\ zone = [s \in CertRequests |-> Nobody] /\ text = [s \in CertRequests |-> Nobody]
    /\ route53 \in BOOLEAN
    /\ exits = 0 /\ certifierFaults = 0 /\ cameBackEarly = FALSE

-----------------------------------------------------------------------------
(* The client.                                                             *)

\* ensureCertificateValidity(): the last day of a certificate is for renewing it.
DueKind == IF now + OneDay >= file.expires THEN "renew" ELSE "ip"

Begin(kind, of) == certTask' = [kind |-> kind, of |-> of, since |-> now, request |-> Nobody]

\* Serving a request that the node has confirmed.
ConfirmedRequest(q) == requests[q].at \notin {"none", "challenge", "done", "failed"}

StartClient(a) ==
    /\ process.at = "down"
    /\ process' = [at |-> "starting", address |-> a]
    /\ Begin(IF file = NoFile THEN "create" ELSE DueKind, "start")
    /\ cameBackEarly' = (cameBackEarly \/ \E q \in CertRequests : ConfirmedRequest(q))
    /\ UNCHANGED <<now, ongoingSessions, file, updateTimeout, serverVars, asked, route53, exits, certifierFaults>>

\* setTimeout() takes at most MAX_INT_32, and what is left of the last day is not shortened further.
ScheduledAt(expires) ==
    LET left == IF expires <= now THEN 0 ELSE expires - now
        updateIn == IF left > OneDay THEN left - OneDay ELSE left
    IN now + (IF updateIn > MaxTimer THEN MaxTimer ELSE updateIn)

\* Seeded fault: only a new certificate sets the timer.
ScheduledAfterNewOnly == IF certTask.kind = "ip" THEN Nobody ELSE ScheduledAt(requests[certTask.request].expires)

\* The timer, set when the task is done; a new address leaves the certificate as it was.
ScheduledAfter == ScheduledAt(IF certTask.kind = "ip" THEN file.expires ELSE requests[certTask.request].expires)

\* parseIpAndPort(): the server sees where the request comes from.
RemoteAddress == process.address

\* createSession(), and the request the client sends with the session it got.
SessionCreated ==
    /\ certTask.kind # "none" /\ certTask.request = Nobody /\ asked < MaxRequests
    /\ asked' = asked + 1
    /\ ongoingSessions' = ongoingSessions \cup {asked + 1}
    /\ certTask' = [certTask EXCEPT !.request = asked + 1]
    /\ requests' = [requests EXCEPT ![asked + 1] =
           [kind |-> certTask.kind, sub |-> file.sub, ip |-> RemoteAddress, at |-> "challenge", expires |-> 0]]
    /\ UNCHANGED <<now, process, file, updateTimeout, db, zone, text, route53, exits, certifierFaults, cameBackEarly>>

\* The rest of createCertificate(), updateCertificate() and ensureCertificateValidity(), with 'updatedCertificate'.
TaskDone ==
    /\ certTask.kind # "none" /\ certTask.request # Nobody /\ requests[certTask.request].at = "done"
    /\ ongoingSessions' = ongoingSessions \ {certTask.request}
    /\ IF certTask.kind = "ip" THEN UNCHANGED file
       ELSE file' = [sub |-> requests[certTask.request].sub, expires |-> requests[certTask.request].expires]
    /\ updateTimeout' = ScheduledAfter
    /\ process' = [process EXCEPT !.at = IF @ = "starting" THEN "running" ELSE @]
    /\ certTask' = NoCertTask
    /\ UNCHANGED <<now, serverVars, asked, route53, exits, certifierFaults, cameBackEarly>>

\* What is left of the process when it exits: the file.
NodeGone ==
    /\ process' = [process EXCEPT !.at = "down"] /\ certTask' = NoCertTask
    /\ ongoingSessions' = {} /\ updateTimeout' = Nobody

\* A rejected request: start() fails, after which the server socket has no TLS; a rejection nobody handles, that of
\* the timer's callback, ends the process.  Only createCertificate() gives its session up.
TaskFailed ==
    IF certTask.of = "start"
    THEN /\ process' = [process EXCEPT !.at = "failed"] /\ certTask' = NoCertTask
         /\ ongoingSessions' = IF certTask.kind = "create" THEN ongoingSessions \ {certTask.request} ELSE ongoingSessions
         /\ UNCHANGED updateTimeout
    ELSE NodeGone

RequestRefused ==
    /\ certTask.kind # "none" /\ certTask.request # Nobody /\ requests[certTask.request].at = "failed"
    /\ TaskFailed
    /\ UNCHANGED <<now, file, serverVars, asked, route53, exits, certifierFaults, cameBackEarly>>

\* The connection is lost or times out; the server does not notice.
CertRequestLost ==
    /\ certTask.kind # "none" /\ certifierFaults < MaxCertifierFaults
    /\ certifierFaults' = certifierFaults + 1
    /\ TaskFailed
    /\ UNCHANGED <<now, file, serverVars, asked, route53, exits, cameBackEarly>>

\* AutoCertifierClientFacade.start() waits for START_TIMEOUT only; its client goes on.
StartTimesOut ==
    /\ process.at = "starting" /\ now > certTask.since
    /\ process' = [process EXCEPT !.at = "failed"]
    /\ UNCHANGED <<now, certTask, ongoingSessions, file, updateTimeout, serverVars, asked, route53, exits,
                   certifierFaults, cameBackEarly>>

TimerFires ==
    /\ updateTimeout # Nobody /\ updateTimeout = now /\ certTask = NoCertTask
    /\ updateTimeout' = Nobody
    /\ Begin(DueKind, "timer")
    /\ UNCHANGED <<now, process, ongoingSessions, file, serverVars, asked, route53, exits, certifierFaults, cameBackEarly>>

ProcessExits ==
    /\ process.at # "down" /\ exits < MaxExits
    /\ exits' = exits + 1 /\ NodeGone
    /\ UNCHANGED <<now, file, serverVars, asked, route53, certifierFaults, cameBackEarly>>

-----------------------------------------------------------------------------
(* The server.                                                             *)

Moved(q, at) == requests' = [requests EXCEPT ![q].at = at]

\* hasSession() at the address of the request, over a TLS socket.
HasSession(q) ==
    process.at \in {"starting", "running"} /\ process.address = requests[q].ip /\ q \in ongoingSessions

RunStreamrChallenge(q) ==
    /\ requests[q].at = "challenge"
    /\ Moved(q, IF HasSession(q) THEN "database" ELSE "failed")
    /\ UNCHANGED <<db, zone, text>>

\* createNewSubdomainAndCertificate() up to the database: the subdomain of request q has its number.
CreateSubdomain(q) ==
    /\ requests[q].at = "database" /\ requests[q].kind = "create"
    /\ requests' = [requests EXCEPT ![q].sub = q, ![q].at = IF route53 THEN "deletion" ELSE "order"]
    /\ db' = [db EXCEPT ![q] = requests[q].ip]
    /\ UNCHANGED <<zone, text>>

\* Database.updateSubdomainIp(), with the token of the subdomain.
UpdateSubdomainIp(q) ==
    /\ requests[q].at = "database" /\ requests[q].kind # "create"
    /\ IF db[requests[q].sub] = Nobody THEN Moved(q, "failed") /\ UNCHANGED db
       ELSE /\ db' = [db EXCEPT ![requests[q].sub] = requests[q].ip]
            /\ Moved(q, IF route53 THEN "record" ELSE IF requests[q].kind = "ip" THEN "done" ELSE "order")
    /\ UNCHANGED <<zone, text>>

SubdomainsByIp(a) == {s \in CertRequests : db[s] = a}

\* deleteRecords(): Route53 refuses the whole batch when one of the records has another value.
WithoutRecords(S, a) ==
    LET existing == {s \in S : zone[s] # Nobody}
    IN IF \E s \in existing : zone[s] # a THEN zone ELSE [s \in CertRequests |-> IF s \in existing THEN Nobody ELSE zone[s]]

Upserted(q) == [zone EXCEPT ![requests[q].sub] = requests[q].ip]

\* A new subdomain replaces the ones of its address, itself among them, which has no record yet.
ZoneAfter(q, at) == IF at = "deletion" THEN WithoutRecords(SubdomainsByIp(requests[q].ip), requests[q].ip) ELSE Upserted(q)

\* After the deletion a new subdomain gets its record; a renewal sets its record twice.
ChangeRecords(q) ==
    /\ requests[q].at \in {"deletion", "record", "again"}
    /\ zone' = IF requests[q].kind = "create" THEN ZoneAfter(q, requests[q].at) ELSE Upserted(q)
    /\ Moved(q, CASE requests[q].at = "deletion" -> "record"
                  [] requests[q].at = "record" /\ requests[q].kind = "ip" -> "done"
                  [] requests[q].at = "record" /\ requests[q].kind = "renew" -> "again"
                  [] OTHER -> "order")
    /\ UNCHANGED <<db, text>>

\* createCertificate(): an order at the certificate authority, and createChallenge() for it.
CreateChallenge(q) ==
    /\ requests[q].at = "order"
    /\ text' = [text EXCEPT ![requests[q].sub] = q]
    /\ Moved(q, "verification")
    /\ UNCHANGED <<db, zone>>

\* The DNS server or Route53, as anybody sees it.
AnswerToA(s) == IF route53 THEN zone[s] ELSE db[s]
AnswerToText(s) == text[s]
AnswerTo(question, s) == IF question = "A" THEN AnswerToA(s) ELSE AnswerToText(s)

\* deleteChallenge(): the database keeps the last challenge, Route53 does not.
WithoutChallenge(q) == IF route53 THEN [text EXCEPT ![requests[q].sub] = Nobody] ELSE text

\* The certificate authority looks the challenge up.  Route53 deletes no record that has another value by then.
OrderCompletes(q) ==
    /\ requests[q].at = "verification"
    /\ LET ok == AnswerTo("TXT", requests[q].sub) = q
       IN /\ requests' = [requests EXCEPT ![q].at = IF ok THEN "done" ELSE "failed",
                                            ![q].expires = IF ok THEN now + Lifetime ELSE 0]
          /\ text' = IF ok THEN WithoutChallenge(q) ELSE text
    /\ UNCHANGED <<db, zone>>

\* A step of a request fails: the client is told, what was done stays.
StepFails(q) ==
    /\ ConfirmedRequest(q) /\ certifierFaults < MaxCertifierFaults
    /\ Moved(q, "failed")
    /\ UNCHANGED <<db, zone, text>>

ServeStep(q) ==
    \/ RunStreamrChallenge(q) \/ CreateSubdomain(q) \/ UpdateSubdomainIp(q)
    \/ ChangeRecords(q) \/ CreateChallenge(q) \/ OrderCompletes(q)

Serve(q) ==
    /\ ServeStep(q)
    /\ UNCHANGED <<now, clientVars, asked, route53, exits, certifierFaults, cameBackEarly>>

ServeFails(q) ==
    /\ StepFails(q) /\ certifierFaults' = certifierFaults + 1
    /\ UNCHANGED <<now, clientVars, asked, route53, exits, cameBackEarly>>

\* The server stops and starts: the database and the zone stay, what it was asked does not.
ServerRestarts ==
    /\ certifierFaults < MaxCertifierFaults /\ \E q \in CertRequests : requests[q].at \notin {"none", "done", "failed"}
    /\ certifierFaults' = certifierFaults + 1
    /\ requests' = [q \in CertRequests |-> IF requests[q].at = "none" THEN requests[q] ELSE [requests[q] EXCEPT !.at = "failed"]]
    /\ UNCHANGED <<now, clientVars, db, zone, text, asked, route53, exits, cameBackEarly>>

-----------------------------------------------------------------------------
\* Timers are prompt, and a request takes at most MaxRequestTime.
Tick ==
    /\ now < MaxNow
    /\ updateTimeout = Nobody \/ now < updateTimeout
    /\ certTask = NoCertTask \/ now < certTask.since + MaxRequestTime
    /\ now' = now + 1
    /\ UNCHANGED <<clientVars, serverVars, asked, route53, exits, certifierFaults, cameBackEarly>>

CertifierNext ==
    \/ \E a \in Address : StartClient(a)
    \/ SessionCreated \/ TaskDone \/ RequestRefused \/ CertRequestLost \/ StartTimesOut \/ TimerFires \/ ProcessExits
    \/ \E q \in CertRequests : Serve(q) \/ ServeFails(q)
    \/ ServerRestarts \/ Tick

CertifierSpec == CertifierInit /\ [][CertifierNext]_certifierVars

-----------------------------------------------------------------------------
(* Correctness.                                                            *)

\* A running node renews its certificate in time: it never shows one that expired longer ago than a request to the
\* server takes.  (Not a whole day before it expires: a check that finds the last day not yet begun, and begun when
\* the new address is registered, sets the timer to the very end.)
RenewedInTime == process.at = "running" => now <= file.expires + MaxRequestTime

\* Once the certifier runs, the subdomain it holds leads to the node, by the DNS server and by Route53 alike,
\* unless the node came back while the server was still at work for an earlier run of it.
ResolvesToNode ==
    process.at = "running" /\ certTask = NoCertTask /\ ~cameBackEarly => AnswerTo("A", file.sub) = process.address

(* A node with a certificate keeps being reachable under its name: the     *)
(* certificate is renewed before it expires, and the name resolves to it.  *)
StaysReachable == RenewedInTime /\ ResolvesToNode
=============================================================================
