---- MODULE MetricsServer ----
(***************************************************************************)
(* http/metrics_server.cpp with the reading of utils/net.cpp, the access   *)
(* rules of security/acl.cpp and the decision of http/ingest.cpp: one      *)
(* thread that accepts a connection, reads one request, answers it and     *)
(* closes.  The owner (MetricDaemon) configures, starts and stops it.      *)
(*                                                                         *)
(* A client writes its request in parts.  What it writes ahead, while it   *)
(* waits in the backlog or while the server reads, stays in the kernel's   *)
(* buffer, so the model lets it write a part when the one before has been  *)
(* read.  A read of the server fails when nothing more is there: a timeout *)
(* or a client that has closed; and a line fails that is over the limit of *)
(* recvLine().  A read has a timeout, a write has none: the server waits   *)
(* for a client that does not take its page.  TLS is left out.             *)
(***************************************************************************)
EXTENDS RateLimiter

CONSTANTS Clients,        \* one connection each
          Chatty,         \* clients that may write header lines without end
          Offers,         \* what each client may ask, and from where
          Denied,         \* hosts that a deny_ip rule matches
          Allowed,        \* hosts that an allow_ip rule matches
          AllowEmpty,     \* no allow_ip rule is configured
          UserConfigured, \* auth_user is set
          PublicHealthz,  \* public_healthz
          Lines,          \* the lines of bodies
          Good,           \* those that parse and that the registry takes
          Refused,        \* those that parse and that upsert() refuses
          Torn,           \* a good line that another one is when its end is missing
          MaxLate,        \* bound: late header lines at the start of a body
          None

\* Content-Length absent, at most a mebibyte, or more.
Lengths == {"none", "fits", "over"}
\* The Authorization header: absent; "Basic user:pass"; a text with the user's
\* name in it that is not "Basic " with a colon behind; anything else.
Auths == {"none", "plain", "mention", "other"}
Targets == {"ingest", "metrics", "healthz", "status", "other"}
Formats == {"simple", "prometheus"}
\* Where a line of 8192 bytes or more stands: it is the request line, or one of
\* the headers up to the one that is named, or one before the blank line.
Longs == {"none", "line", "length", "auth", "blank"}
Requests == [method : {"GET", "POST"}, target : Targets, auth : Auths,
             length : Lengths, format : Formats, lines : Seq(Lines), long : Longs]

ASSUME ServerAssumption ==
    /\ Chatty \subseteq Clients
    /\ None \notin Clients
    /\ Offers \in [Clients -> SUBSET [request : Requests, peer : Keys]]
    /\ Torn \in Good
    /\ Good \subseteq Lines
    /\ Refused \subseteq Lines \ Good
    /\ MaxLate \in Nat

VARIABLES owner,      \* where the owner's calls stand
          running,    \* running_
          listening,  \* listener_ has a descriptor
          thread,     \* where acceptLoop() or handleClient() stands
          current,    \* the client whose connection is open, or None
          got,        \* content_length and authorization of handleClient()
          body,       \* request_body: its format and lines
          reply,      \* the status line about to be sent, 0 for none
          backlog,    \* the connections the kernel keeps for accept()
          conn,       \* the clients' ends of the connections
          written     \* history: the lines that each client's requests upserted

serverVars == <<owner, running, listening, thread, current, got, body, reply,
                backlog, conn, written>>
vars == <<limiterVars, serverVars>>
threadVars == <<thread, current, got, body, reply>>

NoHeaders == [length |-> "none", auth |-> "none"]
NoBody == [format |-> "simple", lines |-> <<>>]

Request(c) == conn[c].offer.request
Peer(c) == conn[c].offer.peer

\* The order in which a client writes: net.cpp's httpPost and curl alike.
Parts(r) ==
    <<"line">>
    \o (IF r.length = "none" THEN <<>> ELSE <<"length">>)
    \o (IF r.auth = "none" THEN <<>> ELSE <<"auth">>)
    \o <<"blank">>
    \o (IF r.length = "none" THEN <<>> ELSE <<"body">>)

Init ==
    /\ LimiterInit
    /\ owner = "constructed"
    /\ running = FALSE
    /\ listening = FALSE
    /\ thread = "none"
    /\ current = None
    /\ got = NoHeaders
    /\ body = NoBody
    /\ reply = 0
    /\ backlog = <<>>
    /\ \E o \in [Clients -> UNION {Offers[c] : c \in Clients}] :
          /\ \A c \in Clients : o[c] \in Offers[c]
          /\ conn = [c \in Clients |->
                       [offer |-> o[c], stage |-> "idle", sent |-> 0, read |-> 0,
                        filler |-> FALSE, gone |-> FALSE, prompt |-> TRUE, answer |-> 0]]
    /\ written = {}

----
(***************************************************************************)
(* The owner                                                               *)
(***************************************************************************)

Configure(m) ==
    /\ owner = "constructed"
    /\ SetMaxPerMinute(m)
    /\ owner' = "configured"
    /\ UNCHANGED <<running, listening, threadVars, backlog, conn, written>>

Start ==
    /\ owner = "configured"
    /\ listening' = TRUE
    /\ running' = TRUE
    /\ thread' = "loop"
    /\ owner' = "started"
    /\ UNCHANGED <<limiterVars, current, got, body, reply, backlog, conn, written>>

\* No address could be bound.  The destructor's stop() finds nothing to do.
StartFails ==
    /\ owner = "configured"
    /\ owner' = "stopped"
    /\ UNCHANGED <<limiterVars, running, listening, threadVars, backlog, conn, written>>

StopClearsRunning ==
    /\ owner = "started"
    /\ running' = FALSE
    /\ owner' = "closing"
    /\ UNCHANGED <<limiterVars, listening, threadVars, backlog, conn, written>>

\* Mutant: the thread is detached.
StopDoesNotJoin ==
    /\ owner = "joining"
    /\ owner' = "stopped"
    /\ UNCHANGED <<limiterVars, running, listening, threadVars, backlog, conn, written>>

\* The client's end of a connection that is over, with answer a.
Over(c, a) ==
    [offer |-> conn[c].offer, stage |-> "ended", sent |-> 0, read |-> 0,
     filler |-> FALSE, gone |-> conn[c].gone, prompt |-> conn[c].prompt, answer |-> a]

\* The kernel resets the connections nobody has accepted.
StopClosesListener ==
    /\ owner = "closing"
    /\ listening' = FALSE
    /\ backlog' = <<>>
    /\ conn' = [c \in Clients |->
                  IF conn[c].stage = "queued" THEN Over(c, 0) ELSE conn[c]]
    /\ owner' = "joining"
    /\ UNCHANGED <<limiterVars, running, threadVars, written>>

StopJoins ==
    /\ owner = "joining"
    /\ thread = "ended"
    /\ owner' = "stopped"
    /\ UNCHANGED <<limiterVars, running, listening, threadVars, backlog, conn, written>>

----
(***************************************************************************)
(* The clients                                                             *)
(***************************************************************************)

Connect(c) ==
    /\ listening
    /\ conn[c].stage = "idle"
    /\ conn' = [conn EXCEPT ![c].stage = "queued"]
    /\ backlog' = Append(backlog, c)
    /\ UNCHANGED <<limiterVars, owner, running, listening, threadVars, written>>

ClientStep(c) ==
    /\ conn[c].stage = "open"
    /\ ~conn[c].gone
    /\ UNCHANGED <<limiterVars, owner, running, listening, threadVars, backlog, written>>

WritePart(c) ==
    /\ ClientStep(c)
    /\ ~conn[c].filler
    /\ conn[c].sent = conn[c].read
    /\ conn[c].sent < Len(Parts(Request(c)))
    /\ conn' = [conn EXCEPT ![c].sent = @ + 1]

\* A header line that the server does not look at.
WriteFiller(c) ==
    /\ c \in Chatty
    /\ ClientStep(c)
    /\ ~conn[c].filler
    /\ conn[c].sent = conn[c].read
    /\ conn[c].sent > 0
    /\ \A i \in 1..conn[c].sent : Parts(Request(c))[i] # "blank"
    /\ conn' = [conn EXCEPT ![c].filler = TRUE]

HangUp(c) ==
    /\ ClientStep(c)
    /\ conn' = [conn EXCEPT ![c].gone = TRUE]

----
(***************************************************************************)
(* acceptLoop()                                                            *)
(***************************************************************************)

\* Mutant: running_ is not looked at.
LoopTopForever ==
    /\ thread = "loop"
    /\ thread' = "accept"
    /\ UNCHANGED <<limiterVars, owner, running, listening, current, got, body, reply,
                   backlog, conn, written>>

LoopTop ==
    /\ thread = "loop"
    /\ thread' = IF running THEN "accept" ELSE "ended"
    /\ UNCHANGED <<limiterVars, owner, running, listening, current, got, body, reply,
                   backlog, conn, written>>

\* poll() times out after half a second, or the descriptor is gone.
AcceptNothing ==
    /\ thread = "accept"
    /\ ~listening \/ backlog = <<>>
    /\ thread' = "loop"
    /\ UNCHANGED <<limiterVars, owner, running, listening, current, got, body, reply,
                   backlog, conn, written>>

Accept ==
    /\ thread = "accept"
    /\ listening
    /\ backlog # <<>>
    /\ current' = Head(backlog)
    /\ backlog' = Tail(backlog)
    /\ conn' = [conn EXCEPT ![Head(backlog)].stage = "open"]
    /\ thread' = "line"
    /\ UNCHANGED <<limiterVars, owner, running, listening, got, body, reply, written>>

----
(***************************************************************************)
(* handleClient()                                                          *)
(***************************************************************************)

\* The part that the next read finds, if it has arrived.
Arrived == conn[current].read < conn[current].sent
NextPart == Parts(Request(current))[conn[current].read + 1]

\* recvLine() gives up: it has its 8192 bytes and no end of line.  What follows
\* stays unread.
TooLong == Arrived /\ NextPart = Request(current).long

Consume == [conn EXCEPT ![current].read = @ + 1]

\* Mutant: content_length and authorization are members that keep their values.
CloseKeepingHeaders(a) ==
    /\ conn' = [conn EXCEPT ![current] = Over(current, a)]
    /\ current' = None
    /\ body' = NoBody
    /\ reply' = 0
    /\ thread' = "loop"
    /\ UNCHANGED got

\* handleClient() returns: its variables and the connection are destroyed.
CloseWith(a) ==
    /\ conn' = [conn EXCEPT ![current] = Over(current, a)]
    /\ current' = None
    /\ got' = NoHeaders
    /\ body' = NoBody
    /\ reply' = 0
    /\ thread' = "loop"

ReadStep == UNCHANGED <<limiterVars, owner, running, listening, backlog, written>>

ReadLine ==
    /\ thread = "line"
    /\ Arrived /\ ~TooLong
    /\ conn' = Consume
    /\ thread' = "headers"
    /\ ReadStep
    /\ UNCHANGED <<current, got, body, reply>>

\* Closed without an answer, which leaves answer 0.
LineFails ==
    /\ thread = "line"
    /\ ~Arrived \/ TooLong
    /\ CloseWith(0)
    /\ ReadStep

ReadHeader ==
    /\ thread = "headers"
    /\ Arrived /\ ~TooLong
    /\ NextPart \in {"length", "auth"}
    /\ got' = IF NextPart = "length" THEN [got EXCEPT !.length = Request(current).length]
              ELSE [got EXCEPT !.auth = Request(current).auth]
    /\ conn' = Consume
    /\ ReadStep
    /\ UNCHANGED <<thread, current, body, reply>>

ReadFiller ==
    /\ thread = "headers"
    /\ conn[current].filler
    /\ ~Arrived
    /\ conn' = [conn EXCEPT ![current].filler = FALSE]
    /\ ReadStep
    /\ UNCHANGED threadVars

ReadBlank ==
    /\ thread = "headers"
    /\ Arrived /\ ~TooLong
    /\ NextPart = "blank"
    /\ conn' = Consume
    /\ thread' = IF got.length = "none" THEN "decide" ELSE "length"
    /\ ReadStep
    /\ UNCHANGED <<current, got, body, reply>>

\* Mutant: a header that does not come is waited for again.
HeadersFailRetries ==
    /\ thread = "headers"
    /\ ~Arrived
    /\ ~conn[current].filler
    /\ conn' = [conn EXCEPT ![current].prompt = FALSE]
    /\ ReadStep
    /\ UNCHANGED threadVars

\* The header loop ends on a failed read as it ends on a blank line.
HeadersFail ==
    /\ thread = "headers"
    /\ ~Arrived
    /\ ~conn[current].filler
    /\ conn' = [conn EXCEPT ![current].prompt = FALSE]
    /\ thread' = IF got.length = "none" THEN "decide" ELSE "length"
    /\ ReadStep
    /\ UNCHANGED <<current, got, body, reply>>

\* It ends in the same way with a line that is too long.
HeaderTooLong ==
    /\ thread = "headers"
    /\ TooLong
    /\ thread' = IF got.length = "none" THEN "decide" ELSE "length"
    /\ ReadStep
    /\ UNCHANGED <<current, got, body, reply, conn>>

LengthFits ==
    /\ thread = "length"
    /\ got.length = "fits"
    /\ thread' = "body"
    /\ ReadStep
    /\ UNCHANGED <<current, got, body, reply, conn>>

LengthTooLarge ==
    /\ thread = "length"
    /\ got.length = "over"
    /\ CloseWith(0)
    /\ ReadStep

ReadBody ==
    /\ thread = "body"
    /\ Arrived
    /\ NextPart = "body"
    /\ body' = [format |-> Request(current).format, lines |-> Request(current).lines]
    /\ conn' = Consume
    /\ thread' = "decide"
    /\ ReadStep
    /\ UNCHANGED <<current, got, reply>>

\* The lines that are left of a body when its end is missing.
Cuts(lines) ==
    {SubSeq(lines, 1, n) : n \in 0..Len(lines)}
    \cup {Append(SubSeq(lines, 1, n), Torn) : n \in 0..(Len(lines) - 1)}

\* After a failed read of a header the next content_length bytes begin with the
\* header lines that came late, or with the rest of one that was too long, which
\* may be like any line: the body's end is missing.
Late == UNION {[1..n -> Lines] : n \in 0..MaxLate}
Astray(lines) ==
    [format : Formats, lines : {late \o cut : late \in Late, cut \in Cuts(lines)}]

ReadAstray ==
    /\ thread = "body"
    /\ Arrived
    /\ NextPart # "body"
    /\ body' \in Astray(Request(current).lines)
    /\ conn' = [conn EXCEPT ![current].read = conn[current].sent]
    /\ thread' = "decide"
    /\ ReadStep
    /\ UNCHANGED <<current, got, reply>>

BodyFails ==
    /\ thread = "body"
    /\ ~(Arrived /\ NextPart = "body")
    /\ CloseWith(0)
    /\ ReadStep

----
(***************************************************************************)
(* AclPolicy::allow(), ingestBody() and the dispatch                       *)
(***************************************************************************)

IpAllowed(peer) ==
    /\ peer.host \notin Denied
    /\ AllowEmpty \/ peer.host \in Allowed

AuthOk(auth) == UserConfigured => auth \in {"plain", "mention"}

Permitted(peer, target, auth) ==
    /\ IpAllowed(peer)
    /\ (PublicHealthz /\ target = "healthz") \/ AuthOk(auth)

\* Lines that are neither good nor refused do not parse.
Parses(lines) == \A i \in DOMAIN lines : lines[i] \in Good \cup Refused
GoodLines(lines) == {lines[i] : i \in {j \in DOMAIN lines : lines[j] \in Good}}

\* What ingestBody() upserts: line by line, but nothing of a Prometheus body
\* that does not parse as a whole.
AcceptedLines(b) ==
    IF b.format = "prometheus" /\ ~Parses(b.lines) THEN {} ELSE GoodLines(b.lines)

\* Anything was rejected.  mergePrometheusText() says nothing of a sample that
\* the registry refuses.
Rejects(b) ==
    IF b.format = "prometheus" THEN ~Parses(b.lines)
    ELSE \E i \in DOMAIN b.lines : b.lines[i] \notin Good

Ingests(r) == r.method = "POST" /\ r.target = "ingest"

Status(r, b) ==
    IF Ingests(r) THEN (IF Rejects(b) /\ AcceptedLines(b) = {} THEN 400 ELSE 200)
    ELSE IF r.method # "GET" THEN 405
    ELSE IF r.target \in {"metrics", "healthz", "status"} THEN 200
    ELSE 404

MayPass == Permitted(Peer(current), Request(current).target, got.auth)

Decided(code) ==
    /\ reply' = code
    /\ thread' = "send"
    /\ UNCHANGED <<owner, running, listening, current, got, body, backlog, conn>>

Forbid ==
    /\ thread = "decide"
    /\ ~MayPass
    /\ Decided(403)
    /\ UNCHANGED <<limiterVars, written>>

Throttle ==
    /\ thread = "decide"
    /\ MayPass
    /\ Refuse(Peer(current))
    /\ Decided(429)
    /\ UNCHANGED written

\* Mutant: a Prometheus body is merged while it is parsed.
DispatchMergesAtOnce ==
    /\ thread = "decide"
    /\ MayPass
    /\ Allow(Peer(current))
    /\ Decided(Status(Request(current), body))
    /\ written' = IF Ingests(Request(current))
                  THEN written \cup {<<current, l>> : l \in GoodLines(body.lines)}
                  ELSE written

\* Mutant: the rules are not asked.
DispatchUnchecked ==
    /\ thread = "decide"
    /\ Allow(Peer(current))
    /\ Decided(Status(Request(current), body))
    /\ written' = IF Ingests(Request(current))
                  THEN written \cup {<<current, l>> : l \in AcceptedLines(body)}
                  ELSE written

Dispatch ==
    /\ thread = "decide"
    /\ MayPass
    /\ Allow(Peer(current))
    /\ Decided(Status(Request(current), body))
    /\ written' = IF Ingests(Request(current))
                  THEN written \cup {<<current, l>> : l \in AcceptedLines(body)}
                  ELSE written

\* The page of a large registry does not fit into the buffers of a connection.
\* All other answers do.
SendsPage ==
    reply = 200 /\ Request(current).method = "GET" /\ Request(current).target = "metrics"

SendStep ==
    /\ thread = "send"
    /\ UNCHANGED <<limiterVars, owner, running, listening, backlog, written>>

\* send() returns: there is room, or nobody is left to read.
Send ==
    /\ SendStep
    /\ ~SendsPage \/ conn[current].gone
    /\ CloseWith(IF conn[current].gone THEN 0 ELSE reply)

\* send() of a page returns when the client has read enough of it; until then it
\* blocks, without a timeout.
PageTaken ==
    /\ SendStep
    /\ SendsPage /\ ~conn[current].gone
    /\ CloseWith(reply)

\* send() to a client that has gone may raise SIGPIPE, which nothing handles.
BrokenPipe ==
    /\ thread = "send"
    /\ conn[current].gone
    /\ owner' = "killed"
    /\ listening' = FALSE
    /\ thread' = "ended"
    /\ current' = None
    /\ backlog' = <<>>
    /\ conn' = [c \in Clients |->
                  IF conn[c].stage \in {"queued", "open"} THEN Over(c, 0) ELSE conn[c]]
    /\ got' = NoHeaders
    /\ body' = NoBody
    /\ reply' = 0
    /\ UNCHANGED <<limiterVars, running, written>>

----
OwnerStep == \/ \E m \in Limits : Configure(m)
             \/ Start
             \/ StartFails
             \/ StopClearsRunning
             \/ StopClosesListener
             \/ StopJoins

ThreadStep == \/ LoopTop \/ AcceptNothing \/ Accept
              \/ ReadLine \/ LineFails
              \/ ReadHeader \/ ReadFiller \/ ReadBlank \/ HeadersFail \/ HeaderTooLong
              \/ LengthFits \/ LengthTooLarge
              \/ ReadBody \/ ReadAstray \/ BodyFails
              \/ Forbid \/ Throttle \/ Dispatch
              \/ Send \/ BrokenPipe

ClientSteps == \E c \in Clients : Connect(c) \/ WritePart(c) \/ WriteFiller(c) \/ HangUp(c)

\* Nothing but allow() looks at the clock, so that it is enough to let all the
\* time that has passed pass before a request is decided.
TimePasses == thread = "decide" /\ Tick /\ UNCHANGED serverVars

Next == OwnerStep \/ ThreadStep \/ PageTaken \/ ClientSteps \/ TimePasses

Spec == Init /\ [][Next]_vars

\* The thread runs on: every read ends, by data or by its timeout, and so does
\* the sending of what the buffers hold.  stop(), once called, goes on.  Nothing
\* makes a client write or take its page, the owner stop, or time pass.
FairSpec == /\ Spec
            /\ WF_vars(ThreadStep)
            /\ WF_vars(StopClosesListener)
            /\ WF_vars(StopJoins)

----
(***************************************************************************)
(* Properties                                                              *)
(***************************************************************************)

Stages == {"idle", "queued", "open", "ended"}
Statuses == {0, 200, 400, 403, 404, 405, 429}
Places == {"none", "loop", "accept", "line", "headers", "length", "body", "decide",
           "send", "ended"}
Connections == [offer : [request : Requests, peer : Keys], stage : Stages,
                sent : Nat, read : Nat, filler : BOOLEAN, gone : BOOLEAN,
                prompt : BOOLEAN, answer : Statuses]

\* The type invariant.
TypeOK ==
    /\ maxPerMinute \in Limits \cup {0}
    /\ owner \in {"constructed", "configured", "started", "closing", "joining",
                  "stopped", "killed"}
    /\ running \in BOOLEAN
    /\ listening \in BOOLEAN
    /\ thread \in Places
    /\ current \in Clients \cup {None}
    /\ got \in [length : Lengths, auth : Auths]
    /\ body \in [format : Formats, lines : Seq(Lines)]
    /\ reply \in Statuses
    /\ backlog \in Seq(Clients)
    /\ conn \in [Clients -> Connections]
    /\ \A c \in Clients : conn[c].read <= conn[c].sent
    /\ written \subseteq Clients \X Good

Wrote(c) == \E l \in Good : <<c, l>> \in written

\* What docs/security.md:20 and docs/configuration.md:34 let in: an address that
\* the rules allow, and "Basic user:pass" if a user is configured.
Entitled(peer, target, auth) ==
    /\ IpAllowed(peer)
    /\ \/ PublicHealthz /\ target = "healthz"
       \/ UserConfigured => auth = "plain"

\* What acl.cpp:68 lets in besides: a text that only names the user.
NamesUser(peer, auth) == IpAllowed(peer) /\ auth = "mention"

\* A part of a request is heard if no line up to it is too long.
Hears(r, part) ==
    \E i \in DOMAIN Parts(r) : Parts(r)[i] = part /\ \A j \in 1..i : Parts(r)[j] # r.long

AuthHeard(r) == IF Hears(r, "auth") THEN r.auth ELSE "none"
LengthHeard(r) == IF Hears(r, "length") THEN r.length ELSE "none"

\* The bodies that a request may be taken to have: its own if it is heard to the
\* end; with a line too long none, or what follows from that line on.
BodiesHeard(r) ==
    IF LengthHeard(r) = "none" THEN {NoBody}
    ELSE IF Hears(r, "blank") THEN {[format |-> r.format, lines |-> r.lines]}
    ELSE Astray(r.lines)

\* The answer a that the request of a client deserves, and that is true of what
\* it has changed.
Deserves(c, a) ==
    LET r == Request(c) IN
    IF Entitled(Peer(c), r.target, AuthHeard(r)) \/ NamesUser(Peer(c), AuthHeard(r))
    THEN \E b \in BodiesHeard(r) :
            /\ a \in {429, Status(r, b)}
            /\ (Ingests(r) /\ a = 200) => {l \in Good : <<c, l>> \in written} = AcceptedLines(b)
    ELSE a = 403

\* An ingest that is refused has no effect: a client whose connection ended
\* with another answer than 200, or with none, has changed no metric (unless it
\* went away itself before it was answered).  It relates the status that
\* metrics_server.cpp:137-142 chooses to what ingest.cpp:73-133 has upserted.
RefusalHasNoEffect ==
    \A c \in Clients :
        Wrote(c) => \/ conn[c].answer = 200
                    \/ conn[c].gone
                    \/ current = c /\ reply = 200

\* Who changes a metric has asked for it, from an address that the rules allow
\* and with credentials of its own: metrics_server.cpp:114-135 decides on
\* variables that a read of this very connection must have set.  A text that
\* names the user counts as credentials, which CredentialsGate denies.
OnlyPermittedWrite ==
    \A c \in Clients :
        Wrote(c) => /\ Ingests(Request(c))
                    /\ \/ Entitled(Peer(c), "ingest", Request(c).auth)
                       \/ NamesUser(Peer(c), Request(c).auth)

\* docs/security.md:20: "Optional basic auth gates `/metrics` and ingest", with
\* `Authorization: Basic user:pass` (docs/configuration.md:34): with a user
\* configured, no ingest takes effect and no page is shown without them.
CredentialsGate ==
    \A c \in Clients :
        LET r == Request(c) IN
        ( /\ UserConfigured
          /\ Wrote(c) \/ (conn[c].answer = 200 /\ r.method = "GET" /\ r.target = "metrics") )
            => r.auth = "plain"

\* A client that writes its request without a pause, and waits, gets the answer
\* its own request deserves, and a 200 for an ingest means that exactly the good
\* lines of the body are in: neither an earlier connection nor the way the parts
\* were read shows in the answer (metrics_server.cpp:72-183).  With a line that
\* is too long it is a request without the headers from there on, with what
\* stands there for a body (net.cpp:182, metrics_server.cpp:85).
PromptAnswerIsRight ==
    \A c \in Clients :
        (conn[c].stage = "ended" /\ conn[c].prompt /\ conn[c].answer # 0) =>
            Deserves(c, conn[c].answer)

\* When stop() has returned, the thread is gone and no connection is open or
\* waiting: the registry it refers to may be destroyed (metrics_server.cpp:49-55).
StopLeavesNothing ==
    owner = "stopped" =>
        /\ thread \in {"none", "ended"}
        /\ \A c \in Clients : conn[c].stage \in {"idle", "ended"}

\* A client that never stops writing headers, or one that does not take its page.
HeldByHeaders == thread = "headers" /\ current \in Chatty
HeldByPage == thread = "send" /\ SendsPage

\* The only thread serves everyone in turn: unless one client holds it for ever
\* in one of two ways, every connection comes to an end.  Each read of
\* metrics_server.cpp:74-110 has a timeout, all of them together have none, and
\* neither has the send() of net.cpp:54.
EveryConnectionEnds ==
    \/ \A c \in Clients : conn[c].stage \in {"queued", "open"} ~> conn[c].stage = "ended"
    \/ <>[]HeldByHeaders
    \/ <>[]HeldByPage

\* stop() returns, unless such a client holds the thread it joins
\* (metrics_server.cpp:49-55 does not close the open connection).
StopReturns ==
    \/ owner = "closing" ~> owner \in {"stopped", "killed"}
    \/ <>[]HeldByHeaders
    \/ <>[]HeldByPage

\* docs/security.md:24: "`rate_limit_per_minute` applies per peer.  Exceeded
\* clients receive HTTP 429."  Of a limit per peer host: within one window a host
\* gets no more admissions than WindowBound allows one key.  The key has the
\* client's port in it, so that each connection is a peer of its own
\* (metrics_server.cpp:124, net.cpp:314).
LimitPerHost ==
    maxPerMinute > 0 =>
        \A k \in Keys : \A t \in 1..now :
            Cardinality({a \in {p \in Keys : p.host = k.host} \X (1..Cardinality(Clients)) :
                            /\ a[2] <= Len(admitted[a[1]])
                            /\ admitted[a[1]][a[2]] \in t..(t + Window - 1)})
              <= 2 * maxPerMinute - 1
====
