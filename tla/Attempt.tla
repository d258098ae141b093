------------------------------- MODULE Attempt -------------------------------
(***************************************************************************)
(* One attempt of the delivery worker, from the row it read to the outcome *)
(* it writes (processDelivery in workers/delivery.ts with the sandbox, the *)
(* signature, the address guard and the pinned fetch). Delivery.tla leaves *)
(* all of this to one step; here the resolver, the destination and the     *)
(* timer of the request interleave with it. What a filter rule says of an  *)
(* event is a parameter; FilteredAttempt puts the evaluator there.         *)
(***************************************************************************)
EXTENDS Integers, FiniteSets

CONSTANTS
  Nothing,       \* no rule
  Rules,         \* filter rules a route may have, and Nothing
  Verdict(_, _), \* "true", "false" or "throw", of a rule and a payload
  Payloads,      \* parsed bodies
  Codes,         \* what a transformation may do: "none", "value", "throws", "loops"
  Secrets,       \* outbound secrets: "none", "opens", "garbled"
  EventHeaders,  \* names of the headers the provider sent, lower-case
  Statics,       \* sets of static headers a destination may have: <<name, spelling>>
  Urls,          \* [kind: "invalid"], [kind: "literal", ip], [kind: "name"]
  Addresses,     \* the first three bytes of the addresses a name may resolve to
  Statuses,      \* of responses
  MaxAttempts

ASSUME AttemptAssumption ==
  /\ MaxAttempts \in Nat \ {0}
  /\ Statuses \subseteq Nat \ {0}
  /\ Addresses \subseteq Nat
  /\ \A u \in Urls : u.kind = "literal" => u.ip \in Nat

VARIABLES
  rule, payload, code, secret, statics, url, attempt,   \* what was read
  pc,
  headers,     \* of the request: spelled name -> origin of the value
  body,        \* "raw" or "new", of the transformation
  timer,       \* "off", "armed", "fired"
  ips,         \* the addresses the guard approved, the first of them first
  peer,        \* the address the socket is connected to, or NoPeer
  status,      \* of the response, 0 if none
  error,       \* "none", or what failed
  terminal, outcome

filtered    == <<rule, payload>>
input       == <<code, secret, statics, url, attempt>>
request     == <<headers, body>>
attemptVars == <<filtered, input, request, pc, timer, ips, peer, status, error, terminal, outcome>>

NoPeer == -1

AttemptInit ==
  /\ rule \in Rules /\ payload \in Payloads
  /\ code = "none" /\ secret = "none" /\ statics = {} /\ url = [kind |-> "invalid"]
  /\ attempt = 1
  /\ pc = "filter" /\ headers = <<>> /\ body = "raw" /\ timer = "off"
  /\ ips = <<>> /\ peer = NoPeer /\ status = 0 /\ error = "none" /\ terminal = FALSE
  /\ outcome = "none"

Goto(label) == pc' = label

-----------------------------------------------------------------------------
(* The request.                                                             *)

Sensitive == {"authorization"}
HopByHop  == {"length"}

\* sanitizeHeaders: what is forwarded of the provider's headers.
Forwarded == {<<n, "lower">> : n \in EventHeaders \ (Sensitive \cup HopByHop)}

\* The object spread of two sets of headers: names differ if their spelling does.
Overlay(f, g) ==
  [k \in DOMAIN f \cup DOMAIN g |-> IF k \in DOMAIN g THEN g[k] ELSE f[k]]

Merged(static) == Overlay([k \in Forwarded |-> "event"], [k \in static |-> "static"])

\* The values the destination receives under a name, whatever its spelling.
Received(name) == {headers[k] : k \in {h \in DOMAIN headers : h[1] = name}}

\* The filter, before the claim; one that throws does not hold the event back.
\* The rule and the parsed event are not looked at again.
Filter ==
  /\ pc = "filter" /\ rule' = Nothing /\ payload' = Nothing
  /\ IF rule # Nothing /\ Verdict(rule, payload) = "false"
     THEN Goto("done") /\ outcome' = "skipped"
     ELSE Goto("claim") /\ UNCHANGED outcome
  /\ UNCHANGED <<input, request, timer, ips, peer, status, error, terminal>>

\* claimDelivery, which another job may have won. What the route and the row of
\* the destination held when they were read matters from here on.
Claim ==
  /\ pc = "claim"
  /\ \/ /\ Goto("build") /\ UNCHANGED outcome
        /\ code' \in Codes /\ secret' \in Secrets /\ statics' \in Statics
        /\ url' \in Urls /\ attempt' \in 1..MaxAttempts
        /\ headers' = Merged(statics')
     \/ Goto("done") /\ outcome' = "left" /\ UNCHANGED <<input, headers>>
  /\ UNCHANGED <<filtered, body, timer, ips, peer, status, error, terminal>>

\* Mutant of Interrupted: the handler is not installed.
InterruptedNever == FALSE

\* The interrupt handler of the runtime stops code that runs past its deadline.
Interrupted == code = "loops"

\* Code that loops goes on.
Loop == pc = "build" /\ code = "loops" /\ UNCHANGED attemptVars

\* runTransformation.
Transform ==
  /\ pc = "build"
  /\ code = "loops" => Interrupted
  /\ Goto("sign")
  /\ IF code = "value"
     THEN /\ body' = "new" /\ UNCHANGED error
          /\ headers' = Overlay(headers, [k \in {<<"type", "lower">>} |-> "json"])
     ELSE /\ error' = IF code = "none" THEN "none" ELSE "transform"
          /\ UNCHANGED request
  /\ UNCHANGED <<filtered, input, timer, ips, peer, status, terminal, outcome>>

\* Mutant of Signature: of the body as it was received.
SignatureOfRaw == [k \in {<<"signature", "title">>} |-> "raw"]

\* signOutbound, of the body that will be sent.
Signature == [k \in {<<"signature", "title">>} |-> body]

\* The signature, then the timer; a failed transformation is not sent.
Sign ==
  /\ pc = "sign"
  /\ headers' = IF error = "none" /\ secret = "opens" THEN Overlay(headers, Signature)
                ELSE headers
  /\ IF error = "none" THEN Goto("resolve") /\ timer' = "armed"
     ELSE Goto("settle") /\ UNCHANGED timer
  /\ UNCHANGED <<filtered, input, body, ips, peer, status, error, terminal, outcome>>

\* The timer aborts the request, wherever it is.
Abort ==
  /\ timer = "armed"
  /\ timer' = "fired"
  /\ UNCHANGED <<filtered, input, request, pc, ips, peer, status, error, terminal, outcome>>

-----------------------------------------------------------------------------
(* The guard (lib/ssrf.ts).                                                 *)

Prefix(a, b, c) == (a * 256 + b) * 256 + c

\* PRIVATE_IPV4_RANGES, by the leading bytes and the length of the prefix.
PrivateRanges ==
  {<<Prefix(0, 0, 0), 8>>, <<Prefix(10, 0, 0), 8>>, <<Prefix(100, 64, 0), 10>>,
   <<Prefix(127, 0, 0), 8>>, <<Prefix(169, 254, 0), 16>>, <<Prefix(172, 16, 0), 12>>,
   <<Prefix(192, 0, 0), 24>>, <<Prefix(192, 0, 2), 24>>, <<Prefix(192, 168, 0), 16>>,
   <<Prefix(198, 18, 0), 15>>, <<Prefix(198, 51, 100), 24>>, <<Prefix(203, 0, 113), 24>>,
   <<Prefix(224, 0, 0), 4>>, <<Prefix(240, 0, 0), 4>>}

Masked(ip, bits) == ip \div 2^(24 - bits)

IsPrivate(ip) == \E r \in PrivateRanges : Masked(ip, r[2]) = Masked(r[1], r[2])

\* A name is refused if any of its addresses is private.
Safe(answer) == \A i \in DOMAIN answer : ~IsPrivate(answer[i])

\* What dns.lookup may answer; a literal needs no lookup.
Answers ==
  IF url.kind = "literal" THEN {<<url.ip>>}
  ELSE UNION {[1..n -> Addresses] : n \in 1..2}

-----------------------------------------------------------------------------
(* safeFetch.                                                               *)

\* resolveSafe: SsrfError for a URL that is refused.
Resolve ==
  /\ pc = "resolve"
  /\ \/ /\ url.kind = "invalid"
        /\ Goto("settle") /\ error' = "blocked" /\ terminal' = TRUE /\ UNCHANGED ips
     \/ /\ url.kind # "invalid"
        /\ \E answer \in Answers :
             IF Safe(answer)
             THEN Goto("connect") /\ ips' = answer /\ UNCHANGED <<error, terminal>>
             ELSE /\ Goto("settle") /\ error' = "blocked" /\ terminal' = TRUE
                  /\ UNCHANGED ips
  /\ UNCHANGED <<filtered, input, request, timer, peer, status, outcome>>

\* dns.lookup fails or has no answer, which is an SsrfError too.
LookupFails ==
  /\ pc = "resolve" /\ url.kind = "name"
  /\ Goto("settle") /\ error' = "lookup" /\ terminal' = TRUE
  /\ UNCHANGED <<filtered, input, request, timer, ips, peer, status, outcome>>

\* Mutant of Target: the socket looks the name up again.
TargetResolvedAgain == IF url.kind = "literal" THEN {url.ip} ELSE Addresses

\* pinnedLookup: the socket goes to the first address that was approved.
Target == {ips[1]}

Connect ==
  /\ pc = "connect" /\ timer = "armed"
  /\ peer' \in Target
  /\ Goto("fetch")
  /\ UNCHANGED <<filtered, input, request, timer, ips, status, error, terminal, outcome>>

\* Mutant of Released: the agent is closed only after a response.
ReleasedOnResponse == peer

\* The agent is closed when the fetch throws.
Released == NoPeer

\* The connection is refused or reset, or the timer fires: fetch throws.
FetchFails ==
  /\ pc \in {"connect", "fetch"}
  /\ Goto("settle") /\ peer' = Released
  /\ error' = IF timer = "fired" THEN "timeout" ELSE "network"
  /\ UNCHANGED <<filtered, input, request, timer, ips, status, terminal, outcome>>

\* The head of a response; a redirect is a response like any other.
Respond ==
  /\ pc = "fetch" /\ timer = "armed"
  /\ status' \in Statuses
  /\ error' = IF status' \in 200..299 THEN "none" ELSE "http"
  /\ Goto("read")
  /\ UNCHANGED <<filtered, input, request, timer, ips, peer, terminal, outcome>>

\* Mutant of ReadError: a failure to read the body fails the attempt.
ReadErrorKept == "network"

\* Errors while the body is read are swallowed.
ReadError == error

\* readCappedText: the body ends, or the cap is reached, or the read fails.
Read ==
  /\ pc = "read"
  /\ Goto("settle") /\ peer' = NoPeer
  /\ error' \in {error, ReadError}
  /\ UNCHANGED <<filtered, input, request, timer, ips, status, terminal, outcome>>

\* clearTimeout, and the write of the outcome.
Settle ==
  /\ pc = "settle"
  /\ Goto("done") /\ timer' = "off"
  /\ outcome' = IF error = "none" THEN "delivered"
                ELSE IF terminal \/ attempt >= MaxAttempts THEN "exhausted"
                ELSE "failed"
  /\ UNCHANGED <<filtered, input, request, ips, peer, status, error, terminal>>

Ended == pc = "done" /\ UNCHANGED attemptVars

Request == Resolve \/ LookupFails \/ Connect \/ FetchFails \/ Respond \/ Read

AttemptNext ==
  \/ Filter \/ Claim \/ Loop \/ Transform \/ Sign \/ Abort
  \/ Request \/ Settle \/ Ended

AttemptSpec == AttemptInit /\ [][AttemptNext]_attemptVars

\* The handler runs; the resolver answers or fails; the timer fires. Whether a
\* destination ever responds is its own affair.
AttemptFairness ==
  /\ WF_attemptVars(Filter \/ Claim \/ Transform \/ Sign \/ Settle)
  /\ WF_attemptVars(Resolve \/ LookupFails)
  /\ WF_attemptVars(Abort)
  /\ WF_attemptVars(timer = "fired" /\ (FetchFails \/ Read))

AttemptFairSpec == AttemptSpec /\ AttemptFairness
-----------------------------------------------------------------------------
(* Properties.                                                              *)

AttemptTypeOK ==
  /\ pc \in {"filter", "claim", "build", "sign", "resolve", "connect", "fetch", "read",
             "settle", "done"}
  /\ body \in {"raw", "new"} /\ timer \in {"off", "armed", "fired"}
  /\ peer \in Int /\ status \in Statuses \cup {0} /\ terminal \in BOOLEAN
  /\ error \in {"none", "transform", "blocked", "lookup", "timeout", "network", "http"}
  /\ outcome \in {"none", "skipped", "left", "delivered", "failed", "exhausted"}
  /\ attempt \in 1..MaxAttempts /\ \A i \in DOMAIN ips : ips[i] \in Int

\* What goes out is signed, if it can be, over the very body that is sent, and
\* carries no credential of the provider's under any spelling. A destination that
\* has no secret gets no signature of ours: what it finds in that header is a
\* static header of its own. A signature of the provider's own (a chained instance) is forwarded beside ours under its
\* lower-case name, and fetch joins the two values.
RequestIsOurs ==
  pc = "fetch" =>
    /\ LET ours == <<"signature", "title">>
       IN IF secret = "opens" THEN ours \in DOMAIN headers /\ headers[ours] = body
          ELSE ours \in DOMAIN headers => headers[ours] = "static"
    /\ Received("authorization") \subseteq {"static"}

\* First and last three bytes of the blocks no delivery may reach.
Reserved ==
  {<<Prefix(0, 0, 0), Prefix(0, 255, 255)>>, <<Prefix(10, 0, 0), Prefix(10, 255, 255)>>,
   <<Prefix(100, 64, 0), Prefix(100, 127, 255)>>,
   <<Prefix(127, 0, 0), Prefix(127, 255, 255)>>,
   <<Prefix(169, 254, 0), Prefix(169, 254, 255)>>,
   <<Prefix(172, 16, 0), Prefix(172, 31, 255)>>,
   <<Prefix(192, 168, 0), Prefix(192, 168, 255)>>,
   <<Prefix(198, 18, 0), Prefix(198, 19, 255)>>,
   <<Prefix(224, 0, 0), Prefix(255, 255, 255)>>}

\* The socket is connected to an address the guard approved, whatever the
\* resolver answers the next time, and that address is in no reserved block.
PeerIsApproved ==
  peer # NoPeer =>
    /\ \E i \in DOMAIN ips : ips[i] = peer
    /\ \A r \in Reserved : peer \notin r[1]..r[2]

\* However an attempt ends, it leaves no connection open and no timer running.
NothingLeftOpen == pc = "done" => peer = NoPeer /\ timer # "armed"

\* Once a destination has answered 2xx the delivery is delivered, even if its
\* body breaks off or never ends; and nothing else is.
AcknowledgedIsDelivered ==
  pc = "done" => (status \in 200..299 <=> outcome = "delivered")

\* The timer and the sandbox's deadline end every attempt, whatever the user's
\* code and the destination do.
AttemptSettles == <>(pc = "done")

-----------------------------------------------------------------------------
(* What the comments say and the code does not do.                          *)

\* "Set when failure should not be retried - currently only SSRF rejections,
\* since the destination URL is constant across retries": but a resolver that
\* fails once is treated as a rejection.
LookupIsRetried == error = "lookup" /\ pc = "done" /\ attempt < MaxAttempts => outcome = "failed"

\* "Destination static headers overlay this set": but names that differ only in
\* their spelling are both sent.
StaticHeaderWins ==
  pc = "fetch" /\ body = "raw" => \A k \in statics : Received(k[1]) = {"static"}
=============================================================================
