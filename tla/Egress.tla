------------------------------- MODULE Egress -------------------------------
(***************************************************************************)
(* The egress proxy (egress.rs): what a bash child sends leaves through    *)
(* one door.  A connection is let to an origin that some rule names, each  *)
(* request inside is checked against the rules by the path a server would  *)
(* resolve, and the placeholders it carries become secrets on their way to *)
(* the secrets' own origin.  A secret is read once; requests that need it  *)
(* at the same time wait for one reading.  Paths are sequences of          *)
(* segments, ".." a dot segment (spelled out or encoded) and "\\" a        *)
(* segment with a backslash before a dot segment, which the URL parser     *)
(* resolves.                                                               *)
(***************************************************************************)
EXTENDS Naturals, Sequences, FiniteSets, SequencesExt

CONSTANTS
    Clients,        \* connections to the proxy
    Rules,          \* [method, origin, path]; method "any"
    Secrets,        \* the secrets, in the order of the settings: [name, origin]
    EgressAsks,     \* what a client may ask: [origin, method, path, upgrade, carries]
    MaxReads        \* a bound: commands run for one secret

EgressNames == {Secrets[i].name : i \in DOMAIN Secrets}
ASSUME EgressAssumption ==
    /\ MaxReads \in Nat \ {0} /\ "any" \notin {q.method : q \in EgressAsks}
    /\ Secrets \in Seq([name : STRING, origin : STRING])
    /\ \A q \in EgressAsks : q.path \in Seq(STRING) /\ q.carries \subseteq EgressNames
    /\ Clients \cap {"unread", "read"} = {}

VARIABLES
    links,      \* client -> the connection: to no origin yet, in a tunnel to one, or closed
    leaves,     \* hosts a certificate was made for
    doing,      \* client -> the request in the proxy's hands
    cells,      \* secret -> "unread", the client whose request reads it, or "read"
    reads,      \* secret -> how each reading of it went
    sent        \* what went upstream

egressVars == <<links, leaves, doing, cells, reads, sent>>

NoAsk == [at |-> "none", to |-> "none", next |-> 0, put |-> {}, ask |-> "none"]

EgressInit ==
    /\ links = [c \in Clients |-> "outer"] /\ leaves = {}
    /\ doing = [c \in Clients |-> NoAsk]
    /\ cells = [n \in EgressNames |-> "unread"] /\ reads = [n \in EgressNames |-> <<>>]
    /\ sent = {}

\* outer: without the child's credential nothing is done; with it a CONNECT is let to an
\* origin some rule names, and the certificate of its host is made the first time.
Connects(c) ==
    /\ links[c] = "outer" /\ doing[c].at = "none"
    /\ \E origin \in {q.origin : q \in EgressAsks} \ {"http"}, known \in BOOLEAN :
         LET open == known /\ \E r \in Rules : r.origin = origin
         IN  /\ links' = [links EXCEPT ![c] = IF open THEN origin ELSE "closed"]
             /\ leaves' = IF open THEN leaves \cup {origin} ELSE leaves
    /\ UNCHANGED <<doing, cells, reads, sent>>

\* A request inside a tunnel goes to the tunnel's origin whatever host it names; one on
\* the outer connection is plain HTTP to the origin of its URL.
Target(c, q) == IF links[c] = "outer" THEN q.origin ELSE links[c]

Dotted(path) == ".." \in ToSet(path)
Allows(r, method, origin, path) ==
    /\ r.origin = origin /\ r.method \in {"any", method} /\ IsPrefix(r.path, path)
\* A departure for the checks: the raw path is not compared with the parsed one.
PassesUnparsed(q, origin) ==
    /\ ~Dotted(q.path) /\ \E r \in Rules : Allows(r, q.method, origin, q.path)
    /\ ~q.upgrade
Passes(q, origin) ==
    /\ "\\" \notin ToSet(q.path)        \* url.path() == raw
    /\ ~Dotted(q.path) /\ \E r \in Rules : Allows(r, q.method, origin, q.path)
    /\ ~q.upgrade

\* forward: the checks, before the first secret.
Forward(c) ==
    /\ links[c] # "closed" /\ doing[c].at = "none"
    /\ \E q \in EgressAsks :
         /\ (links[c] = "outer") = (q.origin = "http")
         /\ doing' = [doing EXCEPT ![c] =
              IF Passes(q, Target(c, q))
              THEN [NoAsk EXCEPT !.at = "inserting", !.to = Target(c, q), !.next = 1, !.ask = q]
              ELSE NoAsk]
    /\ UNCHANGED <<links, leaves, cells, reads, sent>>

Next1(c) == Secrets[doing[c].next]
\* insert: a secret the request does not carry is passed over, one that belongs to
\* another origin ends the request, and one that is read replaces its placeholder.
Insert(c) ==
    /\ doing[c].at = "inserting" /\ doing[c].next \in DOMAIN Secrets
    /\ LET n == Next1(c).name
           carried == n \in doing[c].ask.carries
       IN  \/ /\ ~carried
              /\ doing' = [doing EXCEPT ![c].next = @ + 1]
           \/ /\ carried /\ Next1(c).origin # doing[c].to
              /\ doing' = [doing EXCEPT ![c] = NoAsk]
           \/ /\ carried /\ Next1(c).origin = doing[c].to /\ cells[n] = "read"
              /\ \/ doing' = [doing EXCEPT ![c].next = @ + 1, ![c].put = @ \cup {n}]
                 \/ doing' = [doing EXCEPT ![c] = NoAsk]    \* the value does not fit a header
    /\ UNCHANGED <<links, leaves, cells, reads, sent>>

\* get_or_try_init: one request runs the command, the others wait for it.
StartsReading(c) ==
    /\ doing[c].at = "inserting" /\ doing[c].next \in DOMAIN Secrets
    /\ LET n == Next1(c).name
       IN  /\ n \in doing[c].ask.carries /\ Next1(c).origin = doing[c].to
           /\ cells[n] = "unread" /\ Len(reads[n]) < MaxReads
           /\ cells' = [cells EXCEPT ![n] = c]
           /\ reads' = [reads EXCEPT ![n] = Append(@, "runs")]
           /\ doing' = [doing EXCEPT ![c].at = "reading"]
    /\ UNCHANGED <<links, leaves, sent>>

Ended(n, how) == [reads EXCEPT ![n] = SubSeq(@, 1, Len(@) - 1) \o <<how>>]
\* run: the command answers, or fails, says nothing or meets its deadline.
Reading(c) ==
    /\ doing[c].at = "reading"
    /\ LET n == Next1(c).name
       IN  \/ /\ cells' = [cells EXCEPT ![n] = "read"] /\ reads' = Ended(n, "answered")
              /\ doing' = [doing EXCEPT ![c].at = "inserting"]
           \/ /\ cells' = [cells EXCEPT ![n] = "unread"] /\ reads' = Ended(n, "failed")
              /\ doing' = [doing EXCEPT ![c] = NoAsk]
    /\ UNCHANGED <<links, leaves, sent>>

\* The request goes on, to the tunnel's origin, with what was put in; no redirect is
\* followed, so the reply goes back and the client may ask again.
Send(c) ==
    /\ doing[c].at = "inserting" /\ doing[c].next \notin DOMAIN Secrets
    /\ sent' = sent \cup {[to |-> doing[c].to, method |-> doing[c].ask.method,
                           path |-> doing[c].ask.path, put |-> doing[c].put,
                           bare |-> doing[c].ask.carries \ doing[c].put]}
    /\ doing' = [doing EXCEPT ![c] = NoAsk]
    /\ UNCHANGED <<links, leaves, cells, reads>>

\* The client hangs up: its request is dropped where it is, and a command it waits for
\* dies with it.
HangsUp(c) ==
    /\ links[c] # "closed"
    /\ links' = [links EXCEPT ![c] = "closed"] /\ doing' = [doing EXCEPT ![c] = NoAsk]
    /\ IF doing[c].at = "reading"
       THEN /\ cells' = [cells EXCEPT ![Next1(c).name] = "unread"]
            /\ reads' = Ended(Next1(c).name, "dropped")
       ELSE UNCHANGED <<cells, reads>>
    /\ UNCHANGED <<leaves, sent>>

EgressNext == \E c \in Clients :
    Connects(c) \/ Forward(c) \/ Insert(c) \/ StartsReading(c) \/ Reading(c) \/ Send(c) \/ HangsUp(c)
EgressSpec == EgressInit /\ [][EgressNext]_egressVars

(***************************************************************************)
(* Properties.                                                             *)
(***************************************************************************)
\* What the server at the other end makes of a path.
Resolved(path) ==
    FoldLeft(LAMBDA out, seg : IF seg = ".." \/ seg = "\\"
                               THEN SubSeq(out, 1, IF out = <<>> THEN 0 ELSE Len(out) - 1)
                               ELSE Append(out, seg), <<>>, path)
\* Whatever leaves is a request some rule allows, by the path its server resolves it to.
OnlyAllowed ==
    \A q \in sent : \E r \in Rules : Allows(r, q.method, q.to, Resolved(q.path))

\* A secret leaves only to its own origin, no request leaves with a placeholder it asked
\* to have filled, and a secret is read by one request at a time and answered once.
SecretsHome ==
    /\ \A q \in sent : q.bare = {} /\ \A i \in DOMAIN Secrets :
         Secrets[i].name \in q.put => Secrets[i].origin = q.to
    /\ \A n \in EgressNames :
         /\ Cardinality({i \in DOMAIN reads[n] : reads[n][i] \in {"runs", "answered"}}) <= 1
         /\ cells[n] = "read" <=> "answered" \in ToSet(reads[n])

EgressKept == OnlyAllowed /\ SecretsHome
=============================================================================
