-------------------------------- MODULE Channel --------------------------------
(***************************************************************************)
(* What the plugin promises NCCL of the connections it makes, without      *)
(* endpoints, tags, matched queues or request slots.                       *)
(*                                                                         *)
(* A listen makes a new link.  A link has one receiving and one sending    *)
(* end, each opened at most once.  Each end has a window of outstanding    *)
(* requests, numbered in the order of the calls; a message is delivered at *)
(* most once, to a receive request of its own link, and a receive is       *)
(* reported only after its message was delivered.                          *)
(***************************************************************************)
EXTENDS Naturals, FiniteSets

CONSTANTS
  End,      \* what NCCL holds: pointers to communicators
  Link,     \* one for each listen that succeeds
  Window,   \* requests an end may have outstanding
  Ordered,  \* are messages delivered in the order they were sent
  NULL

VARIABLES
  side,    \* the link and the side an end is, or NULL, which is no link
  opened,  \* the sides of links opened so far
  issued,  \* requests issued on an end since it was opened
  out,     \* numbers of the requests of an end that are outstanding
  wire,    \* messages sent and not delivered
  got      \* deliveries not reported: end, number of the receive, and message

chvars == <<side, opened, issued, out, wire, got>>

Side == Link \X {"send", "recv"}
ChannelInit ==
  /\ side = [c \in End |-> NULL]
  /\ opened = {}
  /\ issued = [c \in End |-> 0]
  /\ out = [c \in End |-> {}]
  /\ wire = {}
  /\ got = {}

Got(c) == {g \in got : g.end = c}

\* listen opens the receiving end of a new link, connect the sending end of a link
\* that listen made.
Open(c, s) ==
  /\ side[c] = NULL
  /\ s \notin opened
  /\ s[2] = "send" => <<s[1], "recv">> \in opened
  /\ side' = [side EXCEPT ![c] = s]
  /\ opened' = opened \cup {s}
  /\ UNCHANGED <<issued, out, wire, got>>

Close(c) ==
  /\ side[c] # NULL
  /\ side' = [side EXCEPT ![c] = NULL]
  /\ issued' = [issued EXCEPT ![c] = 0]
  /\ out' = [out EXCEPT ![c] = {}]
  /\ got' = got \ Got(c)
  /\ UNCHANGED <<opened, wire>>

\* isend or irecv gets a request.
Issue(c) ==
  /\ side[c] # NULL
  /\ Cardinality(out[c]) < Window
  /\ issued' = [issued EXCEPT ![c] = @ + 1]
  /\ out' = [out EXCEPT ![c] = @ \cup {issued[c]}]
  /\ wire' = IF side[c][2] = "send"
               THEN wire \cup {[link |-> side[c][1], n |-> issued[c]]}
               ELSE wire
  /\ UNCHANGED <<side, opened, got>>

\* A message reaches a receive of its link that has none yet.
Deliver(c, n, m) ==
  /\ side[c] = <<m.link, "recv">>
  /\ n \in out[c] /\ \A g \in Got(c) : g.n # n
  /\ m \in wire
  /\ Ordered => m.n = n
  /\ got' = got \cup {[end |-> c, n |-> n, msg |-> m]}
  /\ wire' = wire \ {m}
  /\ UNCHANGED <<side, opened, issued, out>>

\* test reports a request done; a receive only if its message was delivered.
Report(c, n) ==
  /\ n \in out[c]
  /\ side[c][2] = "recv" => \E g \in Got(c) : g.n = n
  /\ out' = [out EXCEPT ![c] = @ \ {n}]
  /\ got' = {g \in got : ~(g.end = c /\ g.n = n)}
  /\ UNCHANGED <<side, opened, issued, wire>>

ChannelNext ==
  \E c \in End :
    \/ \E s \in Side : Open(c, s)
    \/ Close(c)
    \/ Issue(c)
    \/ \E n \in out[c] : Report(c, n) \/ \E m \in wire : Deliver(c, n, m)

ChannelSpec == ChannelInit /\ [][ChannelNext]_chvars
===============================================================================
