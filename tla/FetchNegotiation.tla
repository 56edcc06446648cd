-------------------------- MODULE FetchNegotiation --------------------------
(***************************************************************************)
(* builtin/fetch-pack.c and upload-pack.c: before it gets a pack, the      *)
(* client tells the server which commits it has, newest first, in windows  *)
(* that it flushes; it keeps one window ahead of the answers.  The server  *)
(* acknowledges those that it has too, and the client stops when all that  *)
(* is left are ancestors of such commits.  Nothing in the answers says to  *)
(* which window they belong: the client counts its flushes.                *)
(*                                                                         *)
(* Over HTTP each window is a request to a new server process, which knows *)
(* only what the client says again.                                        *)
(***************************************************************************)
EXTENDS Integers, Sequences, FiniteSets, SequencesExt

CONSTANTS Commit,
          Date,        \* Date[c]: the committer date
          Histories,   \* functions that may give each commit its parents
          Tips,        \* sets of commits that the refs of either side may name
          Modes,       \* subset of 0..2: neither multi_ack, that, or multi_ack_detailed
          Http,        \* may the connection be one of requests?
          None,
          INITIAL_FLUSH, FLUSH_LIMIT, MAX_IN_VAIN

ASSUME FetchNegotiationAssumption ==
  /\ IsFiniteSet(Commit) /\ Date \in [Commit -> Nat \ {0}] /\ IsInjective(Date)
  /\ \A h \in Histories : h \in [Commit -> SUBSET Commit]
  /\ \A t \in Tips : t \subseteq Commit
  /\ Modes \subseteq 0..2 /\ Http \in BOOLEAN /\ None \notin Commit
  /\ INITIAL_FLUSH \in Nat \ {0} /\ FLUSH_LIMIT \in Nat \ {0} /\ MAX_IN_VAIN \in Nat

VARIABLES parents, ours, theirs,   \* the history, what the refs of both sides name
          wants,         \* what the client has asked for
          mode,          \* what the two sides agreed on
          stateless,     \* args.stateless_rpc
          no_done,
          \* the client
          phase,
          refs,          \* those of the server that everything_local() has not looked at
          rev,           \* rev_list, the commits with SEEN, COMMON, POPPED, COMMON_REF, and
                         \* non_common_revs
          req,           \* req_buf: commits to tell with the next flush
          again,         \* the part of it that is told in each request (state_len)
          count, flush_at, flushes, in_vain,
          got,           \* got_continue and got_ready
          found,         \* retval = 0
          multi_ack,     \* the client's variable
          acked,         \* commits that were acknowledged as common
          \* the server
          running,
          srv,
          toServer, toClient

fixed == <<parents, ours, theirs, wants, mode, stateless, no_done>>
counters == <<count, flush_at, flushes, in_vain>>
answers == <<got, found, multi_ack, acked>>
client == <<phase, refs, rev, req, again, counters, answers>>
fetch_vars == <<fixed, client, running, srv, toServer, toClient>>

----------------------------------------------------------------------------
\* What is found from the commits of `from`, if only those in `through` are expanded: as many
\* rounds as there are commits.
Walk(from, through) ==
  LET Step(c) == {c} \cup (IF c \in through THEN parents[c] ELSE {})
      found_in[n \in 0..Cardinality(Commit)] ==
        IF n = 0 THEN from ELSE UNION {Step(c) : c \in found_in[n - 1]}
  IN  found_in[Cardinality(Commit)]

Reach(from) == Walk(from, Commit)

Newest(cs) == CHOOSE c \in cs : \A d \in cs : Date[d] <= Date[c]

\* The COMPLETE commits: those that our refs name, and their ancestors down to the date of the
\* newest of `both`, the server's refs whose objects are here (everything_local()).
Complete(both) ==
  Walk(ours, {c \in Commit : both # {} /\ \A d \in both : Date[d] <= Date[c]})

Haves(cs) == [i \in DOMAIN cs |-> [kind |-> "have", commit |-> cs[i]]]
Line(k) == [kind |-> k, commit |-> None]
Ack(k, c) == [kind |-> k, commit |-> c]

----------------------------------------------------------------------------
\* The list of commits that the client may tell.

\* rev_list_push() of commits that are not SEEN.
rev_list_push(r, set) ==
  [r EXCEPT !.list = @ \cup set,
            !.seen = @ \cup set,
            !.non_common_revs = @ + Cardinality(set)]

\* The commits that mark_common() comes to from `set` and that are not COMMON yet: it goes on
\* from those that have been SEEN.
Marked(r, set) == Walk(set, r.seen \ r.common) \ r.common

\* Faulty variant: a commit that has left the list is counted too.
Uncounted_popped(r, marked) == Cardinality(marked \cap r.seen)

\* Of these, non_common_revs counted so many.
Uncounted(r, marked) == Cardinality((marked \cap r.seen) \ r.popped)

\* mark_common(): they become COMMON; those that are new are put on the list.
mark_common(r, set) ==
  LET marked == Marked(r, set)
  IN  [r EXCEPT !.list = @ \cup (marked \ r.seen),
                !.seen = @ \cup marked,
                !.common = @ \cup marked,
                !.non_common_revs = @ - Uncounted(r, marked)]

\* What mark_common() of these commits begins with, if it is with ancestors_only.
Above(r, set) == UNION {parents[c] : c \in set \cap (r.seen \ r.common)}

\* One round of get_rev().  What leaves the list at its end is what then comes first in it.
pop_rev(r) ==
  LET c == Newest(r.list)
      stop == c \in r.common \cup r.ref
      new == parents[c] \ r.seen
      marked == IF stop THEN Marked(r, Above(r, parents[c])) ELSE {}
      left == r.list \cup new \cup (marked \ r.seen)
  IN  [r EXCEPT !.list = left \ {Newest(left)},
                !.seen = @ \cup new \cup marked,
                !.common = @ \cup marked \cup (IF stop THEN new ELSE {}),
                !.popped = @ \cup {c},
                !.non_common_revs = @ - Cardinality({c} \ r.common) - Uncounted(r, marked)
                                      + (IF stop THEN 0 ELSE Cardinality(new))]

NoMoreRevs == rev.list = {} \/ rev.non_common_revs = 0

next_flush(n) == IF n < FLUSH_LIMIT THEN 2 * n ELSE n + FLUSH_LIMIT

----------------------------------------------------------------------------
\* What a new upload-pack knows.
NewServer == [they_have |-> {}, have_obj |-> {}, oldest_have |-> 0, got_common |-> FALSE,
              got_other |-> FALSE, sent_ready |-> FALSE, last |-> None]

FetchInit ==
  /\ parents \in Histories
  /\ ours \in Tips
  /\ theirs \in Tips \ {{}}
  /\ \E complete \in {Complete(both) : both \in {theirs \cap Reach(ours)}} :
       /\ wants \in {asked \ complete : asked \in SUBSET theirs} \ {{}}
       /\ refs = theirs \cap complete
  /\ mode \in Modes
  /\ stateless \in {Http /\ mode = 2, FALSE}
  /\ no_done \in {stateless, FALSE}
  /\ phase = "local"
  /\ rev = [list |-> {}, seen |-> {}, common |-> {}, popped |-> {}, ref |-> {},
            non_common_revs |-> 0]
  /\ req = <<>> /\ again = <<>>
  /\ count = 0 /\ flush_at = INITIAL_FLUSH /\ flushes = 0 /\ in_vain = 0
  /\ got = [continue |-> FALSE, ready |-> FALSE]
  /\ found = FALSE /\ multi_ack = mode /\ acked = {}
  /\ running = TRUE /\ srv = NewServer
  /\ toServer = <<>> /\ toClient = <<>>

\* send_request(); a request starts a server.
Send(lines) ==
  IF stateless
  THEN /\ toServer' = Haves(again) \o lines
       /\ running' = TRUE /\ srv' = NewServer
  ELSE /\ toServer' = toServer \o lines
       /\ UNCHANGED <<running, srv>>

ToServer == <<running, srv, toServer>>

\* everything_local(), for a ref that is complete here: the server must still be told.
LocalRef(c) ==
  /\ phase = "local" /\ c \in refs
  /\ refs' = refs \ {c}
  /\ rev' = IF c \in rev.seen THEN rev
            ELSE mark_common(rev_list_push([rev EXCEPT !.ref = @ \cup {c}], {c}), parents[c])
  /\ UNCHANGED <<fixed, phase, req, again, counters, answers, ToServer, toClient>>

\* The start of find_common().
FindCommon ==
  /\ phase = "local" /\ refs = {}
  /\ rev' = rev_list_push(rev, ours \ rev.seen)
  /\ phase' = "rev"
  /\ UNCHANGED <<fixed, refs, req, again, counters, answers, ToServer, toClient>>

\* get_rev() passes over a commit.
Skip ==
  /\ phase = "rev" /\ ~NoMoreRevs
  /\ Newest(rev.list) \in rev.common
  /\ rev' = pop_rev(rev)
  /\ UNCHANGED <<fixed, phase, refs, req, again, counters, answers, ToServer, toClient>>

\* get_rev() returns one, and the window may be full.  The first is not waited for.
Have ==
  LET told == Append(req, Newest(rev.list))
  IN  /\ phase = "rev" /\ ~NoMoreRevs
      /\ Newest(rev.list) \notin rev.common
      /\ rev' = pop_rev(rev)
      /\ in_vain' = in_vain + 1
      /\ count' = count + 1
      /\ IF flush_at <= count'
         THEN /\ Send(Append(Haves(told), Line("flush")))
              /\ req' = <<>>
              /\ flushes' = flushes + 1
              /\ flush_at' = next_flush(count')
              /\ phase' = IF ~stateless /\ count' = INITIAL_FLUSH THEN "rev" ELSE "acks"
         ELSE /\ req' = told
              /\ UNCHANGED <<phase, flushes, flush_at, ToServer>>
      /\ UNCHANGED <<fixed, refs, again, answers, toClient>>

\* get_ack() has read the first line; anything but an ACK or NAK makes it die.
Reads(kinds) ==
  /\ toClient # <<>>
  /\ Head(toClient).kind \in kinds
  /\ toClient' = Tail(toClient)

\* Faulty variant: COMMON is looked at when it has been set already.
ReplayedLate(c) == stateless /\ c \notin mark_common(rev, {c}).common

\* Must later requests tell it again?
Replayed(c) == stateless /\ c \notin rev.common

\* The answers to a window: it is acknowledged that a commit is common, or that enough are.
GotAck ==
  LET c == Head(toClient).commit
      k == Head(toClient).kind
      marked == mark_common(rev, {c})
  IN  /\ phase = "acks" /\ Reads({"continue", "common", "ready"})
      /\ rev' = IF k = "ready" THEN [marked EXCEPT !.list = {}] ELSE marked
      /\ again' = IF k = "common" /\ Replayed(c) THEN Append(again, c) ELSE again
      /\ acked' = IF k = "common" THEN acked \cup {c} ELSE acked
      /\ found' = TRUE
      /\ in_vain' = 0
      /\ got' = [continue |-> TRUE, ready |-> got.ready \/ k = "ready"]
      /\ UNCHANGED <<fixed, phase, refs, req, count, flush_at, flushes, multi_ack, ToServer>>

\* The end of the answers; it may give up.
GotNak ==
  /\ phase = "acks" /\ Reads({"NAK"})
  /\ flushes' = flushes - 1
  /\ phase' = IF got.continue /\ MAX_IN_VAIN < in_vain THEN "done" ELSE "rev"
  /\ UNCHANGED <<fixed, refs, rev, req, again, count, flush_at, in_vain, answers, ToServer>>

\* Without multi_ack one ACK is all there is.
GotFinal ==
  /\ phase = "acks" /\ Reads({"ACK"})
  /\ flushes' = 0 /\ multi_ack' = 0 /\ found' = TRUE
  /\ phase' = "done"
  /\ UNCHANGED <<fixed, refs, rev, req, again, count, flush_at, in_vain, got, acked, ToServer>>

NoRev ==
  /\ phase = "rev" /\ NoMoreRevs
  /\ phase' = "done"
  /\ UNCHANGED <<fixed, refs, rev, req, again, counters, answers, ToServer, toClient>>

\* Faulty variant: the answer to "done" is not waited for.
extra_flush_none == 0

\* How many answers more it waits for, when nothing was common.
extra_flush == IF found THEN 0 ELSE 1

Done ==
  /\ phase = "done"
  /\ IF got.ready /\ no_done THEN UNCHANGED ToServer
     ELSE Send(Append(Haves(req), Line("done")))
  /\ flushes' = flushes + extra_flush
  /\ multi_ack' = IF found THEN multi_ack ELSE 0
  /\ phase' = "final"
  /\ UNCHANGED <<fixed, refs, rev, req, again, count, flush_at, in_vain, got, found, acked, toClient>>

\* The last loop of find_common(): to the final ACK, or a NAK for each flush.
Final ==
  /\ phase = "final"
  /\ \/ /\ flushes = 0 /\ multi_ack = 0
        /\ phase' = "pack"
        /\ UNCHANGED <<flushes, multi_ack, toClient>>
     \/ /\ flushes # 0 \/ multi_ack # 0
        /\ \/ Reads({"ACK"}) /\ phase' = "pack" /\ UNCHANGED <<flushes, multi_ack>>
           \/ /\ Reads({"continue", "common", "ready"})
              /\ multi_ack' = 1
              /\ UNCHANGED <<phase, flushes>>
           \/ Reads({"NAK"}) /\ flushes' = flushes - 1 /\ UNCHANGED <<phase, multi_ack>>
  /\ UNCHANGED <<fixed, refs, rev, req, again, count, flush_at, in_vain, got, found, acked, ToServer>>

\* get_pack()
GetPack ==
  /\ phase = "pack" /\ Reads({"pack"})
  /\ phase' = "end"
  /\ UNCHANGED <<fixed, refs, rev, req, again, counters, answers, ToServer>>

----------------------------------------------------------------------------
ServerHas == Reach(theirs)

\* reachable(): the walk ends at commits older than all that the client told.
reachable(s, want) ==
  Walk({want}, {c \in Commit : Date[c] >= s.oldest_have} \ s.they_have) \cap s.they_have # {}

ok_to_give_up(s) == s.have_obj # {} /\ \A want \in wants : reachable(s, want)

\* got_sha1() of a commit that the server has.
got_sha1(s, c) ==
  [s EXCEPT !.they_have = @ \cup {c} \cup parents[c],
            !.have_obj = IF c \in s.they_have THEN @ ELSE @ \cup {c},
            !.oldest_have = IF @ = 0 \/ Date[c] < @ THEN Date[c] ELSE @,
            !.got_common = TRUE,
            !.last = c]

\* The server reads a line from the client.
Gets(kind) ==
  /\ running /\ toServer # <<>>
  /\ Head(toServer).kind = kind
  /\ toServer' = Tail(toServer)
  /\ UNCHANGED <<fixed, client>>

Answer(lines) == toClient' = toClient \o lines
Maybe(b, line) == IF b THEN <<line>> ELSE <<>>

\* get_common_commits(), at a have of a commit that both have.
ServeCommon ==
  LET c == Head(toServer).commit
      kind == IF mode = 2 THEN "common" ELSE IF mode = 1 THEN "continue" ELSE "ACK"
  IN  /\ Gets("have") /\ c \in ServerHas
      /\ srv' = got_sha1(srv, c)
      /\ Answer(Maybe(mode # 0 \/ Cardinality(srv'.have_obj) = 1, Ack(kind, c)))
      /\ UNCHANGED running

\* At one of a commit that only the client has.
ServeOther ==
  LET c == Head(toServer).commit
      enough == mode # 0 /\ ok_to_give_up(srv)
  IN  /\ Gets("have") /\ c \notin ServerHas
      /\ srv' = [srv EXCEPT !.got_other = TRUE, !.sent_ready = @ \/ (mode = 2 /\ enough)]
      /\ Answer(Maybe(enough, Ack(IF mode = 2 THEN "ready" ELSE "continue", c)))
      /\ UNCHANGED running

\* Faulty variant: a server that has acknowledged something is silent in every mode.
NakWanted(s) == s.have_obj = {}

\* Is a flush answered by a NAK?
Naks(s) == s.have_obj = {} \/ mode # 0

\* At a flush.  With no-done, and when it has said that it is ready, the pack follows.
ServeFlush ==
  LET ready == /\ mode = 2 /\ srv.got_common /\ ~srv.got_other
               /\ ok_to_give_up(srv)
      last == no_done /\ (srv.sent_ready \/ ready)
  IN  /\ Gets("flush")
      /\ Answer(Maybe(ready, Ack("ready", srv.last)) \o Maybe(Naks(srv), Line("NAK"))
                \o IF last THEN <<Ack("ACK", srv.last), Line("pack")>> ELSE <<>>)
      /\ srv' = [srv EXCEPT !.sent_ready = @ \/ ready, !.got_common = FALSE, !.got_other = FALSE]
      /\ running' = ~(last \/ stateless)

\* At the end.
ServeDone ==
  /\ Gets("done")
  /\ Answer(Maybe(srv.have_obj = {}, Line("NAK"))
            \o Maybe(srv.have_obj # {} /\ mode # 0, Ack("ACK", srv.last))
            \o <<Line("pack")>>)
  /\ running' = FALSE
  /\ UNCHANGED srv

----------------------------------------------------------------------------
Client ==
  \/ \E c \in Commit : LocalRef(c)
  \/ FindCommon \/ Skip \/ Have \/ GotAck \/ GotNak \/ GotFinal \/ NoRev \/ Done \/ Final \/ GetPack

Server == ServeCommon \/ ServeOther \/ ServeFlush \/ ServeDone

FetchNext == Client \/ Server

\* Each side runs when it has something to read or to do.
FetchSpec == FetchInit /\ [][FetchNext]_fetch_vars /\ WF_fetch_vars(Client) /\ WF_fetch_vars(Server)

----------------------------------------------------------------------------
\* Parents are older than their children: get_rev() goes by dates, which nothing checks.
ClocksRight == \A h \in Histories : \A c \in Commit : \A p \in h[c] : Date[p] < Date[c]

FetchTypeOK ==
  /\ phase \in {"local", "rev", "acks", "done", "final", "pack", "end"}
  /\ \A f \in {"list", "seen", "common", "popped", "ref"} : rev[f] \subseteq Commit
  /\ rev.list \subseteq rev.seen /\ rev.popped \subseteq rev.seen
  /\ req \in Seq(Commit) /\ again \in Seq(Commit)
  /\ multi_ack \in 0..2
  /\ srv.they_have \subseteq Commit /\ srv.have_obj \subseteq srv.they_have
  /\ \A i \in DOMAIN toServer : toServer[i].kind \in {"have", "flush", "done"}
  /\ \A i \in DOMAIN toClient :
       toClient[i].kind \in {"continue", "common", "ready", "ACK", "NAK", "pack"}

\* When the client goes on to read the pack, no answer is before it or will be (find_common(),
\* builtin/fetch-pack.c:474): its count of flushes, and what it has concluded from the answers to
\* earlier windows, agree with what the server says after the last one.  Without multi_ack, ACKs
\* may remain (see SilentAfterAck).
PackNext ==
  phase \in {"pack", "end"} =>
    \A i \in DOMAIN toClient : \/ toClient[i].kind = "pack"
                               \/ mode = 0 /\ toClient[i].kind = "ACK"

\* The client comes to its pack: neither side waits for a line that the other does not send
\* (get_ack(), builtin/fetch-pack.c:222, packet_read_line(), upload-pack.c:429).
Negotiated == <>(phase = "end" \/ (phase = "pack" /\ mode = 0))

\* Unless somebody broke off, the pack holds no commit that the client has (get_rev() and
\* mark_common(), builtin/fetch-pack.c:89): everything both sides have is reached from what
\* the server was told.
NothingTwice ==
  phase \in {"pack", "end"} /\ mode # 0 /\ NoMoreRevs /\ ~got.ready /\ rev.common \subseteq ServerHas
    => Reach(ours) \cap Reach(wants) \subseteq Reach(srv.have_obj)

\* What the server has acknowledged, the one that sends the pack knows, be it another process
\* (the state_len part of the request, builtin/fetch-pack.c:429).  After a "ready" see
\* AckedReplayed.
AckedKept == phase \in {"pack", "end"} /\ ~got.ready => acked \subseteq Reach(srv.have_obj)

\* "We need to replay the have for this object on the next RPC request so the peer knows it is in
\* common with us" (builtin/fetch-pack.c:432).  When the server is ready it says so of a commit
\* that it does not have; mark_common() makes the ancestors of that one COMMON, and what is
\* acknowledged after it and is one of them is not replayed: no run checks it, TLC finds a
\* counterexample.
AckedReplayed == phase \in {"pack", "end"} => acked \subseteq Reach(srv.have_obj)

\* Without multi_ack, the server says nothing between its first ACK and the pack
\* (Documentation/technical/pack-protocol.txt:311).
SilentAfterAck ==
  [][mode = 0 /\ srv.have_obj # {} /\ Server
       => toClient' \in {toClient, Append(toClient, Line("pack"))}]_fetch_vars
=============================================================================
