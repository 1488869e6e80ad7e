----------------------------- MODULE Discovery -----------------------------
(***************************************************************************)
(* Finding consoles (discoveryservice.rs, discovery.rs) up to the page     *)
(* that shows them (chiaki-ui/src/backend/discovery.rs, app.rs): the       *)
(* service thread pings and drops who is silent, the receive thread takes  *)
(* the answers, both report the list to a callback that keeps a copy and   *)
(* sends events, and the UI thread draws the copy when an event has come.  *)
(*                                                                         *)
(* Of a console's answer its id and address are kept and a state that may  *)
(* differ from time to time.  Of the events only that some are waiting is  *)
(* kept: the UI thread takes them all and only notes that it has to draw.  *)
(***************************************************************************)
EXTENDS Naturals, Sequences

CONSTANTS Consoles,   \* their ids
          Answers,    \* what they may answer: [id, addr, ready]
          HostsMax,   \* hosts_max
          DropPings   \* host_drop_pings

Seqs == INSTANCE SequencesExt

VARIABLES
  receiving,  \* the receive thread runs
  hosts,      \* ServiceState: hosts
  silent,     \* and host_discovery_infos: how many pings ago the host answered
  copy,       \* DiscoveryHandle.hosts
  events,     \* some UiEvent is waiting
  notified,   \* the page is going to be drawn
  shown,      \* the hosts it shows
  since       \* history: of a console in hosts, how many pings ago its answer was received
vars == <<receiving, hosts, silent, copy, events, notified, shown, since>>
ui == <<notified, shown>>

Never == DropPings + 1
Ids(list) == {list[i].id : i \in DOMAIN list}

Init ==
  /\ receiving = TRUE
  /\ hosts = <<>> /\ silent = <<>> /\ copy = <<>>
  /\ events = FALSE /\ notified = FALSE /\ shown = <<>>
  /\ since = [c \in Consoles |-> Never]
-----------------------------------------------------------------------------
(* The callback *)

AddrsOf(list) == [i \in DOMAIN list |-> list[i].addr]

\* A plausible bug: the copy is replaced before it is compared.
DiffersFromItself(list, old) == AddrsOf(list) # AddrsOf(list)

\* Found, removed, or in another place of the list.
Differs(list, old) == AddrsOf(list) # AddrsOf(old)

Report(list) == copy' = list /\ events' = (events \/ Differs(list, copy))
-----------------------------------------------------------------------------
(* The service thread *)

Capped(n) == IF n > DropPings THEN Never ELSE n

\* drop_old_hosts: after the first host was dropped the second is passed over.
Dropped(ages) ==
  LET old == {i \in DOMAIN ages : ages[i] > DropPings}
  IN IF 1 \in old THEN old \ {2} ELSE old

Kept(list, gone) ==
  LET kept == Seqs!SetToSortSeq(DOMAIN list \ gone, <)
  IN [i \in DOMAIN kept |-> list[kept[i]]]

Ping ==
  /\ LET ages == [i \in DOMAIN silent |-> Capped(silent[i] + 1)]
         gone == Dropped(ages)
     IN /\ silent' = Kept(ages, gone)
        /\ \/ gone = {} /\ UNCHANGED <<hosts, copy, events>>
           \/ gone # {} /\ hosts' = Kept(hosts, gone) /\ Report(hosts')
  /\ since' = [c \in Consoles |-> IF c \in Ids(hosts') THEN Capped(since[c] + 1) ELSE Never]
  /\ UNCHANGED <<receiving, ui>>
-----------------------------------------------------------------------------
(* The receive thread *)

\* host_received
Take(h) ==
  LET at == {i \in DOMAIN hosts : hosts[i].id = h.id} IN
    \/ /\ at = {} /\ Len(hosts) = HostsMax
       /\ UNCHANGED <<hosts, silent, copy, events>>
    \/ /\ at = {} /\ Len(hosts) < HostsMax
       /\ hosts' = Append(hosts, h) /\ silent' = Append(silent, 0) /\ Report(hosts')
    \/ \E i \in at :
         /\ silent' = [silent EXCEPT ![i] = 0]
         /\ hosts' = [hosts EXCEPT ![i] = h]
         /\ \/ hosts[i] = h /\ UNCHANGED <<copy, events>>
            \/ hosts[i] # h /\ Report(hosts')

\* Any answer, to a ping that was sent long ago, too.
Receive(h) ==
  /\ receiving
  /\ Take(h)
  /\ since' = IF h.id \in Ids(hosts') THEN [since EXCEPT ![h.id] = 0] ELSE since
  /\ UNCHANGED <<receiving, ui>>

\* A socket that cannot be read ends the thread; the service goes on without it.
SocketFails ==
  /\ receiving /\ receiving' = FALSE
  /\ UNCHANGED <<hosts, silent, copy, events, ui, since>>
-----------------------------------------------------------------------------
(* The UI thread *)

ApplyEvents ==
  /\ events /\ events' = FALSE /\ notified' = TRUE
  /\ UNCHANGED <<receiving, hosts, silent, copy, shown, since>>

Draw ==
  /\ notified /\ notified' = FALSE /\ shown' = copy
  /\ UNCHANGED <<receiving, hosts, silent, copy, events, since>>

Next == Ping \/ (\E h \in Answers : Receive(h)) \/ SocketFails \/ ApplyEvents \/ Draw

\* The service pings every 500 ms and the UI thread runs.
Fairness == WF_vars(Ping) /\ WF_vars(ApplyEvents) /\ WF_vars(Draw)
Spec     == Init /\ [][Next]_vars /\ Fairness
-----------------------------------------------------------------------------
IdsOf(list) == [i \in DOMAIN list |-> list[i].id]

Outdated == IdsOf(shown) # IdsOf(hosts) \/ AddrsOf(shown) # AddrsOf(hosts)

\* A page that does not show the consoles the service knows, at their addresses and in
\* its order, is drawn again and then does, whatever the two threads found and dropped
\* meanwhile, although only addresses are compared.
PageFollows == Outdated ~> ~Outdated

\* A console leaves the list only after it was silent for as many pings as allowed,
\* also when others left before it.
OnlySilentLeave == [][\A c \in Ids(hosts) \ Ids(hosts') : since[c] >= DropPings]_vars

\* When no console is heard of any more the page becomes empty for good, also when the
\* receive thread has ended.
SilentAreGone == <>[](\A c \in Consoles : since[c] # 0) => <>[](shown = <<>>)

\* The three together: the list and the page follow the consoles.
HostsFollow == PageFollows /\ OnlySilentLeave /\ SilentAreGone
=============================================================================
