---------------------------- MODULE SessionStore ----------------------------
(***************************************************************************)
(* What cloudfs promises to the applications of all machines, free of       *)
(* SSDs, proxies, metadata and locks: close-to-open consistency.  A session *)
(* starts from the contents last published under its key, its edits are its *)
(* own until it publishes them, and it does not end before it has.  Only    *)
(* a session with edits publishes.  A file that does not exist and an empty *)
(* file have the same contents here.                                        *)
(***************************************************************************)
EXTENDS Sequences

CONSTANTS
  Keys,
  Sessions,
  Contents,     \* what a file may contain
  NoSession,
  MayLose       \* may sessions disappear with their edits (crashes)?

VARIABLES
  store,        \* store[k]: the contents published under k
  session       \* session[s]: the file s has open and what it made of it

OpenSessions == [key : Keys, data : Contents, changed : BOOLEAN]

TypeOK ==
  /\ store \in [Keys -> Contents]
  /\ session \in [Sessions -> OpenSessions \cup {NoSession}]

Init ==
  /\ store = [k \in Keys |-> <<>>]
  /\ session = [s \in Sessions |-> NoSession]

\* Session s, of k, now has contents d, with edits to publish or without.
Have(s, k, d, changed) ==
  session' = [session EXCEPT ![s] = [key |-> k, data |-> d, changed |-> changed]]

Open(s, k) ==
  /\ session[s] = NoSession
  /\ Have(s, k, store[k], FALSE)
  /\ UNCHANGED store

Edit(s, d) ==
  /\ session[s] # NoSession
  /\ Have(s, session[s].key, d, TRUE)
  /\ UNCHANGED store

Publish(s) ==
  /\ session[s] # NoSession
  /\ session[s].changed
  /\ store' = [store EXCEPT ![session[s].key] = session[s].data]
  /\ Have(s, session[s].key, session[s].data, FALSE)

End(s) ==
  /\ session[s] # NoSession
  /\ ~session[s].changed
  /\ session' = [session EXCEPT ![s] = NoSession]
  /\ UNCHANGED store

Delete(k) ==
  /\ store' = [store EXCEPT ![k] = <<>>]
  /\ UNCHANGED session

Lose(lost) ==
  /\ MayLose
  /\ session' = [s \in Sessions |-> IF s \in lost THEN NoSession ELSE session[s]]
  /\ UNCHANGED store

Next ==
  \/ \E s \in Sessions :
       \/ \E k \in Keys : Open(s, k)
       \/ \E d \in Contents : Edit(s, d)
       \/ Publish(s)
       \/ End(s)
  \/ \E k \in Keys : Delete(k)
  \/ \E lost \in SUBSET Sessions : Lose(lost)

Spec == Init /\ [][Next]_<<store, session>>
=============================================================================
