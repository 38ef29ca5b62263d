---------------------------- MODULE ObjectStore ----------------------------
(***************************************************************************)
(* What the s3 tool promises about a bucket: a command changes no object    *)
(* but its own, changes it as a whole, and reports success only when the    *)
(* change was made.  A command that reports failure may have made it, and a *)
(* request made again may make the same change again; any other change is   *)
(* one of others, and counted.                                              *)
(***************************************************************************)
EXTENDS Integers

CONSTANTS Keys, Contents, Properties, None

VARIABLES
  store,    \* store[k]: the object under k
  intent,   \* what the command that runs is about, or None
  done,     \* was it done, at least once?
  success,  \* did the last command report that it was?
  others    \* changes by others, so far

storeVars == <<store, intent, done, success, others>>

Objects == [data : Contents, properties : Properties]

Intents ==
  [kind : {"put"}, key : Keys, object : Objects]
    \cup [kind : {"delete"}, key : Keys]
    \cup [kind : {"copy"}, from : Keys, key : Keys, properties : Properties \cup {None}]
    \cup [kind : {"look"}]

\* A copy keeps the properties of its source unless the command gives others.
Copied(object, properties) ==
  [object EXCEPT !.properties = IF properties = None THEN @ ELSE properties]

StoreInit ==
  /\ store \in [Keys -> Objects \cup {None}]
  /\ intent = None
  /\ done = FALSE
  /\ success = FALSE
  /\ others = 0

Begin ==
  /\ intent = None
  /\ intent' \in Intents
  /\ done' = FALSE
  /\ success' = FALSE
  /\ UNCHANGED <<store, others>>

Put ==
  /\ intent.kind = "put"
  /\ store' = [store EXCEPT ![intent.key] = intent.object]

Delete ==
  /\ intent.kind = "delete"
  /\ store' = [store EXCEPT ![intent.key] = None]

Copy ==
  /\ intent.kind = "copy"
  /\ store[intent.from] # None
  /\ store' = [store EXCEPT ![intent.key] = Copied(store[intent.from], intent.properties)]

Look ==
  /\ intent.kind = "look"
  /\ UNCHANGED store

Effect ==
  /\ intent # None
  /\ Put \/ Delete \/ Copy \/ Look
  /\ done' = TRUE
  /\ UNCHANGED <<intent, success, others>>

Finish ==
  /\ intent # None
  /\ intent' = None
  /\ success' \in {FALSE, done}
  /\ UNCHANGED <<store, done, others>>

Others ==
  /\ \E k \in Keys, o \in Objects \cup {None} : store' = [store EXCEPT ![k] = o]
  /\ others' = others + 1
  /\ UNCHANGED <<intent, done, success>>

StoreNext == Begin \/ Effect \/ Finish \/ Others

StoreSpec == StoreInit /\ [][StoreNext]_storeVars
=============================================================================
