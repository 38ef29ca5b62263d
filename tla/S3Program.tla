----------------------------- MODULE S3Program -----------------------------
(***************************************************************************)
(* The s3 tool as a whole (s3-client/src/s3.c): its commands about objects  *)
(* and about access control lists, with the growbuffer that put fills from  *)
(* standard input and hands to libs3 piece by piece.                        *)
(***************************************************************************)
EXTENDS S3Client, S3Acl, GrowBuffer

CONSTANT MixedEdits   \* bound: edits of lists where a behaviour is about objects, too

ASSUME S3ProgramAssumption == MixedEdits \in Nat

VARIABLE gb   \* the growbuffer of a put, None if it reads from infile

programVars == <<vars, aclVars, gb>>

ProgramTypeOK ==
  /\ RequestsTypeOK /\ ClientTypeOK /\ AclTypeOK
  /\ cmd \in ClientCommands \cup AclCommands \cup {None}
  /\ gb # None =>
       /\ \A i \in DOMAIN gb :
            /\ gb[i] \in [size : 1..BlockSize, start : 0..(BlockSize - 1), data : Seq(Bytes \cup {Zero})]
            /\ gb[i].start + gb[i].size <= BlockSize
            /\ Len(gb[i].data) = BlockSize
            /\ gb[i].start > 0 => i = 1
            /\ gb[i].start + gb[i].size < BlockSize => i = Len(gb)

ProgramInit == Init /\ AclInit /\ gb = None

\* Commands of both kinds follow each other. With MixedEdits below MaxEdits, lists
\* are edited further only where there is no object and no command about one.
ListCommand == cmd # None /\ cmd.proc \in {"getacl", "setacl"}
AboutObjects ==
  (cmd # None /\ ~ListCommand) \/ bucket # [k \in Keys |-> None] \/ out # None \/ ~exists

\* Without a file name and without a length put reads its input to the end.
Buffered(c) ==
  IF c.proc = "put" /\ c.originalContentLength = Len(c.input)
  THEN {None, growbuffer_append(<<>>, c.input)} ELSE {None}

ObjectsBegin ==
  /\ edits <= MixedEdits
  /\ Begins
  /\ gb' \in Buffered(cmd')
  /\ UNCHANGED aclVars

\* Bytes that putObjectDataCallback hands over in this step.
Handed == IF Runs("put") THEN cmd'.at - cmd.at ELSE 0

\* put_object destroys the buffer when it is done.
ObjectsGoOn ==
  /\ ~ListCommand
  /\ GoesOn
  /\ IF gb = None \/ Handed = 0
     THEN gb' = IF running' THEN gb ELSE None
     ELSE /\ Handed = Len(Taken(gb, Handed))
          /\ gb' = growbuffer_read(gb, Handed)
  /\ IF exists' /\ ~exists THEN NewLists ELSE UNCHANGED aclVars

ListsBegin == AclBegins /\ UNCHANGED <<clientVars, gb>>

\* The server has no list of a bucket that does not exist.
ListsGoOn ==
  /\ AclGoesOn
  /\ cmd'.served => cmd.served \/ exists
  /\ UNCHANGED <<clientVars, gb>>

Environment ==
  \/ edits <= MixedEdits /\ Others /\ UNCHANGED <<aclVars, gb>>
  \/ (AboutObjects => edits < MixedEdits) /\ AclOthers /\ UNCHANGED <<clientVars, gb>>

ProgramNext == ObjectsBegin \/ ObjectsGoOn \/ ListsBegin \/ ListsGoOn \/ Environment

\* libs3 brings every request to an end, and the tool goes on.
ProgramSpec ==
  ProgramInit /\ [][ProgramNext]_programVars /\ WF_programVars(ObjectsGoOn \/ ListsGoOn)

(***************************************************************************)
(* Properties.                                                              *)
(***************************************************************************)
\* However input and buffers of libs3 fall on the blocks, and however often the
\* request is made again, the growbuffer holds what the callback has not handed
\* over yet, in order, and is empty when the announced bytes are used up
\* (growbuffer_append, growbuffer_read, putObjectDataCallback).
GrowbufferHoldsRest ==
  gb # None =>
    /\ Unread(gb) = SubSeq(cmd.input, cmd.at + 1, Len(cmd.input))
    /\ gb = <<>> <=> cmd.contentLength = 0
=============================================================================
