------------------------------- MODULE S3Acl -------------------------------
(***************************************************************************)
(* The commands of the s3 tool (s3-client/src/s3.c) about access control    *)
(* lists: getacl and getlogging print the grants of a bucket or of its log  *)
(* into a file, setacl and setlogging read such a file, which the user may  *)
(* have edited in between, and put what they understand of it in force.     *)
(*                                                                          *)
(* Text is a sequence of lines, a line a sequence of words, a word a tuple  *)
(* of the pieces that the code tells apart.                                 *)
(***************************************************************************)
EXTENDS S3Requests, Sequences, SequencesExt, FiniteSetsExt

CONSTANTS
  Names,          \* pieces that ids and display names may have
  Acls,           \* bound: what others may put in force
  MaxGrants,      \* grants in a list (S3_MAX_ACL_GRANT_COUNT)
  MaxAclCommands, \* bound: commands
  MaxEdits        \* bound: changes by others and by the editor of the file

Permissions == {"READ", "WRITE", "READ_ACP", "WRITE_ACP", "FULL_CONTROL"}

\* A word has a piece, and no piece is the end of a line.
Newline == <<"\n">>
Pieces ==
  Names \cup Permissions
    \cup {"OwnerID", "Type", "User", "Identifier", "Permission", "-", "Email", "UserID", "(", ")",
          "Group", "Authenticated AWS Users", "All Users", "Log Delivery"}
Words == Seq(Pieces) \ {<<>>}
MaybeWords == Words \cup {<<>>}

\* S3GranteeType, S3Permission, S3AclGrant: groups have no id, and displayName is
\* of use for users only.
Groups == {"AllAwsUsers", "AllUsers", "LogDelivery"}
GranteeTypes == {"AmazonCustomerByEmail", "CanonicalUser"} \cup Groups
AclGrants ==
  {g \in [granteeType : GranteeTypes, id : MaybeWords, displayName : Seq(Words),
          permission : Permissions] :
     g.id = <<>> <=> g.granteeType \in Groups}
AclsTyped ==
  {a \in [ownerId : MaybeWords, ownerDisplayName : Seq(Words), grants : Seq(AclGrants)] :
     (a.ownerId = <<>> => a.ownerDisplayName = <<>>) /\ Len(a.grants) <= MaxGrants}

ASSUME S3AclAssumption ==
  /\ MaxGrants \in Nat /\ MaxAclCommands \in Nat /\ MaxEdits \in Nat
  /\ "\n" \notin Names
  /\ Acls \subseteq AclsTyped /\ Acls # {}
  /\ None \notin AclsTyped /\ None \notin Seq(Seq(Words))

Lists == {"acl", "logging"}

VARIABLES
  granted,   \* granted[l]: the list in force, None for no logging
  text,      \* text[l]: the lines of the file for it, None for no file
  seen,      \* history: the list that the file shows to the user, who got it into
             \* a file that was not longer; else None
  edits      \* by others and by the user

aclVars == <<granted, text, seen, edits>>

(***************************************************************************)
(* Printing.                                                                *)
(***************************************************************************)
\* "(display name)": the parentheses stick to the first and the last word.
Composed(displayName) ==
  LET words == IF displayName = <<>> THEN << <<>> >> ELSE displayName
      open  == [words EXCEPT ![1] = <<"(">> \o @]
  IN  [open EXCEPT ![Len(words)] = @ \o <<")">>]

Group(l, granteeType) ==
  CASE granteeType = "AllAwsUsers" -> <<"Authenticated AWS Users">>
    [] granteeType = "LogDelivery" /\ l = "acl" -> <<"Log Delivery">>
    [] OTHER -> <<"All Users">>

GrantLine(l, grant) ==
  (CASE grant.granteeType = "AmazonCustomerByEmail" -> << <<"Email">>, grant.id >>
     [] grant.granteeType = "CanonicalUser" ->
          << <<"UserID">>, grant.id >> \o Composed(grant.displayName)
     [] OTHER -> << <<"Group">>, Group(l, grant.granteeType) >>)
  \o << <<grant.permission>> >>

GrantLines(l, list) == [i \in DOMAIN list.grants |-> GrantLine(l, list.grants[i])]

Columns ==
  << << <<"Type">>, <<"User">>, <<"Identifier">>, <<"Permission">> >>, << <<"-">>, <<"-">>, <<"-">> >> >>

OwnerLine(list) ==
  << <<"OwnerID">> >> \o (IF list.ownerId = <<>> THEN <<>> ELSE <<list.ownerId>>)
    \o list.ownerDisplayName

\* What get_acl prints.
AclText(list) == <<OwnerLine(list)>> \o Columns \o GrantLines("acl", list)

\* What get_logging prints into the file; the target goes to standard output.
LoggingText(list) == IF list = None THEN <<>> ELSE Columns \o GrantLines("logging", list)

(***************************************************************************)
(* convert_simple_acl, word by word: at says what the code is looking for.  *)
(***************************************************************************)
Unset == "unset"   \* a permission that nothing was assigned to

WordBegins(word, piece) == Head(word) = piece

Found(st, granteeType, at) ==
  [st EXCEPT !.at = at,
             !.grants = Append(@, [granteeType |-> granteeType, id |-> <<>>, displayName |-> <<>>,
                                   permission |-> Unset])]

Filled(st, field, value, at) == [st EXCEPT !.at = at, !.grants[Len(st.grants)][field] = value]

\* What a line goes on with up to its permission.
Field(st, word) ==
  CASE st.at = "ownerId" -> [st EXCEPT !.at = "ownerName", !.ownerId = word]
    [] st.at = "ownerName" -> [st EXCEPT !.at = "line", !.ownerDisplayName = <<word>>]
    [] st.at = "email" -> Filled(st, "id", word, "permission")
    [] st.at = "userId" -> Filled(st, "id", word, "userName")
    [] st.at = "userName" -> Filled(st, "displayName", <<word>>, "permission")
    [] st.at = "group" ->
         CASE word = <<"Authenticated AWS Users">> -> Filled(st, "granteeType", "AllAwsUsers", "permission")
           [] word = <<"All Users">> -> Filled(st, "granteeType", "AllUsers", "permission")
           [] word = <<"Log Delivery">> -> Filled(st, "granteeType", "LogDelivery", "permission")
           [] OTHER -> [st EXCEPT !.at = "failed"]

\* A keyword need not be a word of its own.
AfterKeyword(st, word) == IF Len(word) = 1 THEN st ELSE Field(st, Tail(word))

Grant(st, word) ==
  IF Len(st.grants) = MaxGrants THEN [st EXCEPT !.at = "failed"]
  ELSE CASE WordBegins(word, "Email")  -> AfterKeyword(Found(st, "AmazonCustomerByEmail", "email"), word)
         [] WordBegins(word, "UserID") -> AfterKeyword(Found(st, "CanonicalUser", "userId"), word)
         [] WordBegins(word, "Group")  -> AfterKeyword(Found(st, "AllUsers", "group"), word)
         [] OTHER -> [st EXCEPT !.at = "failed"]

\* Mistake: lines of dashes are not skipped.
LineStartDashes(st, word) ==
  CASE WordBegins(word, "Type") -> [st EXCEPT !.at = "skip"]
    [] WordBegins(word, "OwnerID") -> AfterKeyword([st EXCEPT !.at = "ownerId"], word)
    [] OTHER -> Grant(st, word)

LineStart(st, word) ==
  CASE WordBegins(word, "Type") \/ WordBegins(word, "-") -> [st EXCEPT !.at = "skip"]
    [] WordBegins(word, "OwnerID") -> AfterKeyword([st EXCEPT !.at = "ownerId"], word)
    [] OTHER -> Grant(st, word)

\* What is no permission, or follows one, is left for the next round of the loop.
Permission(st, word) ==
  IF Head(word) \notin Permissions THEN LineStart([st EXCEPT !.at = "line"], word)
  ELSE LET line == Filled(st, "permission", Head(word), "line")
       IN  IF Len(word) = 1 THEN line ELSE LineStart(line, Tail(word))

Consume(st, word) ==
  CASE st.at = "failed" -> st
    [] st.at = "skip" -> IF word = Newline THEN [st EXCEPT !.at = "line"] ELSE st
    [] st.at \notin {"failed", "skip"} /\ word = Newline -> st
    [] st.at = "line" /\ word # Newline -> LineStart(st, word)
    [] st.at = "permission" /\ word # Newline -> Permission(st, word)
    [] OTHER -> Field(st, word)

ReadLine(st, line) == FoldLeft(Consume, st, Append(line, Newline))

NothingRead == [at |-> "line", ownerId |-> <<>>, ownerDisplayName |-> <<>>, grants |-> <<>>]

\* The result, None for "Failed to parse ACLs".
Parsed(lines) ==
  LET end == FoldLeft(ReadLine, NothingRead, lines)
  IN  IF end.at \in {"line", "skip"}
      THEN [ownerId |-> end.ownerId, ownerDisplayName |-> end.ownerDisplayName, grants |-> end.grants]
      ELSE None

(***************************************************************************)
(* Commands: get is get_acl or get_logging, set is set_acl or set_logging;  *)
(* got: what the server answered; sent: what set hands to every request,    *)
(* None if the text was refused or logging is to end; shown is history:     *)
(* what the user saw when set was called.                                   *)
(***************************************************************************)
AclCommands ==
  [proc : {"getacl"}, list : Lists, got : AclsTyped \cup {None}, served : BOOLEAN,
   done : BOOLEAN]
    \cup [proc : {"setacl"}, list : Lists, sent : AclsTyped \cup {None},
          shown : AclsTyped \cup {None}, refused : BOOLEAN,
          served : BOOLEAN, done : BOOLEAN]

AclTypeOK ==
  /\ granted \in [Lists -> AclsTyped \cup {None}]
  /\ text \in [Lists -> Seq(Seq(Words)) \cup {None}]
  /\ seen \in [Lists -> AclsTyped \cup {None}]
  /\ edits \in Nat

AclInit ==
  /\ granted = [l \in Lists |-> IF l = "acl" THEN CHOOSE a \in Acls : TRUE ELSE None]
  /\ text = [l \in Lists |-> None]
  /\ seen = [l \in Lists |-> None]
  /\ edits = 0

(***************************************************************************)
(* get_acl and get_logging.                                                 *)
(***************************************************************************)
\* A file that exists is opened without truncating it.
Gets(l) ==
  /\ Starts([proc |-> "getacl", list |-> l, got |-> None, served |-> FALSE, done |-> FALSE])
  /\ text' = [text EXCEPT ![l] = IF @ = None THEN <<>> ELSE @]
  /\ UNCHANGED <<granted, seen, edits>>

get_acl == Gets("acl")
get_logging == Gets("logging")

GetAclServes ==
  /\ Runs("getacl") /\ ~cmd.served
  /\ Continues([Answered(cmd) EXCEPT !.got = granted[cmd.list]])
  /\ UNCHANGED aclVars

\* Printed from the start of the file, of which a longer rest stays (lines are
\* formatted to a width).
GetAclEnds ==
  /\ Runs("getacl") /\ cmd.served
  /\ Ends("OK", cmd)
  /\ LET new == IF cmd.list = "acl" THEN AclText(cmd.got) ELSE LoggingText(cmd.got)
         old == text[cmd.list]
     IN  /\ text' = [text EXCEPT ![cmd.list] = new \o SubSeq(old, Len(new) + 1, Len(old))]
         /\ seen' = [seen EXCEPT ![cmd.list] = IF Len(old) <= Len(new) THEN cmd.got ELSE None]
  /\ UNCHANGED <<granted, edits>>

(***************************************************************************)
(* set_acl and set_logging.                                                 *)
(***************************************************************************)
\* A permission that was never assigned is whatever the stack holds.
Settled(list, permission) ==
  [list EXCEPT !.grants = [i \in DOMAIN @ |->
     IF @[i].permission = Unset THEN [@[i] EXCEPT !.permission = permission] ELSE @[i]]]

Sets(l) ==
  /\ text[l] # None
  /\ LET list == Parsed(text[l])
     IN  \E permission \in Permissions :
           Starts([proc |-> "setacl", list |-> l, shown |-> seen[l], refused |-> list = None,
                   sent |-> IF list = None THEN None ELSE Settled(list, permission),
                   served |-> FALSE, done |-> FALSE])
  /\ UNCHANGED aclVars

set_acl == Sets("acl")

\* Without targetBucket no file is read, and logging ends.
set_logging ==
  \/ Sets("logging")
  \/ /\ Starts([proc |-> "setacl", list |-> "logging", sent |-> None, shown |-> None,
                refused |-> FALSE, served |-> FALSE, done |-> FALSE])
     /\ UNCHANGED aclVars

\* exit(-1)
SetAclRefused ==
  /\ Runs("setacl") /\ cmd.refused
  /\ Ends("Error", cmd)
  /\ UNCHANGED aclVars

SetAclServes ==
  /\ Runs("setacl") /\ ~cmd.refused /\ ~cmd.served
  /\ granted' = [granted EXCEPT ![cmd.list] = cmd.sent]
  /\ Continues(Answered(cmd))
  /\ UNCHANGED <<text, seen, edits>>

SetAclEnds ==
  /\ Runs("setacl") /\ cmd.served
  /\ Ends("OK", cmd)
  /\ UNCHANGED aclVars

AclFails ==
  /\ Runs("getacl") \/ (Runs("setacl") /\ ~cmd.refused)
  /\ \E status \in {"ConnectionFailed", "Error"} :
       Retries(status, [cmd EXCEPT !.served = FALSE]) \/ Ends(status, cmd)
  /\ UNCHANGED aclVars

(***************************************************************************)
(* Others put a list in force; the user removes the line of a grant.        *)
(***************************************************************************)
OthersGrant(l, list) ==
  /\ edits < MaxEdits
  /\ edits' = edits + 1
  /\ granted' = [granted EXCEPT ![l] = list]
  /\ UNCHANGED <<requestVars, text, seen>>

UserRemoves(l, i) ==
  /\ ~running /\ edits < MaxEdits
  /\ edits' = edits + 1
  /\ seen[l] # None /\ i \in DOMAIN seen[l].grants
  /\ text' = [text EXCEPT ![l] = RemoveAt(@, Len(@) - Len(seen[l].grants) + i)]
  /\ seen' = [seen EXCEPT ![l].grants = RemoveAt(@, i)]
  /\ UNCHANGED <<requestVars, granted>>

AclBegins ==
  /\ commands < MaxAclCommands
  /\ get_acl \/ get_logging \/ set_acl \/ set_logging

AclGoesOn ==
  GetAclServes \/ GetAclEnds \/ SetAclRefused \/ SetAclServes \/ SetAclEnds \/ AclFails

AclOthers == \E l \in Lists :
  \/ \E list \in Acls : OthersGrant(l, list)
  \/ \E i \in 1..MaxGrants : UserRemoves(l, i)

\* A bucket that is created has a canned list, and no log.
NewLists ==
  /\ \E list \in Acls : granted' = [l \in Lists |-> IF l = "acl" THEN list ELSE None]
  /\ UNCHANGED <<text, seen, edits>>

AclNext == AclBegins \/ AclGoesOn \/ AclOthers

(***************************************************************************)
(* Properties.                                                              *)
(***************************************************************************)
Grantees(grants) == [i \in DOMAIN grants |-> <<grants[i].granteeType, grants[i].id>>]
PermissionsOf(grants) == [i \in DOMAIN grants |-> grants[i].permission]

\* Display names are single words.
PlainNames(l, list) ==
  /\ l = "acl" => Len(list.ownerDisplayName) = 1
  /\ \A i \in DOMAIN list.grants :
       list.grants[i].granteeType = "CanonicalUser" => Len(list.grants[i].displayName) = 1

\* No further word of a display name has a word in it that begins a line.
Keywords == {"OwnerID", "Email", "UserID", "Group"}
NoKeywords(name) == \A i \in 2..Len(name) : \A j \in DOMAIN name[i] : name[i][j] \notin Keywords
PlainWords(l, list) ==
  /\ l = "acl" => NoKeywords(list.ownerDisplayName)
  /\ \A i \in DOMAIN list.grants :
       list.grants[i].granteeType = "CanonicalUser" => NoKeywords(list.grants[i].displayName)

\* getlogging calls both groups "All Users".
PlainGroups(l, list) ==
  l = "logging" => \A i \in DOMAIN list.grants : list.grants[i].granteeType # "LogDelivery"

\* What setacl sends has the grantees, in order, that the user saw in a file that
\* was new, unless a display name looks like a line of its own; it has the same
\* permissions, and the text is not refused, if names are single words.
\* (convert_simple_acl has to understand what get_acl and get_logging print.)
SetKeepsGrants ==
  cmd # None /\ cmd.proc = "setacl" /\ cmd.shown # None =>
    /\ cmd.sent # None /\ PlainGroups(cmd.list, cmd.shown) /\ PlainWords(cmd.list, cmd.shown) =>
         Grantees(cmd.sent.grants) = Grantees(cmd.shown.grants)
    /\ PlainNames(cmd.list, cmd.shown) =>
         /\ ~cmd.refused
         /\ PermissionsOf(cmd.sent.grants) = PermissionsOf(cmd.shown.grants)
=============================================================================
