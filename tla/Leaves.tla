------------------------------- MODULE Leaves -------------------------------
(***************************************************************************)
(* The components at the leaves of the library, which call nothing else of *)
(* it: in every behaviour one of them is at work and the others rest.      *)
(***************************************************************************)
EXTENDS Integers, Sequences

CONSTANTS
  Key, Value, NoValue,   \* of the containers
  Capacity,              \* the cells of a container
  Hash,                  \* HeavyHash::getHash
  LastMayDangle, ZeroedHeap,
  Variable, MaxObject, SourceMayDie,        \* of Ptr
  Name, Path, MaxTag, MaxRoot, MaxText,     \* of XmlTag
  Community, RequestID, Oid, SnmpValue, Above, MaxOid,   \* of Snmp
  FieldName, FieldValue, MaxField,          \* of HttpForm
  Pattern, RequestPath, MaxRoute,           \* of Router
  MaxEvents, MaxCalls, EmptyAfterFailure    \* of TagParser

VARIABLES
  part,                              \* the component at work
  queue, queue_answer,               \* Queue
  hash, hash_answer,                 \* HeavyHash
  cells, stack_answer,               \* Stack
  safemap, safemap_added, safemap_again,
  heap,                              \* Ptr
  tree, tags_count,                  \* XmlTag
  packet, cmd_offset, requestID_offset, oid_offset, asked,   \* Snmp
  form,                              \* HttpForm
  routes, mask_routes, registered,   \* Router
  expat, depth, stack, presult, answer, heard, how,       \* TagParser
  link, pc, ran, sql_answer          \* a call of MySQL or EasyMySQL

queueVars == <<queue, queue_answer>>
hashVars == <<hash, hash_answer>>
stackVars == <<cells, stack_answer>>
mapVars == <<safemap, safemap_added, safemap_again>>
tagVars == <<tree, tags_count>>
snmpVars == <<packet, cmd_offset, requestID_offset, oid_offset, asked>>
routeVars == <<routes, mask_routes, registered>>
parserVars == <<expat, depth, stack, presult, answer, heard, how>>
sqlVars == <<link, pc, ran, sql_answer>>
vars == <<part, queueVars, hashVars, stackVars, mapVars, heap, tagVars, snmpVars, form, routeVars,
          parserVars, sqlVars>>

Queues == INSTANCE Queue WITH answer <- queue_answer
Hashes == INSTANCE HeavyHash WITH answer <- hash_answer
Stacks == INSTANCE Stack WITH stack <- cells, answer <- stack_answer
Maps == INSTANCE SafeMap WITH added <- safemap_added, again <- safemap_again
Pointers == INSTANCE Ptr
Tags == INSTANCE XmlTag
Packets == INSTANCE Snmp WITH Value <- SnmpValue
Forms == INSTANCE HttpForm
Routes == INSTANCE Router
Parsers == INSTANCE TagParser

\* MySQL::queryRaw repeats a statement after either error; its server's answers are
\* not lost here, since it would execute a statement twice (mysql.cpp:130).
Calls == INSTANCE MySQL
  WITH RetryErrors <- {"GONE", "LOST"}, AnswerMayBeLost <- FALSE, answer <- sql_answer

\* EasyMySQL::real_query repeats it only after the error that says nothing was sent.
EasyCalls == INSTANCE MySQL
  WITH RetryErrors <- {"GONE"}, AnswerMayBeLost <- TRUE, answer <- sql_answer

Init ==
  /\ part \in {"Queue", "HeavyHash", "Stack", "SafeMap", "Ptr", "XmlTag", "Snmp", "HttpForm",
              "Router", "TagParser", "MySQL", "EasyMySQL"}
  /\ Queues!Init /\ Hashes!Init /\ Stacks!Init /\ Maps!Init /\ Pointers!Init
  /\ Tags!Init /\ Packets!Init /\ Forms!Init /\ Routes!Init /\ Parsers!Init /\ Calls!Init

Next ==
  /\ UNCHANGED part
  /\ part = "Queue" \/ UNCHANGED queueVars
  /\ part = "HeavyHash" \/ UNCHANGED hashVars
  /\ part = "Stack" \/ UNCHANGED stackVars
  /\ part = "SafeMap" \/ UNCHANGED mapVars
  /\ part = "Ptr" \/ UNCHANGED heap
  /\ part = "XmlTag" \/ UNCHANGED tagVars
  /\ part = "Snmp" \/ UNCHANGED snmpVars
  /\ part = "HttpForm" \/ UNCHANGED form
  /\ part = "Router" \/ UNCHANGED routeVars
  /\ part = "TagParser" \/ UNCHANGED parserVars
  /\ part \in {"MySQL", "EasyMySQL"} \/ UNCHANGED sqlVars
  /\ \/ part = "Queue" /\ Queues!Next
     \/ part = "HeavyHash" /\ Hashes!Next
     \/ part = "Stack" /\ Stacks!Next
     \/ part = "SafeMap" /\ Maps!Next
     \/ part = "Ptr" /\ Pointers!Next
     \/ part = "XmlTag" /\ Tags!Next
     \/ part = "Snmp" /\ Packets!Next
     \/ part = "HttpForm" /\ Forms!Next
     \/ part = "Router" /\ Routes!Next
     \/ part = "TagParser" /\ Parsers!Next
     \/ part = "MySQL" /\ Calls!Next
     \/ part = "EasyMySQL" /\ EasyCalls!Next

Spec == Init /\ [][Next]_vars

(***************************************************************************)
(* Properties.                                                             *)
(***************************************************************************)
\* Queue, Stack and HeavyHash are what Deque and Dict promise, call by call.
ContainersRight == Queues!IsDeque /\ Hashes!IsDict /\ Stacks!IsStack

\* Every cell of a container is in one place: none leaks, none is given out twice; and
\* an object that is counted lives exactly as long as there is a pointer to it.
CellsAccounted ==
  /\ Queues!CellsAccounted /\ Hashes!CellsAccounted /\ Stacks!CellsAccounted /\ Maps!ItemsKept
  /\ Pointers!CountsRight

\* The tags of a tree have one owner, and the loop over find and findNext sees each.
TagsFound == Tags!TreeSound /\ Tags!FindsAll

\* The SNMP parser understands what the builder and an agent write.
SnmpUnderstood == Packets!Understood

\* The fields of a form arrive as they were filled in.
FormsArrive == Forms!FormArrives

\* A request reaches the handler that was registered for it, and no other.
RequestsRouted == Routes!RoutedRight

\* A parser returns whole documents, whatever it read before.
DocumentsParsed == Parsers!ResultRight

\* A statement is executed once by a call that succeeds, and never twice.
StatementOnce == Calls!Once
=============================================================================
