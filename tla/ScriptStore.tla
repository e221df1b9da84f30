----------------------------- MODULE ScriptStore -----------------------------
(***************************************************************************)
(* The scripts: files of LittleFS that HTTP clients list, get, post and    *)
(* delete.  The body of a POST comes in chunks, which the chunks and       *)
(* requests of other connections may separate; all of them are handled by  *)
(* one task, so only a power cut comes between the steps of a save.  A     *)
(* body is a sequence of chunks.                                           *)
(***************************************************************************)
EXTENDS Naturals, Sequences

CONSTANTS
  Clients,      \* HTTP connections
  Names,        \* script names
  ValidNames,   \* those that isValidScriptName() accepts
  Chunks,       \* pieces of a body
  SizeOf,       \* per chunk: its bytes
  NulChunks,    \* the chunks that begin with a NUL
  Bodies,       \* the bodies that clients post
  MaxBody,      \* max_script_body_size
  MaxCuts,      \* bound: power cuts
  Absent, Unknown, NoBody

ASSUME NamesAssumption == Names # {} /\ ValidNames \subseteq Names
ASSUME ChunksAssumption == NulChunks \subseteq Chunks /\ SizeOf \in [Chunks -> Nat \ {0}]
ASSUME BodiesAssumption == \A b \in Bodies : b \in Seq(Chunks)
ASSUME MarksAssumption ==
  Absent # Unknown /\ \A m \in {Absent, Unknown, NoBody} : m \notin Seq(Chunks)
ASSUME BodyBoundsAssumption == MaxBody \in Nat /\ MaxCuts \in Nat

VARIABLES
  files,      \* per valid name: its content, or absent
  step,       \* per client: no request, its body coming, or its save
  name,       \* per client: the name it posts to
  rest,       \* per client: the chunks of the body still to come
  tempObject, \* per client: request->_tempObject, or the content saved
  length,     \* per client: what size() says of that string
  before,     \* per client: the file before the save
  posted,     \* history, per client: the body it sends, or Unknown after a
              \* fault that its answer will not tell it
  owed,       \* history, per name: what the answers so far let clients expect
  cuts        \* power cuts so far

scriptVars == <<files, step, name, rest, tempObject, length, before, posted, owed, cuts>>

AnyName == CHOOSE n \in Names : TRUE
AllIdle == [c \in Clients |-> "idle"]
NoNames == [c \in Clients |-> AnyName]
NoneLeft == [c \in Clients |-> <<>>]
NoBodies == [c \in Clients |-> NoBody]
NoLengths == [c \in Clients |-> 0]
NothingBefore == [c \in Clients |-> Absent]
NothingPosted == [c \in Clients |-> Unknown]

ScriptsInit ==
  /\ files = [n \in ValidNames |-> Absent]
  /\ step = AllIdle /\ name = NoNames /\ rest = NoneLeft
  /\ tempObject = NoBodies /\ length = NoLengths /\ before = NothingBefore /\ posted = NothingPosted
  /\ owed = [n \in ValidNames |-> Absent]
  /\ cuts = 0

-----------------------------------------------------------------------------
(* What the code computes.                                                 *)

(* c_str(): up to the first NUL.                                           *)
CString(content) ==
  LET nuls == {i \in DOMAIN content : content[i] \in NulChunks}
  IN  IF nuls = {} THEN content
      ELSE SubSeq(content, 1, (CHOOSE i \in nuls : \A j \in nuls : i <= j) - 1)

scriptExists(n) == n \in ValidNames /\ files[n] # Absent
getScript(n) == CString(files[n])
listScripts == {n \in ValidNames : scriptExists(n)}

(* Saves are not interrupted by other handlers.                            *)
HttpTaskFree == \A c \in Clients : step[c] \in {"idle", "first", "body"}

-----------------------------------------------------------------------------
(* Requests.                                                               *)

Goto(c, here, there) == step[c] = here /\ step' = [step EXCEPT ![c] = there]

(* A client begins to post.                                                *)
Post(c, n, body) ==
  /\ Goto(c, "idle", IF body = <<>> THEN "body" ELSE "first")
  /\ name' = [name EXCEPT ![c] = n]
  /\ rest' = [rest EXCEPT ![c] = body]
  /\ posted' = [posted EXCEPT ![c] = body]
  /\ UNCHANGED <<files, tempObject, length, before, owed, cuts>>

(* The request is over: answered, or given up by its client.               *)
EndRequest(c) ==
  /\ step' = [step EXCEPT ![c] = "idle"]
  /\ name' = [name EXCEPT ![c] = AnyName]
  /\ rest' = [rest EXCEPT ![c] = <<>>]
  /\ tempObject' = [tempObject EXCEPT ![c] = NoBody]
  /\ length' = [length EXCEPT ![c] = 0]
  /\ before' = [before EXCEPT ![c] = Absent]
  /\ posted' = [posted EXCEPT ![c] = Unknown]

(* The body handler at index 0: the string is allocated, if memory allows. *)
Allocate(c, memory) ==
  /\ HttpTaskFree
  /\ Goto(c, "first", "body")
  /\ tempObject' = [tempObject EXCEPT ![c] = IF memory THEN <<>> ELSE NoBody]
  /\ length' = [length EXCEPT ![c] = 0]
  /\ posted' = [posted EXCEPT ![c] = IF memory THEN @ ELSE Unknown]
  /\ UNCHANGED <<files, name, rest, before, owed, cuts>>

(* Mutant of Fits: the chunk itself does not count.                        *)
FitsBefore(c, chunk) == tempObject[c] # NoBody /\ length[c] <= MaxBody

Fits(c, chunk) == tempObject[c] # NoBody /\ length[c] + SizeOf[chunk] <= MaxBody

(* Mutant of Appended: all requests have one string.                       *)
AppendedToAll(c, chunk) ==
  [d \in Clients |-> IF tempObject[d] # NoBody THEN Append(tempObject[d], chunk) ELSE NoBody]

Appended(c, chunk) == [tempObject EXCEPT ![c] = Append(@, chunk)]

(* And at every index: a chunk too many is skipped, without a word, and a  *)
(* later one may fit again.                                                *)
Accumulate(c) ==
  /\ HttpTaskFree
  /\ step[c] = "body" /\ rest[c] # <<>>
  /\ LET chunk == Head(rest[c])
     IN  /\ tempObject' = IF Fits(c, chunk) THEN Appended(c, chunk) ELSE tempObject
         /\ length' = IF Fits(c, chunk) THEN [length EXCEPT ![c] = @ + SizeOf[chunk]] ELSE length
         /\ posted' = [posted EXCEPT ![c] = IF Fits(c, chunk) THEN @ ELSE Unknown]
  /\ rest' = [rest EXCEPT ![c] = Tail(@)]
  /\ UNCHANGED <<files, step, name, before, owed, cuts>>

(* The client closes the connection before its body is complete.           *)
GiveUp(c) ==
  /\ HttpTaskFree
  /\ step[c] # "idle"
  /\ EndRequest(c)
  /\ UNCHANGED <<files, owed, cuts>>

(* The final handler; without a string the content is empty.  A name that  *)
(* is not valid is refused.                                                *)
Save(c) ==
  /\ HttpTaskFree
  /\ step[c] = "body" /\ rest[c] = <<>>
  /\ IF name[c] \in ValidNames
     THEN /\ step' = [step EXCEPT ![c] = "open"]
          /\ tempObject' = [tempObject EXCEPT ![c] = IF @ = NoBody THEN <<>> ELSE @]
          /\ UNCHANGED <<name, rest, length, before, posted>>
     ELSE EndRequest(c)
  /\ UNCHANGED <<files, owed, cuts>>

(* saveScript(): open() truncates the file, or fails, which is answered.   *)
OpenFile(c, ok) ==
  /\ step[c] = "open"
  /\ IF ok
     THEN /\ step' = [step EXCEPT ![c] = "print"]
          /\ before' = [before EXCEPT ![c] = files[name[c]]]
          /\ files' = [files EXCEPT ![name[c]] = <<>>]
          /\ owed' = [owed EXCEPT ![name[c]] = Unknown]
          /\ UNCHANGED <<name, rest, tempObject, length, posted>>
     ELSE EndRequest(c) /\ UNCHANGED <<files, owed>>
  /\ UNCHANGED cuts

(* print(c_str()): as much of it as there is room for.                     *)
WriteContent(c) ==
  /\ Goto(c, "print", "close")
  /\ \E n \in 0..Len(CString(tempObject[c])) :
       LET printed == SubSeq(CString(tempObject[c]), 1, n)
       IN  /\ files' = [files EXCEPT ![name[c]] = printed]
           /\ posted' = IF printed = tempObject[c] THEN posted
                        ELSE [posted EXCEPT ![c] = Unknown]
  /\ UNCHANGED <<name, rest, tempObject, length, before, owed, cuts>>

(* close(), and 200 whatever was printed.                                  *)
Close(c) ==
  /\ step[c] = "close"
  /\ owed' = [owed EXCEPT ![name[c]] = posted[c]]
  /\ EndRequest(c)
  /\ UNCHANGED <<files, cuts>>

(* deleteScript(): 404 unless there is such a file and it can be removed.  *)
Delete(n, ok) ==
  /\ HttpTaskFree
  /\ scriptExists(n) /\ ok
  /\ files' = [files EXCEPT ![n] = Absent]
  /\ owed' = [owed EXCEPT ![n] = Absent]
  /\ UNCHANGED <<step, name, rest, tempObject, length, before, posted, cuts>>

(* The power goes.  A file that was not closed is as it was before, empty, *)
(* or has what was printed.                                                *)
Saving == {c \in Clients : step[c] \in {"print", "close"}}

PowerCut ==
  /\ cuts < MaxCuts
  /\ cuts' = cuts + 1
  /\ \/ Saving = {} /\ UNCHANGED files
     \/ \E c \in Saving : \E content \in {files[name[c]], before[c], <<>>} :
          files' = [files EXCEPT ![name[c]] = content]
  /\ step' = AllIdle /\ name' = NoNames /\ rest' = NoneLeft
  /\ tempObject' = NoBodies /\ length' = NoLengths /\ before' = NothingBefore /\ posted' = NothingPosted
  /\ UNCHANGED owed

-----------------------------------------------------------------------------

ScriptsNext ==
  \/ \E c \in Clients :
       \/ \E n \in Names, body \in Bodies : Post(c, n, body)
       \/ \E ok \in BOOLEAN : Allocate(c, ok) \/ OpenFile(c, ok)
       \/ Accumulate(c) \/ GiveUp(c) \/ Save(c) \/ Close(c)
       \/ WriteContent(c)
  \/ \E n \in ValidNames, ok \in BOOLEAN : Delete(n, ok)
  \/ PowerCut

ScriptsSpec == ScriptsInit /\ [][ScriptsNext]_scriptVars

-----------------------------------------------------------------------------
(* Properties.                                                             *)

(* Every variable has its type; a string never exceeds the cap.            *)
ScriptsTypeOK ==
  /\ files \in [ValidNames -> Seq(Chunks) \cup {Absent}]
  /\ step \in [Clients -> {"idle", "first", "body", "open", "print", "close"}]
  /\ name \in [Clients -> Names]
  /\ rest \in [Clients -> Seq(Chunks)]
  /\ tempObject \in [Clients -> Seq(Chunks) \cup {NoBody}]
  /\ length \in [Clients -> 0..MaxBody]
  /\ before \in [Clients -> Seq(Chunks) \cup {Absent}]
  /\ posted \in [Clients -> Bodies \cup {Unknown}]
  /\ owed \in [ValidNames -> Bodies \cup {Absent, Unknown}]
  /\ cuts \in 0..MaxCuts

(* A script that was answered as saved, and of which no chunk was too      *)
(* many, no byte a NUL, no memory or room was short, is served as it was   *)
(* posted, and a deleted one is not there, until the next save of that     *)
(* name is begun: whatever other posts come between its chunks, of the     *)
(* same name too, whoever gives up, and through power cuts.                *)
ServedAsPosted ==
  \A n \in ValidNames :
    /\ owed[n] \in Bodies => scriptExists(n) /\ getScript(n) = owed[n]
    /\ owed[n] = Absent => n \notin listScripts
=============================================================================
