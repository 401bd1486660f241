------------------------------- MODULE ICache -------------------------------
(***************************************************************************)
(* The instruction cache (utils/cache/ICache.scala) of two ways, between   *)
(* the IF stage and the instruction port of the arbiter.  One Cycle is one *)
(* clock edge.                                                             *)
(*                                                                         *)
(* A lookup takes two cycles: the request's index reads the valid bits and *)
(* the RAMs into blockValids, infoResp and dataResp, and the next cycle    *)
(* compares the tags.  Both are read again in every cycle.                 *)
(*                                                                         *)
(* A word is its address and its version: how often memory has changed it. *)
(* fenced and asked are history: what fence.i promises.                    *)
(*                                                                         *)
(* newTagsBoth, validsNextOneWay and reqCounterKept are the definitions    *)
(* after them with a bug planted                                           *)
(* (README, "Planted bugs").                                               *)
(***************************************************************************)
EXTENDS Naturals

CONSTANTS
  Tags, Indexes,  \* a line has a tag and an index
  Address,        \* the addresses the program runs through
  Burstable,      \* the lines in the address range that answers bursts
  blockWords,     \* words of a line
  Stored,         \* addresses the program stores to
  MaxVer          \* bound: how often each of them is stored to

Ways == {0, 1}
Words == 0 .. blockWords - 1
Line == [tag : Tags, index : Indexes]
Value == [line : Line, word : Words, ver : 0 .. MaxVer]
Unwritten == [line |-> [tag |-> 0, index |-> 0], word |-> 0, ver |-> 0]

ASSUME ICacheAssumption ==
  /\ blockWords \in Nat \ {0, 1}
  /\ MaxVer \in Nat
  /\ 0 \notin Tags
  /\ Address \subseteq [line : Line, word : Words] /\ Address # {}
  /\ Stored \subseteq Address
  /\ Burstable \subseteq Line

VARIABLES
  valids,       \* the valid bits
  infoRams,     \* tags and lru of each index
  dataRams,     \* the words of each way and index
  blockValids, infoResp, dataResp,   \* what was read in the last cycle
  reqValid, req,                     \* the request in the cache
  state, reqCounter, respCounter, replaceWay, inst2Fire,
  bus,          \* the read burst at the arbiter: line, next word, words left
  PC, reqFired, instGetted,          \* of the IF stage
  fencei,       \* the word in ID is a fence.i
  mem,          \* the versions of the stored words
  fenced,       \* their versions when the last fence.i came into ID
  asked         \* fenced for the requested word when req was accepted

ram == <<valids, infoRams, dataRams, blockValids, infoResp, dataResp>>
control == <<reqValid, req, state, reqCounter, respCounter, replaceWay, inst2Fire>>
outside == <<bus, PC, reqFired, instGetted, fencei>>
history == <<fenced, asked>>
vars == <<ram, control, outside, mem, history>>

Of(f, a) == IF a \in Stored THEN f[a] ELSE 0
InMemory(l, o) ==
  [line |-> l, word |-> o, ver |-> Of(mem, [line |-> l, word |-> o])]

-----------------------------------------------------------------------------
(* The wires.  e.ar: the address IF asks for; e.toID: ID takes a word;     *)
(* e.arReady, e.beat: the arbiter accepts a request, hands over a word;    *)
(* e.store: the word memory changes in this cycle.                         *)

index == req.line.index
burstable == req.line \in Burstable

hits(w) == blockValids[w] /\ infoResp.tags[w] = req.line.tag
hit == state = "IDLE" /\ \E w \in Ways : hits(w)
hitData == dataResp[CHOOSE w \in Ways : hits(w)]

arFromIFReady == state \in {"IDLE", "FINISH"} /\ ((reqValid /\ hit) \/ ~reqValid)
rToIFValid == (hit /\ reqValid) \/ state = "FINISH"
rdata == IF state = "FINISH" THEN inst2Fire ELSE hitData

arToMemValid == (state = "IDLE" /\ reqValid /\ ~hit) \/ state = "READ"
arToMemWord == IF state = "READ" THEN reqCounter ELSE 0
arToMemLen == IF state = "IDLE" /\ burstable THEN blockWords ELSE 1

arFromIFFire == ~reqFired /\ arFromIFReady
rToIFFire == rToIFValid /\ ~instGetted
toIDValid ==
  \/ (rToIFFire \/ instGetted) /\ (arFromIFFire \/ reqFired)
  \/ PC = "PC_INIT"
toIDFire(e) == toIDValid /\ e.toID
arToMemFire(e) == arToMemValid /\ e.arReady
rFromMemFire(e) == e.beat
LastBeat(e) ==
  state = "COMMIT" /\ rFromMemFire(e) /\ respCounter = blockWords - 1

\* Where the RAMs and the valid bits are read for the next cycle.
preIF(e) == IF arFromIFFire THEN e.ar ELSE req

-----------------------------------------------------------------------------
ReqNext(e) ==
  /\ req' = preIF(e)
  /\ reqValid' = (arFromIFFire \/ (reqValid /\ ~rToIFFire))

StateNext(e) ==
  state' =
    CASE state = "IDLE" /\ arToMemFire(e) -> IF burstable THEN "COMMIT" ELSE "READ"
      [] state = "READ" /\ arToMemFire(e) /\ reqCounter = blockWords - 1 -> "COMMIT"
      [] LastBeat(e) -> "FINISH"
      [] state = "FINISH" /\ rToIFFire -> "IDLE"
      [] OTHER -> state

\* Both counters have the width of a word offset.
reqCounterKept(e) ==
  reqCounter' = IF arToMemFire(e) THEN (reqCounter + 1) % blockWords ELSE reqCounter
ReqCounterNext(e) ==
  reqCounter' = CASE state = "FINISH" -> 0
                  [] arToMemFire(e) -> (reqCounter + 1) % blockWords
                  [] OTHER -> reqCounter
RespCounterNext(e) ==
  respCounter' = CASE state = "FINISH" -> 0
                   [] rFromMemFire(e) -> (respCounter + 1) % blockWords
                   [] OTHER -> respCounter

RefillNext(e) ==
  LET word == InMemory(bus.line, bus.word) IN
  /\ replaceWay' = IF state = "IDLE" /\ arToMemValid THEN infoResp.lru ELSE replaceWay
  /\ inst2Fire' = IF rFromMemFire(e) /\ respCounter = req.word THEN word ELSE inst2Fire
  /\ dataRams' = IF rFromMemFire(e)
                 THEN [dataRams EXCEPT ![replaceWay][index][respCounter] = word]
                 ELSE dataRams

newTagsBoth == [w \in Ways |-> req.line.tag]
newTags == [infoResp.tags EXCEPT ![replaceWay] = req.line.tag]
InfoNext(e) ==
  infoRams' =
    CASE hit -> [infoRams EXCEPT ![index] =
                   [tags |-> infoResp.tags, lru |-> IF hits(0) THEN 1 ELSE 0]]
      [] LastBeat(e) -> [infoRams EXCEPT ![index] =
                           [tags |-> newTags, lru |-> 1 - infoResp.lru]]
      [] OTHER -> infoRams

\* The last beat sets its bit even while fence.i clears them all.
validsNextOneWay(e) ==
  valids' = [i \in Indexes |-> [w \in Ways |->
    (LastBeat(e) /\ i = index /\ w = replaceWay) \/ (valids[i][w] /\ ~(fencei /\ w = 0))]]
ValidsNext(e) ==
  valids' = [i \in Indexes |-> [w \in Ways |->
    (LastBeat(e) /\ i = index /\ w = replaceWay) \/ (valids[i][w] /\ ~fencei)]]

\* A RAM read in the cycle of a write to the same place gives the old word
\* or the new one: the simulated memory leaves it open.
LookupNext(e) ==
  LET i == preIF(e).line.index
      o == preIF(e).word
  IN /\ blockValids' = valids[i]
     /\ infoResp' \in {infoRams[i], infoRams'[i]}
     /\ dataResp' \in { [w \in Ways |-> dataRams[w][i][o]],
                        [w \in Ways |-> dataRams'[w][i][o]] }

\* The arbiter holds one burst (module Arbiter, ReadsConserved).
BusNext(e) ==
  bus' = IF arToMemFire(e)
         THEN [line |-> req.line, word |-> arToMemWord, left |-> arToMemLen]
         ELSE IF e.beat THEN [bus EXCEPT !.word = @ + 1, !.left = @ - 1] ELSE bus

\* After reset IF's PC is PC_INIT - 4, then PC_INIT, then any other.
\* fence.i is decoded from the word ID holds, so it lasts until ID's next.
IFNext(e) ==
  /\ PC' = IF ~toIDFire(e) THEN PC
           ELSE IF PC = "PC_INIT - 4" THEN "PC_INIT" ELSE "other"
  /\ reqFired' = (~toIDFire(e) /\ (reqFired \/ arFromIFFire))
  /\ instGetted' = (~toIDFire(e) /\ (instGetted \/ rToIFFire))
  /\ fencei' = IF toIDFire(e) THEN e.fencei ELSE fencei

MemNext(e) ==
  mem' = [a \in Stored |-> IF a \in e.store THEN mem[a] + 1 ELSE mem[a]]

HistoryNext(e) ==
  /\ fenced' = IF toIDFire(e) /\ e.fencei THEN mem' ELSE fenced
  /\ asked' = IF ~arFromIFFire THEN asked ELSE IF fencei THEN 0 ELSE Of(fenced, e.ar)

-----------------------------------------------------------------------------
Init ==
  /\ valids = [i \in Indexes |-> [w \in Ways |-> FALSE]]
  /\ infoRams \in [Indexes -> [tags : {[w \in Ways |-> 0]}, lru : Ways]]
  /\ dataRams = [w \in Ways |-> [i \in Indexes |-> [o \in Words |-> Unwritten]]]
  /\ blockValids = [w \in Ways |-> FALSE]
  /\ infoResp = [tags |-> [w \in Ways |-> 0], lru |-> 0]
  /\ dataResp = [w \in Ways |-> Unwritten]
  /\ reqValid = FALSE
  /\ req = CHOOSE a \in Address : TRUE
  /\ state = "IDLE"
  /\ reqCounter = 0
  /\ respCounter = 0
  /\ replaceWay = 0
  /\ inst2Fire = Unwritten
  /\ bus = [line |-> req.line, word |-> 0, left |-> 0]
  /\ PC = "PC_INIT - 4"
  /\ reqFired = FALSE
  /\ instGetted = FALSE
  /\ fencei = FALSE
  /\ mem = [a \in Stored |-> 0]
  /\ fenced = mem
  /\ asked = 0

Cycle(e) ==
  /\ ReqNext(e)
  /\ StateNext(e)
  /\ ReqCounterNext(e)
  /\ RespCounterNext(e)
  /\ RefillNext(e)
  /\ InfoNext(e)
  /\ ValidsNext(e)
  /\ LookupNext(e)
  /\ BusNext(e)
  /\ IFNext(e)
  /\ MemNext(e)
  /\ HistoryNext(e)

\* Nothing stands in the way of the first words: the stages are empty.  The
\* program does not begin with a fence.i.
Maybe(c) == IF c THEN BOOLEAN ELSE {FALSE}
Env == [ ar : IF arFromIFFire THEN Address ELSE {req},
         toID : IF PC = "other" THEN Maybe(toIDValid) ELSE {toIDValid},
         fencei : Maybe(PC = "other"),
         arReady : Maybe(arToMemValid /\ bus.left = 0),
         beat : Maybe(bus.left > 0),
         store : {{}} \cup {{a} : a \in {a \in Stored : mem[a] < MaxVer}} ]

Next == \E e \in Env : Cycle(e)

\* The clock runs, and the arbiter neither leaves a request untaken nor a
\* burst unfinished for ever.
Fairness ==
  /\ WF_vars(Next)
  /\ []<>(arToMemValid => bus.left > 0)
  /\ []<>(bus.left = 0)

Spec == Init /\ [][Next]_vars
FairSpec == Spec /\ Fairness

-----------------------------------------------------------------------------
\* The values the registers and RAMs hold.
TypeOK ==
  LET Info == [tags : [Ways -> Tags \cup {0}], lru : Ways]
      Any == Value \cup {Unwritten}
  IN
  /\ valids \in [Indexes -> [Ways -> BOOLEAN]]
  /\ infoRams \in [Indexes -> Info]
  /\ dataRams \in [Ways -> [Indexes -> [Words -> Any]]]
  /\ blockValids \in [Ways -> BOOLEAN]
  /\ infoResp \in Info
  /\ dataResp \in [Ways -> Any]
  /\ reqValid \in BOOLEAN
  /\ req \in Address
  /\ state \in {"IDLE", "READ", "COMMIT", "FINISH"}
  /\ {reqCounter, respCounter} \subseteq Words
  /\ replaceWay \in Ways
  /\ inst2Fire \in Any
  /\ bus \in [line : Line, word : 0 .. blockWords, left : 0 .. blockWords]
  /\ PC \in {"PC_INIT - 4", "PC_INIT", "other"}
  /\ {reqFired, instGetted, fencei} \subseteq BOOLEAN
  /\ {mem, fenced} \subseteq [Stored -> 0 .. MaxVer]
  /\ asked \in 0 .. MaxVer

(***************************************************************************)
(* The word handed to IF is the one at the requested address, and not      *)
(* older than memory was when the last fence.i came into ID before the     *)
(* request was accepted (requests under a fence.i are for words that are   *)
(* flushed).  A refill that began before the fence.i sets its valid bit    *)
(* against the clearing (ICache.scala:174, 264); what saves it is that ID  *)
(* keeps the fence.i until IF has the refilled word.                       *)
(***************************************************************************)
Answers ==
  rToIFValid => rdata.line = req.line /\ rdata.word = req.word /\ rdata.ver >= asked

(***************************************************************************)
(* No line is in both ways: the answer is selected one-hot (Mux1H), and    *)
(* two hits would be the bitwise or of two words.                          *)
(***************************************************************************)
NoTwins ==
  \A i \in Indexes :
    valids[i][0] /\ valids[i][1] => infoRams[i].tags[0] # infoRams[i].tags[1]

(***************************************************************************)
(* A request the cache has taken is answered, whatever fence.i and the     *)
(* arbiter do meanwhile.                                                   *)
(***************************************************************************)
FetchAnswered == reqValid ~> rToIFValid
=============================================================================
