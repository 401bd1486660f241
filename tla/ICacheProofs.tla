---------------------------- MODULE ICacheProofs ----------------------------
(***************************************************************************)
(* Proofs about the instruction cache for every set of lines, words,       *)
(* addresses and stores, and about the order of stores and fence.i.        *)
(***************************************************************************)
EXTENDS FenceOrder, TLAPS

Refilling == state \in {"READ", "COMMIT"}

\* The line a way holds, by its tag.
LineOf(i, w) == [tag |-> infoRams[i].tags[w], index |-> i]
\* A valid line, unless the refill is writing over it.
Holds(i, w) == valids[i][w] /\ ~(Refilling /\ i = index /\ w = replaceWay)
\* Word d is word o of line l.
Is(d, l, o) == d.line = l /\ d.word = o
\* No fence.i is in ID, or IF has the word that was under way when it came.
Settled == ~fencei \/ instGetted
\* What the last fence.i promised of word o of line l.
Promised(l, o) == Of(fenced, [line |-> l, word |-> o])

-----------------------------------------------------------------------------
\* The refill's counters and the burst at the arbiter go together.
Counters ==
  /\ bus.word + bus.left <= blockWords
  /\ state = "IDLE" => reqCounter = 0 /\ respCounter = 0 /\ bus.left = 0
  /\ state = "READ" => /\ bus.left \in {0, 1} /\ respCounter + bus.left = reqCounter
                       /\ bus.left = 1 => bus.word = respCounter /\ bus.line = req.line
  /\ state = "COMMIT" => /\ bus.word = respCounter /\ bus.line = req.line
                         /\ bus.left = blockWords - respCounter
  /\ state = "FINISH" => respCounter = 0 /\ bus.left = 0
  /\ state # "IDLE" => reqValid

\* Versions only grow, and nothing is promised that memory does not have.
Versions ==
  /\ \A a \in Stored : fenced[a] <= mem[a]
  /\ asked <= Of(mem, req)
  /\ fencei => PC = "other"

\* The tags that were read are those of the RAM, and a lookup that missed a
\* line misses it still.
Lookup ==
  /\ state # "FINISH" => infoResp.tags = infoRams[index].tags
  /\ state = "IDLE" => \A w \in Ways : valids[index][w] => blockValids[w]
  /\ Refilling => \A w \in Ways : valids[index][w] => infoRams[index].tags[w] # req.line.tag

\* A valid line holds its own words, none older than the last fence.i that
\* has settled, and the requested one none older than asked.
Lines ==
  /\ \A i \in Indexes, w \in Ways : Holds(i, w) =>
       \A o \in Words : Is(dataRams[w][i][o], LineOf(i, w), o)
  /\ Settled => \A i \in Indexes, w \in Ways : Holds(i, w) =>
                  \A o \in Words : Promised(LineOf(i, w), o) <= dataRams[w][i][o].ver
  /\ \A w \in Ways : Holds(index, w) /\ infoRams[index].tags[w] = req.line.tag =>
       asked <= dataRams[w][index][req.word].ver

\* The word of a hit is the requested one.
HitData == state = "IDLE" => \A w \in Ways : hits(w) =>
             Is(dataResp[w], req.line, req.word) /\ asked <= dataResp[w].ver

\* So are the words a refill has written so far, and the one kept for IF.
Refill ==
  /\ Refilling => \A o \in Words : o < respCounter =>
       LET d == dataRams[replaceWay][index][o] IN
       /\ Is(d, req.line, o)
       /\ o = req.word => asked <= d.ver
       /\ Settled => Promised(req.line, o) <= d.ver
  /\ state = "FINISH" \/ (Refilling /\ req.word < respCounter) =>
       Is(inst2Fire, req.line, req.word) /\ asked <= inst2Fire.ver

\* The inductive invariant.
IInv == TypeOK /\ Counters /\ Versions /\ Lookup /\ NoTwins /\ Lines /\ HitData /\ Refill

-----------------------------------------------------------------------------
\* The constants, and an address as the record of its parts.
LEMMA Constants ==
  /\ blockWords \in Nat /\ blockWords >= 2 /\ MaxVer \in Nat
  /\ Words = 0 .. blockWords - 1 /\ 0 \in Words /\ Ways = {0, 1}
  /\ Address # {} /\ Stored \subseteq Address
  /\ \A l \in Line : /\ l.tag \in Tags /\ l.index \in Indexes
                     /\ l = [tag |-> l.tag, index |-> l.index]
  /\ \A a \in Address : /\ a.line \in Line /\ a.word \in Words
                        /\ a = [line |-> a.line, word |-> a.word]
BY ICacheAssumption DEF Words, Ways, Line

\* Before the last word of a line a counter does not wrap.
LEMMA NoWrap == \A n \in Nat : n < blockWords - 1 => (n + 1) % blockWords = n + 1
<1> SUFFICES ASSUME NEW n \in Nat, n < blockWords - 1
             PROVE  (n + 1) % blockWords = n + 1
  OBVIOUS
<1>1. blockWords \in Nat \ {0} /\ n + 1 \in 0 .. blockWords - 1
  BY Constants
<1> QED BY <1>1

\* A word's version is a number within the bound.
LEMMA OfType ==
  ASSUME NEW f \in [Stored -> 0 .. MaxVer], NEW a
  PROVE  Of(f, a) \in 0 .. MaxVer
BY Constants DEF Of

\* The registers the proofs speak of most.
LEMMA Types ==
  ASSUME TypeOK
  PROVE  /\ req \in Address /\ index \in Indexes /\ req.word \in Words /\ replaceWay \in Ways
         /\ req.line \in Line /\ req.line.tag \in Tags
         /\ req = [line |-> req.line, word |-> req.word]
         /\ req.line = [tag |-> req.line.tag, index |-> index]
         /\ reqCounter \in Words /\ respCounter \in Words
         /\ bus.left \in Nat /\ bus.word \in Nat
         /\ state \in {"IDLE", "READ", "COMMIT", "FINISH"}
         /\ mem \in [Stored -> 0 .. MaxVer] /\ fenced \in [Stored -> 0 .. MaxVer]
         /\ asked \in 0 .. MaxVer
<1>1. req \in Address
  BY DEF TypeOK
<1>2. bus.left \in Nat /\ bus.word \in Nat
  <2>1. bus \in [line : Line, word : 0 .. blockWords, left : 0 .. blockWords]
    BY DEF TypeOK
  <2> QED BY <2>1, Constants
<1> QED BY <1>1, <1>2, Constants DEF TypeOK, index

\* A data word's version is a number.
LEMMA DataTypes ==
  ASSUME TypeOK
  PROVE  /\ \A w \in Ways, i \in Indexes, o \in Words : dataRams[w][i][o].ver \in 0 .. MaxVer
         /\ \A w \in Ways : dataResp[w].ver \in 0 .. MaxVer
<1>1. \A d \in Value \cup {Unwritten} : d.ver \in 0 .. MaxVer
  BY Constants DEF Value, Unwritten
<1> DEFINE Any == Value \cup {Unwritten}
<1>2. /\ dataRams \in [Ways -> [Indexes -> [Words -> Any]]]
      /\ dataResp \in [Ways -> Any]
  BY DEF TypeOK
<1> HIDE DEF Any
<1>3. /\ \A w \in Ways, i \in Indexes, o \in Words : dataRams[w][i][o] \in Any
      /\ \A w \in Ways : dataResp[w] \in Any
  BY <1>2
<1> QED BY <1>1, <1>3 DEF Any

-----------------------------------------------------------------------------
\* What the surroundings may do in a cycle.
LEMMA EnvFacts ==
  ASSUME TypeOK, NEW e \in Env
  PROVE  /\ e.ar \in Address /\ preIF(e) \in Address
         /\ e.beat => bus.left > 0
         /\ e.arReady => arToMemValid /\ bus.left = 0
         /\ e.fencei \in BOOLEAN /\ (e.fencei => PC = "other")
         /\ e.store \subseteq Stored /\ \A a \in e.store : mem[a] < MaxVer
<1>1. e.ar \in IF arFromIFFire THEN Address ELSE {req}
  BY DEF Env
<1>2. /\ e.beat \in Maybe(bus.left > 0) /\ e.fencei \in Maybe(PC = "other")
      /\ e.arReady \in Maybe(arToMemValid /\ bus.left = 0)
  BY DEF Env
<1>3. e.store \in {{}} \cup {{a} : a \in {a \in Stored : mem[a] < MaxVer}}
  BY DEF Env
<1>4. e.ar \in Address /\ preIF(e) \in Address
  BY <1>1, Types DEF preIF
<1>5. /\ e.beat => bus.left > 0
      /\ e.arReady => arToMemValid /\ bus.left = 0
      /\ e.fencei \in BOOLEAN /\ (e.fencei => PC = "other")
  BY <1>2 DEF Maybe
<1>6. e.store \subseteq Stored /\ \A a \in e.store : mem[a] < MaxVer
  BY <1>3
<1> QED BY <1>4, <1>5, <1>6

\* While a line is refilled the cache takes and answers nothing.
LEMMA Busy ==
  ASSUME IInv, Refilling
  PROVE  reqValid /\ ~hit /\ ~arFromIFFire /\ ~rToIFValid /\ ~rToIFFire
BY DEF IInv, Counters, Refilling, hit, arFromIFFire, arFromIFReady, rToIFValid, rToIFFire

\* Words arrive during a refill only, each for its place in the line.
LEMMA Beat ==
  ASSUME IInv, NEW e \in Env, e.beat
  PROVE  /\ Refilling /\ bus.line = req.line /\ bus.word = respCounter /\ bus.left > 0
         /\ ~arToMemFire(e)
         /\ state = "READ" => bus.left = 1 /\ respCounter < blockWords - 1
<1>1. TypeOK /\ Counters
  BY DEF IInv
<1>2. bus.left > 0
  BY <1>1, EnvFacts
<1>3. Refilling
  BY <1>1, <1>2, Types DEF Counters, Refilling
<1>4. ~arToMemFire(e)
  BY <1>1, <1>2, EnvFacts DEF arToMemFire
<1>5. state = "READ" => bus.left = 1 /\ respCounter < blockWords - 1
  <2>1. state = "READ" => bus.left \in {0, 1} /\ respCounter + bus.left = reqCounter
    BY <1>1 DEF Counters
  <2>2. reqCounter \in 0 .. blockWords - 1 /\ respCounter \in 0 .. blockWords - 1
    BY <1>1, Types, Constants
  <2> QED BY <1>2, <2>1, <2>2, Constants
<1> QED BY <1>1, <1>2, <1>3, <1>4, <1>5 DEF Counters, Refilling

\* The state machine, state by state.
LEMMA Moves ==
  ASSUME IInv, NEW e \in Env, Cycle(e)
  PROVE  /\ state = "IDLE" => state' = IF arToMemFire(e)
                                       THEN IF burstable THEN "COMMIT" ELSE "READ"
                                       ELSE "IDLE"
         /\ state = "READ" => state' = IF arToMemFire(e) /\ reqCounter = blockWords - 1
                                       THEN "COMMIT" ELSE "READ"
         /\ state = "COMMIT" => state' = IF LastBeat(e) THEN "FINISH" ELSE "COMMIT"
         /\ state = "FINISH" => state' = IF rToIFFire THEN "IDLE" ELSE "FINISH"
         /\ LastBeat(e) => state = "COMMIT" /\ e.beat /\ respCounter = blockWords - 1
BY DEF Cycle, StateNext, LastBeat, rFromMemFire

\* The request stays while it is not answered, and while a line is refilled.
LEMMA Request ==
  ASSUME IInv, NEW e \in Env, Cycle(e)
  PROVE  /\ req' = preIF(e) /\ req' \in Address /\ index' = req'.line.index
         /\ arFromIFFire => req' = e.ar /\ state \in {"IDLE", "FINISH"}
         /\ ~arFromIFFire => req' = req /\ index' = index /\ asked' = asked
         /\ state = "IDLE" /\ arToMemFire(e) => ~arFromIFFire /\ ~hit /\ reqValid'
         /\ Refilling => ~arFromIFFire /\ reqValid'
         /\ state = "FINISH" => ~arFromIFFire /\ (reqValid' <=> ~rToIFFire)
<1>1. req' = preIF(e) /\ req' \in Address
  BY EnvFacts DEF IInv, Cycle, ReqNext
<1>2. arFromIFFire => req' = e.ar /\ state \in {"IDLE", "FINISH"}
  BY <1>1 DEF preIF, arFromIFFire, arFromIFReady
<1>3. ~arFromIFFire => req' = req /\ asked' = asked
  BY <1>1 DEF preIF, Cycle, HistoryNext
<1>4. reqValid' <=> (arFromIFFire \/ (reqValid /\ ~rToIFFire))
  BY DEF Cycle, ReqNext
<1>5. state = "IDLE" /\ arToMemFire(e) => ~arFromIFFire /\ ~hit /\ reqValid'
  BY <1>4 DEF arToMemFire, arToMemValid, arFromIFFire, arFromIFReady, rToIFFire, rToIFValid
<1>6. Refilling => ~arFromIFFire /\ reqValid'
  BY <1>4, Busy
<1>7. state = "FINISH" => ~arFromIFFire /\ (reqValid' <=> ~rToIFFire)
  BY <1>4 DEF IInv, Counters, arFromIFFire, arFromIFReady, hit
<1> QED BY <1>1, <1>2, <1>3, <1>5, <1>6, <1>7 DEF index

\* What a cycle makes of a valid bit, a tag and a word.
LEMMA Rams ==
  ASSUME IInv, NEW e \in Env, Cycle(e)
  PROVE  /\ \A i \in Indexes, w \in Ways :
              valids'[i][w] <=> \/ LastBeat(e) /\ i = index /\ w = replaceWay
                                \/ valids[i][w] /\ ~fencei
         /\ ~LastBeat(e) => \A i \in Indexes : infoRams'[i].tags = infoRams[i].tags
         /\ LastBeat(e) => \A i \in Indexes, w \in Ways :
              infoRams'[i].tags[w] = IF i = index /\ w = replaceWay THEN req.line.tag
                                     ELSE infoRams[i].tags[w]
         /\ \A i \in Indexes, w \in Ways, o \in Words :
              dataRams'[w][i][o] =
                IF e.beat /\ w = replaceWay /\ i = index /\ o = respCounter
                THEN InMemory(bus.line, bus.word) ELSE dataRams[w][i][o]
<1>1. TypeOK /\ Lookup
  BY DEF IInv
<1>2. \A i \in Indexes, w \in Ways :
        valids'[i][w] <=> \/ LastBeat(e) /\ i = index /\ w = replaceWay
                          \/ valids[i][w] /\ ~fencei
  BY DEF Cycle, ValidsNext
<1>3. /\ ~LastBeat(e) => \A i \in Indexes : infoRams'[i].tags = infoRams[i].tags
      /\ LastBeat(e) => \A i \in Indexes, w \in Ways :
           infoRams'[i].tags[w] = IF i = index /\ w = replaceWay THEN req.line.tag
                                  ELSE infoRams[i].tags[w]
  <2>1. CASE hit
    <3>1. state = "IDLE" /\ ~LastBeat(e)
      BY <2>1 DEF hit, LastBeat
    <3> DEFINE new == [tags |-> infoResp.tags, lru |-> IF hits(0) THEN 1 ELSE 0]
    <3>2. infoRams' = [infoRams EXCEPT ![index] = new]
      BY <2>1, <3>1 DEF Cycle, InfoNext
    <3>3. infoResp.tags = infoRams[index].tags /\ new.tags = infoResp.tags
      BY <1>1, <3>1 DEF Lookup
    <3> HIDE DEF new
    <3>4. \A i \in Indexes : infoRams'[i].tags = infoRams[i].tags
      BY <1>1, <3>2, <3>3 DEF TypeOK
    <3> QED BY <3>1, <3>4
  <2>2. CASE ~hit /\ LastBeat(e)
    <3>1. infoResp.tags = infoRams[index].tags
      BY <1>1, <2>2, Moves DEF Lookup
    <3> DEFINE new == [tags |-> newTags, lru |-> 1 - infoResp.lru]
    <3>2. infoRams' = [infoRams EXCEPT ![index] = new]
      BY <2>2 DEF Cycle, InfoNext
    <3>3. \A w \in Ways : newTags[w] = IF w = replaceWay THEN req.line.tag
                                       ELSE infoRams[index].tags[w]
      BY <1>1, <3>1 DEF newTags, TypeOK
    <3>4. new.tags = newTags
      OBVIOUS
    <3> HIDE DEF new
    <3>5. \A i \in Indexes : infoRams'[i] = IF i = index THEN new ELSE infoRams[i]
      BY <1>1, <3>2 DEF TypeOK
    <3> QED BY <2>2, <3>3, <3>4, <3>5
  <2>3. CASE ~hit /\ ~LastBeat(e)
    BY <2>3 DEF Cycle, InfoNext
  <2> QED BY <2>1, <2>2, <2>3
<1>4. \A i \in Indexes, w \in Ways, o \in Words :
        dataRams'[w][i][o] =
          IF e.beat /\ w = replaceWay /\ i = index /\ o = respCounter
          THEN InMemory(bus.line, bus.word) ELSE dataRams[w][i][o]
  <2> DEFINE word == InMemory(bus.line, bus.word)
  <2>1. dataRams' = IF e.beat
                    THEN [dataRams EXCEPT ![replaceWay][index][respCounter] = word]
                    ELSE dataRams
    BY DEF Cycle, RefillNext, rFromMemFire
  <2>2. dataRams \in [Ways -> [Indexes -> [Words -> Value \cup {Unwritten}]]]
    BY <1>1 DEF TypeOK
  <2> HIDE DEF word
  <2>3. \A i \in Indexes, w \in Ways, o \in Words :
        dataRams'[w][i][o] =
          IF e.beat /\ w = replaceWay /\ i = index /\ o = respCounter
          THEN word ELSE dataRams[w][i][o]
    BY <2>1, <2>2
  <2> QED BY <2>3 DEF word
<1> QED BY <1>2, <1>3, <1>4

\* A word memory hands over is the current one of its place.
LEMMA FromMemory ==
  ASSUME TypeOK, NEW l \in Line, NEW o \in Words
  PROVE  /\ InMemory(l, o) \in Value
         /\ Is(InMemory(l, o), l, o)
         /\ InMemory(l, o).ver = Of(mem, [line |-> l, word |-> o])
BY OfType, Types DEF InMemory, Value, Is

-----------------------------------------------------------------------------
\* After reset.
LEMMA InitInv == Init => IInv
<1> SUFFICES ASSUME Init PROVE IInv
  OBVIOUS
<1> DEFINE Info == [tags : [Ways -> Tags \cup {0}], lru : Ways]
           Any == Value \cup {Unwritten}
<1>1. /\ req = CHOOSE a \in Address : TRUE
      /\ infoRams \in [Indexes -> [tags : {[w \in Ways |-> 0]}, lru : Ways]]
      /\ infoResp = [tags |-> [w \in Ways |-> 0], lru |-> 0]
      /\ bus = [line |-> req.line, word |-> 0, left |-> 0]
  BY DEF Init
<1>2. /\ mem = [a \in Stored |-> 0] /\ fenced = mem /\ asked = 0 /\ ~fencei
      /\ reqCounter = 0 /\ respCounter = 0 /\ replaceWay = 0 /\ state = "IDLE"
  BY DEF Init
<1>3. req \in Address
  BY <1>1, Constants
<1>4. infoRams \in [Indexes -> Info] /\ infoResp \in Info
  <2>1. \A f : f = [w \in Ways |-> 0] => f \in [Ways -> Tags \cup {0}]
    OBVIOUS
  <2>2. [tags : {[w \in Ways |-> 0]}, lru : Ways] \subseteq Info
    BY <2>1
  <2>3. infoResp \in Info
    BY <1>1, <2>1, Constants
  <2> HIDE DEF Info
  <2> QED BY <1>1, <2>2, <2>3
<1>5. dataRams \in [Ways -> [Indexes -> [Words -> Any]]] /\ dataResp \in [Ways -> Any]
  <2>1. Unwritten \in Any
    OBVIOUS
  <2> HIDE DEF Any
  <2> QED BY <2>1 DEF Init
<1>6. valids \in [Indexes -> [Ways -> BOOLEAN]] /\ blockValids \in [Ways -> BOOLEAN]
  BY DEF Init
<1>7. TypeOK
  <2>1. inst2Fire \in Any
    BY DEF Init
  <2>2. bus \in [line : Line, word : 0 .. blockWords, left : 0 .. blockWords]
    BY <1>1, <1>3, Constants
  <2>3. /\ reqCounter \in Words /\ respCounter \in Words /\ replaceWay \in Ways
        /\ asked \in 0 .. MaxVer
    BY <1>2, Constants
  <2>4. mem \in [Stored -> 0 .. MaxVer] /\ fenced \in [Stored -> 0 .. MaxVer]
    BY <1>2, Constants
  <2>5. /\ reqValid \in BOOLEAN /\ reqFired \in BOOLEAN /\ instGetted \in BOOLEAN
        /\ fencei \in BOOLEAN /\ state = "IDLE" /\ PC = "PC_INIT - 4"
    BY DEF Init
  <2> QED BY <1>3, <1>4, <1>5, <1>6, <2>1, <2>2, <2>3, <2>4, <2>5 DEF TypeOK
<1>8. index \in Indexes
  BY <1>7, Types
<1>9. \A j \in Indexes, w \in Ways : ~valids[j][w]
  BY DEF Init
<1>10. Counters
  BY <1>1, <1>2, Constants DEF Counters
<1>11. Versions
  BY <1>2, Constants DEF Versions, Of
<1>12. Lookup
  BY <1>8, <1>9 DEF Init, Lookup, Refilling
<1>13. NoTwins /\ Lines
  BY <1>8, <1>9, Constants DEF NoTwins, Lines, Holds
<1>14. HitData /\ Refill
  BY DEF Init, HitData, Refill, hits, Refilling
<1> QED BY <1>7, <1>10, <1>11, <1>12, <1>13, <1>14 DEF IInv

\* Memory's versions grow within the bound.
LEMMA MemStep ==
  ASSUME TypeOK, NEW e \in Env, Cycle(e)
  PROVE  /\ mem' \in [Stored -> 0 .. MaxVer]
         /\ \A a \in Stored : mem[a] <= mem'[a]
<1>1. mem' = [a \in Stored |-> IF a \in e.store THEN mem[a] + 1 ELSE mem[a]]
  BY DEF Cycle, MemNext
<1>2. \A a \in Stored : mem[a] \in 0 .. MaxVer /\ (a \in e.store => mem[a] < MaxVer)
  BY Types, EnvFacts
<1> QED BY <1>1, <1>2, Constants

\* Every cycle keeps the types.
LEMMA TypeStep ==
  ASSUME IInv, NEW e \in Env, Cycle(e)
  PROVE  TypeOK'
<1> DEFINE Info == [tags : [Ways -> Tags \cup {0}], lru : Ways]
           Any == Value \cup {Unwritten}
<1>1. TypeOK
  BY DEF IInv
<1>2. /\ valids \in [Indexes -> [Ways -> BOOLEAN]] /\ infoRams \in [Indexes -> Info]
      /\ dataRams \in [Ways -> [Indexes -> [Words -> Any]]]
      /\ infoResp \in Info /\ replaceWay \in Ways /\ inst2Fire \in Any
      /\ bus \in [line : Line, word : 0 .. blockWords, left : 0 .. blockWords]
  BY <1>1 DEF TypeOK
<1>3. e.beat => InMemory(bus.line, bus.word) \in Any
  <2>1. e.beat => bus.line \in Line /\ bus.word \in Words
    BY <1>1, Beat, Types
  <2> QED BY <1>1, <2>1, FromMemory
<1> HIDE DEF Any
<1>4. valids' \in [Indexes -> [Ways -> BOOLEAN]]
  BY DEF Cycle, ValidsNext
<1>5. infoRams' \in [Indexes -> Info]
  <2>1. newTags \in [Ways -> Tags \cup {0}]
    BY <1>1, <1>2, Types DEF newTags
  <2>2. 1 - infoResp.lru \in Ways /\ (IF hits(0) THEN 1 ELSE 0) \in Ways
    BY <1>2, Constants
  <2> DEFINE a == [tags |-> infoResp.tags, lru |-> IF hits(0) THEN 1 ELSE 0]
             b == [tags |-> newTags, lru |-> 1 - infoResp.lru]
  <2>3. a \in Info /\ b \in Info
    BY <1>2, <2>1, <2>2
  <2>4. \/ infoRams' = [infoRams EXCEPT ![index] = a]
        \/ infoRams' = [infoRams EXCEPT ![index] = b]
        \/ infoRams' = infoRams
    BY DEF Cycle, InfoNext
  <2> HIDE DEF a, b, Info
  <2> QED BY <1>2, <2>3, <2>4
<1>6. dataRams' \in [Ways -> [Indexes -> [Words -> Any]]]
  <2> DEFINE word == InMemory(bus.line, bus.word)
  <2>1. dataRams' = IF e.beat
                    THEN [dataRams EXCEPT ![replaceWay][index][respCounter] = word]
                    ELSE dataRams
    BY DEF Cycle, RefillNext, rFromMemFire
  <2>2. e.beat => word \in Any
    BY <1>3
  <2> HIDE DEF word
  <2>3. e.beat => [dataRams[replaceWay] EXCEPT ![index][respCounter] = word]
                    \in [Indexes -> [Words -> Any]]
    <3>1. dataRams[replaceWay] \in [Indexes -> [Words -> Any]] /\ index \in Indexes
      BY <1>1, <1>2, Types
    <3>2. e.beat => [dataRams[replaceWay][index] EXCEPT ![respCounter] = word] \in [Words -> Any]
      BY <3>1, <2>2
    <3> QED BY <3>1, <3>2
  <2> QED BY <1>2, <2>1, <2>3
<1>7. /\ blockValids' \in [Ways -> BOOLEAN] /\ infoResp' \in Info
      /\ dataResp' \in [Ways -> Any]
  <2> DEFINE j == preIF(e).line.index
             o == preIF(e).word
  <2>1. j \in Indexes /\ o \in Words
    BY <1>1, EnvFacts, Constants
  <2>2. /\ blockValids' = valids[j] /\ infoResp' \in {infoRams[j], infoRams'[j]}
        /\ dataResp' \in {[w \in Ways |-> dataRams[w][j][o]], [w \in Ways |-> dataRams'[w][j][o]]}
    BY DEF Cycle, LookupNext
  <2> HIDE DEF j, o, Info
  <2> QED BY <1>2, <1>5, <1>6, <2>1, <2>2
<1>8. reqValid' \in BOOLEAN /\ req' \in Address
  BY Request DEF Cycle, ReqNext
<1>9. state' \in {"IDLE", "READ", "COMMIT", "FINISH"}
  BY <1>1, Moves, Types
<1>10. reqCounter' \in Words /\ respCounter' \in Words
  <2>1. \A n \in Words : (n + 1) % blockWords \in Words
    BY Constants
  <2>2. reqCounter' \in {0, (reqCounter + 1) % blockWords, reqCounter}
    BY DEF Cycle, ReqCounterNext
  <2>3. respCounter' \in {0, (respCounter + 1) % blockWords, respCounter}
    BY DEF Cycle, RespCounterNext
  <2> QED BY <1>1, <2>1, <2>2, <2>3, Types, Constants
<1>11. replaceWay' \in Ways /\ inst2Fire' \in Any
  <2>1. replaceWay' \in {infoResp.lru, replaceWay}
    BY DEF Cycle, RefillNext
  <2>2. inst2Fire' = IF e.beat /\ respCounter = req.word THEN InMemory(bus.line, bus.word)
                     ELSE inst2Fire
    BY DEF Cycle, RefillNext, rFromMemFire
  <2> QED BY <1>2, <1>3, <2>1, <2>2
<1>12. bus' \in [line : Line, word : 0 .. blockWords, left : 0 .. blockWords]
  <2>1. CASE arToMemFire(e)
    <3>1. bus' = [line |-> req.line, word |-> arToMemWord, left |-> arToMemLen]
      BY <2>1 DEF Cycle, BusNext
    <3>2. arToMemWord \in 0 .. blockWords /\ arToMemLen \in 0 .. blockWords
      BY <1>1, Types, Constants DEF arToMemWord, arToMemLen
    <3> QED BY <1>1, <3>1, <3>2, Types
  <2>2. CASE e.beat /\ ~arToMemFire(e)
    <3>1. bus' = [bus EXCEPT !.word = bus.word + 1, !.left = bus.left - 1]
      BY <2>2 DEF Cycle, BusNext
    <3>2. bus.word + 1 \in 0 .. blockWords /\ bus.left - 1 \in 0 .. blockWords
      <4>1. bus.left > 0 /\ bus.word + bus.left <= blockWords
        BY <2>2, Beat DEF IInv, Counters
      <4>2. bus.left \in Nat /\ bus.word \in Nat /\ blockWords \in Nat
        BY <1>1, Types, Constants
      <4> QED BY <4>1, <4>2
    <3> QED BY <1>2, <3>1, <3>2
  <2>3. CASE ~e.beat /\ ~arToMemFire(e)
    BY <1>2, <2>3 DEF Cycle, BusNext
  <2> QED BY <2>1, <2>2, <2>3
<1>13. PC' \in {"PC_INIT - 4", "PC_INIT", "other"}
  BY <1>1 DEF TypeOK, Cycle, IFNext
<1>14. reqFired' \in BOOLEAN /\ instGetted' \in BOOLEAN /\ fencei' \in BOOLEAN
  <2>1. fencei \in BOOLEAN /\ e.fencei \in BOOLEAN
    BY <1>1, EnvFacts DEF TypeOK
  <2> QED BY <2>1 DEF Cycle, IFNext
<1>15. mem' \in [Stored -> 0 .. MaxVer] /\ fenced' \in [Stored -> 0 .. MaxVer]
  BY <1>1, MemStep, Types DEF Cycle, HistoryNext
<1>16. asked' \in 0 .. MaxVer
  <2>1. asked' \in {asked, 0, Of(fenced, e.ar)}
    BY DEF Cycle, HistoryNext
  <2>2. fenced \in [Stored -> 0 .. MaxVer] /\ asked \in 0 .. MaxVer /\ 0 \in 0 .. MaxVer
    BY <1>1, Types, Constants
  <2>3. Of(fenced, e.ar) \in 0 .. MaxVer
    BY <2>2, OfType
  <2> QED BY <2>1, <2>2, <2>3
<1> QED
  BY <1>4, <1>5, <1>6, <1>7, <1>8, <1>9, <1>10, <1>11, <1>12, <1>13, <1>14, <1>15, <1>16
  DEF TypeOK, Any

-----------------------------------------------------------------------------
\* A refill's place in the cache stays, and its end is the only write of a tag.
LEMMA Place ==
  ASSUME IInv, NEW e \in Env, Cycle(e), Refilling
  PROVE  /\ req' = req /\ index' = index /\ replaceWay' = replaceWay /\ asked' = asked
         /\ LastBeat(e) <=> state' = "FINISH"
         /\ Refilling' <=> ~LastBeat(e)
<1>1. req' = req /\ index' = index /\ asked' = asked
  BY Request
<1>2. replaceWay' = replaceWay
  BY DEF Refilling, Cycle, RefillNext
<1>3. state \in {"READ", "COMMIT"}
  BY DEF Refilling
<1>4. /\ LastBeat(e) <=> state' = "FINISH"
      /\ state' \in {"READ", "COMMIT"} <=> ~LastBeat(e)
  BY <1>3, Moves
<1> QED BY <1>1, <1>2, <1>4 DEF Refilling

\* The counters and the burst.
LEMMA CountersStep ==
  ASSUME IInv, NEW e \in Env, Cycle(e)
  PROVE  Counters'
<1>1. TypeOK /\ Counters /\ TypeOK'
  BY TypeStep DEF IInv
<1>2. bus \in [line : Line, word : 0 .. blockWords, left : 0 .. blockWords]
  BY <1>1 DEF TypeOK
<1>3. arToMemFire(e) => /\ bus.left = 0 /\ ~e.beat /\ bus'.line = req.line
                        /\ bus'.word = arToMemWord /\ bus'.left = arToMemLen
  <2>1. arToMemFire(e) => bus.left = 0 /\ ~e.beat
    BY <1>1, EnvFacts, Types DEF arToMemFire
  <2> QED BY <2>1 DEF Cycle, BusNext
<1>4. ~arToMemFire(e) /\ e.beat => /\ bus'.line = bus.line /\ bus'.word = bus.word + 1
                                   /\ bus'.left = bus.left - 1
  BY <1>2 DEF Cycle, BusNext
<1>5. ~arToMemFire(e) /\ ~e.beat => bus' = bus
  BY DEF Cycle, BusNext
<1>6. CASE state = "IDLE"
  <2>1. ~e.beat /\ reqCounter = 0 /\ respCounter = 0 /\ bus.left = 0
    BY <1>1, <1>6, EnvFacts, Types DEF Counters
  <2>2. respCounter' = 0
    BY <1>6, <2>1 DEF Cycle, RespCounterNext, rFromMemFire
  <2>3. reqCounter' = IF arToMemFire(e) THEN 1 ELSE 0
    <3>1. (0 + 1) % blockWords = 1
      BY Constants
    <3> QED BY <1>6, <2>1, <3>1 DEF Cycle, ReqCounterNext
  <2>4. CASE arToMemFire(e)
    <3>1. req' = req /\ reqValid' /\ bus'.word = 0
      BY <1>3, <1>6, <2>4, Request DEF arToMemWord
    <3>2. bus'.left = IF burstable THEN blockWords ELSE 1
      BY <1>3, <1>6, <2>4 DEF arToMemLen
    <3>3. state' = IF burstable THEN "COMMIT" ELSE "READ"
      BY <1>6, <2>4, Moves
    <3> QED BY <1>3, <2>2, <2>3, <2>4, <3>1, <3>2, <3>3, Constants DEF Counters
  <2>5. CASE ~arToMemFire(e)
    <3>1. state' = "IDLE" /\ bus' = bus
      BY <1>5, <1>6, <2>1, <2>5, Moves
    <3> QED BY <1>1, <2>1, <2>2, <2>3, <2>5, <3>1 DEF Counters
  <2> QED BY <2>4, <2>5
<1>7. CASE state = "READ"
  <2>1. req' = req /\ reqValid'
    BY <1>7, Request DEF Refilling
  <2>2. /\ bus.left \in {0, 1} /\ respCounter + bus.left = reqCounter
        /\ bus.left = 1 => bus.word = respCounter /\ bus.line = req.line
    BY <1>1, <1>7 DEF Counters
  <2>3. reqCounter \in 0 .. blockWords - 1 /\ respCounter \in 0 .. blockWords - 1
    BY <1>1, Types, Constants
  <2>4. CASE arToMemFire(e)
    <3>1. /\ bus'.word = reqCounter /\ bus'.left = 1 /\ bus'.line = req.line
          /\ bus.left = 0 /\ ~e.beat
      BY <1>3, <1>7, <2>4 DEF arToMemWord, arToMemLen
    <3>2. respCounter' = respCounter /\ respCounter = reqCounter
      BY <1>7, <2>2, <2>3, <3>1 DEF Cycle, RespCounterNext, rFromMemFire
    <3>3. CASE reqCounter = blockWords - 1
      <4>1. state' = "COMMIT"
        BY <1>7, <2>4, <3>3, Moves
      <4> QED BY <2>1, <2>3, <3>1, <3>2, <3>3, <4>1, Constants DEF Counters
    <3>4. CASE reqCounter # blockWords - 1
      <4>1. state' = "READ"
        BY <1>7, <2>4, <3>4, Moves
      <4>2. reqCounter' = reqCounter + 1
        <5>1. (reqCounter + 1) % blockWords = reqCounter + 1
          BY <2>3, <3>4, Constants
        <5> QED BY <1>7, <2>4, <5>1 DEF Cycle, ReqCounterNext
      <4> QED BY <2>1, <2>3, <3>1, <3>2, <4>1, <4>2, Constants DEF Counters
    <3> QED BY <3>3, <3>4
  <2>5. CASE ~arToMemFire(e)
    <3>1. state' = "READ" /\ reqCounter' = reqCounter
      BY <1>7, <2>5, Moves DEF Cycle, ReqCounterNext
    <3>2. CASE e.beat
      <4>1. bus.left = 1 /\ respCounter < blockWords - 1
        BY <1>7, <3>2, Beat
      <4>2. respCounter' = respCounter + 1
        <5>1. (respCounter + 1) % blockWords = respCounter + 1
          BY <2>3, <4>1, NoWrap
        <5> QED BY <1>7, <3>2, <5>1 DEF Cycle, RespCounterNext, rFromMemFire
      <4> QED BY <1>1, <1>4, <2>1, <2>2, <2>3, <2>5, <3>1, <3>2, <4>1, <4>2, Constants, Types
          DEF Counters
    <3>3. CASE ~e.beat
      <4>1. respCounter' = respCounter /\ bus' = bus
        BY <1>5, <1>7, <2>5, <3>3 DEF Cycle, RespCounterNext, rFromMemFire
      <4> QED BY <1>1, <2>1, <2>2, <3>1, <4>1 DEF Counters
    <3> QED BY <3>2, <3>3
  <2> QED BY <2>4, <2>5
<1>8. CASE state = "COMMIT"
  <2>1. req' = req /\ reqValid' /\ ~arToMemFire(e)
    BY <1>8, Request DEF Refilling, arToMemFire, arToMemValid
  <2>2. bus.word = respCounter /\ bus.line = req.line /\ bus.left = blockWords - respCounter
    BY <1>1, <1>8 DEF Counters
  <2>3. respCounter \in 0 .. blockWords - 1
    BY <1>1, Types, Constants
  <2>4. CASE ~e.beat
    <3>1. respCounter' = respCounter /\ bus' = bus /\ state' = "COMMIT"
      BY <1>5, <1>8, <2>1, <2>4, Moves DEF Cycle, RespCounterNext, rFromMemFire
    <3> QED BY <1>1, <2>1, <2>2, <3>1 DEF Counters
  <2>5. CASE e.beat
    <3>1. respCounter' = (respCounter + 1) % blockWords
      BY <1>8, <2>5 DEF Cycle, RespCounterNext, rFromMemFire
    <3>2. bus'.line = req.line /\ bus'.word = respCounter + 1
          /\ bus'.left = blockWords - respCounter - 1
      BY <1>4, <2>1, <2>2, <2>5
    <3>3. CASE respCounter = blockWords - 1
      <4>1. state' = "FINISH"
        BY <1>8, <2>5, <3>3, Moves DEF LastBeat, rFromMemFire
      <4>2. respCounter' = 0
        BY <3>1, <3>3, Constants
      <4> QED BY <2>1, <3>2, <3>3, <4>1, <4>2, Constants DEF Counters
    <3>4. CASE respCounter # blockWords - 1
      <4>1. state' = "COMMIT"
        BY <1>8, <3>4, Moves
      <4>2. respCounter' = respCounter + 1
        BY <2>3, <3>1, <3>4, Constants
      <4> QED BY <2>1, <2>3, <3>2, <4>1, <4>2, Constants DEF Counters
    <3> QED BY <3>3, <3>4
  <2> QED BY <2>4, <2>5
<1>9. CASE state = "FINISH"
  <2>1. ~e.beat /\ bus.left = 0 /\ ~arToMemFire(e)
    BY <1>1, <1>9, EnvFacts, Types DEF Counters, arToMemFire, arToMemValid
  <2>2. reqCounter' = 0 /\ respCounter' = 0 /\ bus' = bus
    BY <1>5, <1>9, <2>1 DEF Cycle, ReqCounterNext, RespCounterNext, rFromMemFire
  <2>3. \/ state' = "IDLE"
        \/ state' = "FINISH" /\ reqValid'
    BY <1>9, Moves, Request
  <2> QED BY <1>1, <2>1, <2>2, <2>3 DEF Counters
<1> QED BY <1>1, <1>6, <1>7, <1>8, <1>9, Types

\* The versions.
LEMMA VersionsStep ==
  ASSUME IInv, NEW e \in Env, Cycle(e)
  PROVE  Versions'
<1>1. TypeOK /\ Versions
  BY DEF IInv
<1>2. \A a \in Stored : /\ mem[a] \in Nat /\ mem'[a] \in Nat /\ fenced[a] \in Nat
                        /\ fenced[a] <= mem[a] /\ mem[a] <= mem'[a]
  BY <1>1, MemStep, Types, Constants DEF Versions
<1>3. fenced' \in {fenced, mem'}
  BY DEF Cycle, HistoryNext
<1>4. \A a \in Stored : fenced'[a] <= mem'[a]
  BY <1>2, <1>3
<1>5. asked' <= Of(mem', req')
  <2>1. CASE arFromIFFire
    <3>1. req' = e.ar /\ asked' = IF fencei THEN 0 ELSE Of(fenced, e.ar)
      BY <2>1, Request DEF Cycle, HistoryNext
    <3> QED BY <1>2, <3>1 DEF Of
  <2>2. CASE ~arFromIFFire
    <3>1. req' = req /\ asked' = asked /\ asked <= Of(mem, req) /\ asked \in Nat
      BY <1>1, <2>2, Request, Types, Constants DEF Versions
    <3> QED BY <1>2, <3>1 DEF Of
  <2> QED BY <2>1, <2>2
<1>6. fencei' => PC' = "other"
  <2>1. CASE toIDFire(e)
    <3>1. fencei' = e.fencei /\ (e.fencei => PC = "other")
      BY <1>1, <2>1, EnvFacts DEF Cycle, IFNext
    <3> QED BY <2>1, <3>1 DEF Cycle, IFNext
  <2>2. CASE ~toIDFire(e)
    BY <1>1, <2>2 DEF Versions, Cycle, IFNext
  <2> QED BY <2>1, <2>2
<1> QED BY <1>4, <1>5, <1>6 DEF Versions

\* A cycle that does not end a refill keeps what a valid line holds, and none
\* is valid after a cycle of fence.i.
LEMMA Kept ==
  ASSUME IInv, NEW e \in Env, Cycle(e), ~LastBeat(e),
         NEW i \in Indexes, NEW w \in Ways, Holds(i, w)'
  PROVE  /\ Holds(i, w) /\ ~fencei
         /\ infoRams'[i].tags = infoRams[i].tags
         /\ \A o \in Words : dataRams'[w][i][o] = dataRams[w][i][o]
<1>1. valids[i][w] /\ ~fencei /\ infoRams'[i].tags = infoRams[i].tags
  BY Rams DEF Holds
<1>2. CASE Refilling
  <2>1. Refilling' /\ index' = index /\ replaceWay' = replaceWay
    BY <1>2, Place
  <2>2. ~(i = index /\ w = replaceWay)
    BY <2>1 DEF Holds
  <2> QED BY <1>1, <2>2, Rams DEF Holds
<1>3. CASE ~Refilling
  BY <1>1, <1>3, Rams, Beat DEF Holds
<1> QED BY <1>2, <1>3

\* The end of a refill keeps the other lines too.
LEMMA KeptAtEnd ==
  ASSUME IInv, NEW e \in Env, Cycle(e), LastBeat(e),
         NEW i \in Indexes, NEW w \in Ways, Holds(i, w)', ~(i = index /\ w = replaceWay)
  PROVE  /\ Holds(i, w) /\ ~fencei
         /\ infoRams'[i].tags[w] = infoRams[i].tags[w]
         /\ \A o \in Words : dataRams'[w][i][o] = dataRams[w][i][o]
BY Rams DEF Holds

\* fence.i settles in no cycle of a refill, and a new one is not settled.
LEMMA SettledBack ==
  ASSUME IInv, NEW e \in Env, Cycle(e), Settled'
  PROVE  /\ fenced' = fenced
         /\ Refilling => Settled
<1>1. fenced' = fenced
  <2>1. toIDFire(e) /\ e.fencei => fencei' /\ ~instGetted'
    BY DEF Cycle, IFNext
  <2> QED BY <2>1 DEF Cycle, HistoryNext, Settled
<1>2. ASSUME Refilling, ~Settled PROVE FALSE
  <2>1. fencei /\ ~instGetted /\ ~rToIFFire /\ PC # "PC_INIT"
    BY <1>2, Busy DEF Settled, IInv, Versions
  <2>2. ~toIDFire(e)
    BY <2>1 DEF toIDFire, toIDValid
  <2>3. fencei' = fencei /\ ~instGetted'
    BY <2>1, <2>2 DEF Cycle, IFNext
  <2> QED BY <2>1, <2>3 DEF Settled
<1> QED BY <1>1, <1>2

\* What was read of the tags and valid bits.
LEMMA LookupStep ==
  ASSUME IInv, NEW e \in Env, Cycle(e)
  PROVE  Lookup'
<1>1. TypeOK /\ TypeOK' /\ Lookup
  BY TypeStep DEF IInv
<1>2. index' \in Indexes
  BY Request, Constants
<1>3. blockValids' = valids[index'] /\ infoResp' \in {infoRams[index'], infoRams'[index']}
  BY Request DEF Cycle, LookupNext
<1>4. LastBeat(e) => state' = "FINISH" /\ ~Refilling'
  BY Moves DEF Refilling
<1>5. state' # "FINISH" => infoResp'.tags = infoRams'[index'].tags
  BY <1>2, <1>3, <1>4, Rams
<1>6. state' = "IDLE" => \A w \in Ways : valids'[index'][w] => blockValids'[w]
  BY <1>2, <1>3, <1>4, Rams
<1>7. ASSUME Refilling', NEW w \in Ways, valids'[index'][w]
      PROVE  infoRams'[index'].tags[w] # req'.line.tag
  <2>1. ~LastBeat(e) /\ valids[index'][w] /\ infoRams'[index'].tags = infoRams[index'].tags
    BY <1>2, <1>4, <1>7, Rams
  <2>2. CASE Refilling
    BY <1>1, <2>1, <2>2, Place DEF Lookup
  <2>3. CASE ~Refilling
    <3>1. state = "IDLE" /\ arToMemFire(e)
      BY <1>1, <1>7, <2>3, Moves, Types DEF Refilling
    <3>2. req' = req /\ index' = index /\ ~hit
      BY <3>1, Request
    <3>3. blockValids[w] /\ ~hits(w)
      BY <1>1, <2>1, <3>1, <3>2 DEF Lookup, hit
    <3> QED BY <1>1, <2>1, <3>1, <3>2, <3>3 DEF Lookup, hits
  <2> QED BY <2>2, <2>3
<1> QED BY <1>5, <1>6, <1>7 DEF Lookup

\* The two ways.
LEMMA NoTwinsStep ==
  ASSUME IInv, NEW e \in Env, Cycle(e)
  PROVE  NoTwins'
<1> SUFFICES ASSUME NEW i \in Indexes, valids'[i][0], valids'[i][1]
             PROVE  infoRams'[i].tags[0] # infoRams'[i].tags[1]
  BY DEF NoTwins
<1>1. TypeOK /\ Lookup /\ NoTwins /\ 0 \in Ways /\ 1 \in Ways
  BY Constants DEF IInv
<1>2. CASE ~LastBeat(e) \/ i # index
  <2>1. valids[i][0] /\ valids[i][1]
    BY <1>1, <1>2, Rams
  <2>2. infoRams'[i].tags[0] = infoRams[i].tags[0] /\ infoRams'[i].tags[1] = infoRams[i].tags[1]
    BY <1>1, <1>2, Rams
  <2> QED BY <1>1, <2>1, <2>2 DEF NoTwins
<1>3. CASE LastBeat(e) /\ i = index
  <2>1. Refilling
    BY <1>3, Moves DEF Refilling
  <2>2. \A w \in Ways : w # replaceWay =>
          valids[index][w] /\ infoRams'[index].tags[w] = infoRams[index].tags[w]
    BY <1>1, <1>3, Rams, Constants, Types
  <2>3. \A w \in Ways : w # replaceWay => infoRams'[index].tags[w] # req.line.tag
    BY <1>1, <2>1, <2>2 DEF Lookup
  <2>4. infoRams'[index].tags[replaceWay] = req.line.tag
    BY <1>1, <1>3, Rams, Types
  <2> QED BY <1>1, <1>3, <2>3, <2>4, Types, Constants
<1> QED BY <1>2, <1>3

\* The word that arrives belongs to the requested line and is new enough.
LEMMA Arrives ==
  ASSUME IInv, NEW e \in Env, e.beat
  PROVE  LET d == InMemory(bus.line, bus.word) IN
         /\ d = InMemory(req.line, respCounter)
         /\ Is(d, req.line, respCounter)
         /\ d.ver \in Nat
         /\ respCounter = req.word => asked <= d.ver
         /\ Promised(req.line, respCounter) <= d.ver
<1>1. TypeOK /\ Versions
  BY DEF IInv
<1>2. bus.line = req.line /\ bus.word = respCounter
  BY Beat
<1> DEFINE d == InMemory(req.line, respCounter)
           a == [line |-> req.line, word |-> respCounter]
<1>3. Is(d, req.line, respCounter) /\ d.ver = Of(mem, a)
  BY <1>1, FromMemory, Types
<1>4. respCounter = req.word => a = req
  BY <1>1, Types
<1>5. Of(mem, a) \in 0 .. MaxVer /\ Of(fenced, a) <= Of(mem, a)
  <2> HIDE DEF a
  <2>1. Of(mem, a) \in 0 .. MaxVer
    BY <1>1, OfType, Types
  <2>2. Of(fenced, a) <= Of(mem, a)
    BY <1>1, Types, Constants DEF Versions, Of
  <2> QED BY <2>1, <2>2
<1>6. respCounter = req.word => asked <= d.ver
  BY <1>1, <1>3, <1>4 DEF Versions
<1> HIDE DEF d
<1> QED BY <1>2, <1>3, <1>5, <1>6, Constants DEF Promised, d

\* The words written by the end of a cycle of a refill.
LEMMA Written ==
  ASSUME IInv, NEW e \in Env, Cycle(e), Refilling,
         NEW o \in Words, o < respCounter \/ (e.beat /\ o = respCounter)
  PROVE  LET d == dataRams'[replaceWay][index][o] IN
         /\ Is(d, req.line, o)
         /\ o = req.word => asked <= d.ver
         /\ Settled => Promised(req.line, o) <= d.ver
<1>1. TypeOK /\ Refill
  BY DEF IInv
<1>2. CASE e.beat /\ o = respCounter
  <2>1. dataRams'[replaceWay][index][o] = InMemory(bus.line, bus.word)
    BY <1>1, <1>2, Rams, Types
  <2> QED BY <1>2, <2>1, Arrives
<1>3. CASE o < respCounter
  <2>1. o # respCounter
    BY <1>1, <1>3, Types, Constants
  <2>2. dataRams'[replaceWay][index][o] = dataRams[replaceWay][index][o]
    BY <1>1, <2>1, Rams, Types
  <2> QED BY <1>1, <1>3, <2>2 DEF Refill
<1> QED BY <1>2, <1>3

\* What valid lines hold.
LEMMA LinesStep ==
  ASSUME IInv, NEW e \in Env, Cycle(e)
  PROVE  Lines'
<1>1. TypeOK /\ TypeOK' /\ Lines
  BY TypeStep DEF IInv
<1>2. ASSUME NEW i \in Indexes, NEW w \in Ways, Holds(i, w)',
             LastBeat(e) => ~(i = index /\ w = replaceWay)
      PROVE  /\ \A o \in Words : Is(dataRams'[w][i][o], LineOf(i, w)', o)
             /\ Settled' => \A o \in Words :
                  Of(fenced', [line |-> LineOf(i, w)', word |-> o]) <= dataRams'[w][i][o].ver
             /\ i = index' /\ infoRams'[index'].tags[w] = req'.line.tag =>
                  asked' <= dataRams'[w][index'][req'.word].ver
  <2>1. /\ Holds(i, w) /\ ~fencei
        /\ infoRams'[i].tags[w] = infoRams[i].tags[w]
        /\ \A o \in Words : dataRams'[w][i][o] = dataRams[w][i][o]
    BY <1>2, Kept, KeptAtEnd
  <2>2. LineOf(i, w)' = LineOf(i, w)
    BY <2>1 DEF LineOf
  <2>3. \A o \in Words : Is(dataRams'[w][i][o], LineOf(i, w)', o)
    BY <1>1, <2>1, <2>2 DEF Lines
  <2>4. \A o \in Words : Promised(LineOf(i, w), o) <= dataRams[w][i][o].ver
    BY <1>1, <2>1 DEF Lines, Settled
  <2>5. Settled' => \A o \in Words :
          Of(fenced', [line |-> LineOf(i, w)', word |-> o]) <= dataRams'[w][i][o].ver
    <3>1. Settled' => \A o \in Words :
            Of(fenced', [line |-> LineOf(i, w)', word |-> o]) = Promised(LineOf(i, w), o)
      BY <2>2, SettledBack DEF Promised, Of
    <3> QED BY <2>1, <2>4, <3>1
  <2>6. ASSUME i = index', infoRams'[index'].tags[w] = req'.line.tag
        PROVE  asked' <= dataRams'[w][index'][req'.word].ver
    <3>1. req' \in Address /\ req'.word \in Words
      BY Request, Constants
    <3>2. CASE arFromIFFire
      <4>1. asked' = Of(fenced, req')
        BY <2>1, <3>2, Request DEF Cycle, HistoryNext
      <4>2. LineOf(i, w) = req'.line
        <5>1. req'.line = [tag |-> req'.line.tag, index |-> req'.line.index]
          BY <3>1, Constants
        <5>2. index' = req'.line.index
          BY Request
        <5> QED BY <2>1, <2>6, <5>1, <5>2 DEF LineOf
      <4>3. [line |-> req'.line, word |-> req'.word] = req'
        BY <3>1, Constants
      <4>4. Promised(LineOf(i, w), req'.word) = asked'
        BY <4>1, <4>2, <4>3 DEF Promised
      <4> QED BY <2>1, <2>4, <2>6, <3>1, <4>4
    <3>3. CASE ~arFromIFFire
      <4>1. req' = req /\ index' = index /\ asked' = asked
        BY <3>3, Request
      <4>2. asked <= dataRams[w][index][req.word].ver
        BY <1>1, <2>1, <2>6, <4>1 DEF Lines
      <4> QED BY <2>1, <2>6, <3>1, <4>1, <4>2
    <3> QED BY <3>2, <3>3
  <2> QED BY <2>3, <2>5, <2>6
<1>3. ASSUME LastBeat(e), NEW i \in Indexes, NEW w \in Ways, i = index, w = replaceWay
      PROVE  /\ \A o \in Words : Is(dataRams'[w][i][o], LineOf(i, w)', o)
             /\ Settled' => \A o \in Words :
                  Of(fenced', [line |-> LineOf(i, w)', word |-> o]) <= dataRams'[w][i][o].ver
             /\ i = index' /\ infoRams'[index'].tags[w] = req'.line.tag =>
                  asked' <= dataRams'[w][index'][req'.word].ver
  <2>1. Refilling /\ e.beat /\ respCounter = blockWords - 1
    BY <1>3, Moves DEF Refilling
  <2>2. req' = req /\ index' = index /\ asked' = asked
    BY <2>1, Place
  <2>3. respCounter \in Words /\ \A o \in Words : o < respCounter \/ (e.beat /\ o = respCounter)
    BY <2>1, Constants
  <2>4. ASSUME NEW o \in Words
        PROVE  /\ Is(dataRams'[w][i][o], req.line, o)
               /\ o = req.word => asked <= dataRams'[w][i][o].ver
               /\ Settled => Promised(req.line, o) <= dataRams'[w][i][o].ver
    BY <1>3, <2>1, <2>3, Written
  <2>5. LineOf(i, w)' = req.line
    <3>1. infoRams'[i].tags[w] = req.line.tag
      BY <1>3, Rams
    <3> QED BY <1>1, <1>3, <3>1, Types DEF LineOf
  <2>6. Settled' => Settled /\ fenced' = fenced
    BY <2>1, SettledBack
  <2>7. Settled' => \A o \in Words :
          Of(fenced', [line |-> LineOf(i, w)', word |-> o]) <= dataRams'[w][i][o].ver
    BY <2>4, <2>5, <2>6 DEF Promised
  <2>8. asked' <= dataRams'[w][index'][req'.word].ver
    BY <1>1, <1>3, <2>2, <2>4, Types
  <2> QED BY <2>4, <2>5, <2>7, <2>8
<1>4. ASSUME NEW i \in Indexes, NEW w \in Ways, Holds(i, w)'
      PROVE  /\ \A o \in Words : Is(dataRams'[w][i][o], LineOf(i, w)', o)
             /\ Settled' => \A o \in Words :
                  Of(fenced', [line |-> LineOf(i, w)', word |-> o]) <= dataRams'[w][i][o].ver
             /\ i = index' /\ infoRams'[index'].tags[w] = req'.line.tag =>
                  asked' <= dataRams'[w][index'][req'.word].ver
  <2>1. CASE LastBeat(e) /\ i = index /\ w = replaceWay
    BY <1>3, <2>1
  <2>2. CASE LastBeat(e) => ~(i = index /\ w = replaceWay)
    BY <1>2, <1>4, <2>2
  <2> QED BY <2>1, <2>2
<1>5. \A i \in Indexes, w \in Ways : Holds(i, w)' =>
        \A o \in Words : Is(dataRams'[w][i][o], LineOf(i, w)', o)
  BY <1>4
<1>6. Settled' => \A i \in Indexes, w \in Ways : Holds(i, w)' =>
        \A o \in Words :
          Of(fenced', [line |-> LineOf(i, w)', word |-> o]) <= dataRams'[w][i][o].ver
  BY <1>4
<1>7. ASSUME NEW w \in Ways, NEW i \in Indexes, i = index', Holds(i, w)',
             infoRams'[index'].tags[w] = req'.line.tag
      PROVE  asked' <= dataRams'[w][index'][req'.word].ver
  BY <1>4, <1>7
<1>8. ASSUME NEW w \in Ways, Holds(index, w)', (infoRams[index].tags[w] = req.line.tag)'
      PROVE  asked' <= dataRams'[w][index'][req'.word].ver
  <2>1. index' \in Indexes
    BY Request, Constants
  <2>2. PICK i \in Indexes : i = index'
    BY <2>1
  <2>3. Holds(i, w)'
    BY <1>8, <2>2 DEF Holds
  <2> QED BY <1>7, <1>8, <2>2, <2>3
<1> QED BY <1>5, <1>6, <1>8 DEF Lines, Promised

\* The word of a hit.
LEMMA HitDataStep ==
  ASSUME IInv, NEW e \in Env, Cycle(e)
  PROVE  HitData'
<1> SUFFICES ASSUME state' = "IDLE", NEW w \in Ways, hits(w)'
             PROVE  Is(dataResp'[w], req'.line, req'.word) /\ asked' <= dataResp'[w].ver
  BY DEF HitData
<1>1. TypeOK /\ Lines
  BY DEF IInv
<1>2. ~Refilling /\ ~LastBeat(e) /\ ~e.beat
  <2>1. ~Refilling
    BY Moves DEF Refilling
  <2> QED BY <2>1, Moves, Beat
<1>3. req' \in Address /\ index' = req'.line.index /\ index' \in Indexes /\ req'.word \in Words
  BY Request, Constants
<1>4. /\ blockValids' = valids[index'] /\ infoResp' \in {infoRams[index'], infoRams'[index']}
      /\ dataResp' \in {[v \in Ways |-> dataRams[v][index'][req'.word]],
                        [v \in Ways |-> dataRams'[v][index'][req'.word]]}
  BY Request DEF Cycle, LookupNext
<1>5. valids[index'][w] /\ infoRams[index'].tags[w] = req'.line.tag
  BY <1>2, <1>3, <1>4, Rams DEF hits
<1>6. dataResp'[w] = dataRams[w][index'][req'.word]
  <2>1. dataRams'[w][index'][req'.word] = dataRams[w][index'][req'.word]
    BY <1>2, <1>3, Rams
  <2> QED BY <1>4, <2>1
<1>7. Holds(index', w) /\ LineOf(index', w) = req'.line
  <2>1. req'.line = [tag |-> req'.line.tag, index |-> req'.line.index]
    BY <1>3, Constants
  <2> QED BY <1>2, <1>3, <1>5, <2>1 DEF Holds, LineOf
<1>8. Is(dataResp'[w], req'.line, req'.word)
  BY <1>1, <1>3, <1>6, <1>7 DEF Lines
<1>9. asked' <= dataResp'[w].ver
  <2>1. dataResp'[w].ver \in 0 .. MaxVer
    BY <1>1, <1>3, <1>6, DataTypes
  <2>2. CASE arFromIFFire /\ fencei
    BY <2>1, <2>2, Constants DEF Cycle, HistoryNext
  <2>3. CASE arFromIFFire /\ ~fencei
    <3>1. asked' = Of(fenced, req')
      BY <2>3, Request DEF Cycle, HistoryNext
    <3>2. [line |-> req'.line, word |-> req'.word] = req'
      BY <1>3, Constants
    <3>3. Promised(LineOf(index', w), req'.word) <= dataRams[w][index'][req'.word].ver
      BY <1>1, <1>3, <1>7, <2>3 DEF Lines, Settled
    <3> QED BY <1>6, <1>7, <3>1, <3>2, <3>3 DEF Promised
  <2>4. CASE ~arFromIFFire
    <3>1. req' = req /\ index' = index /\ asked' = asked
      BY <2>4, Request
    <3> QED BY <1>1, <1>5, <1>6, <1>7, <3>1 DEF Lines
  <2> QED BY <2>2, <2>3, <2>4
<1> QED BY <1>8, <1>9

\* The words of a refill.
LEMMA RefillStep ==
  ASSUME IInv, NEW e \in Env, Cycle(e)
  PROVE  Refill'
<1>1. TypeOK /\ TypeOK' /\ Refill /\ Counters /\ Counters'
  BY TypeStep, CountersStep DEF IInv
<1>2. CASE Refilling
  <2>1. req' = req /\ index' = index /\ replaceWay' = replaceWay /\ asked' = asked
    BY <1>2, Place
  <2>2. respCounter \in 0 .. blockWords - 1 /\ req.word \in 0 .. blockWords - 1
    BY <1>1, Types, Constants
  <2>3. ~LastBeat(e) => respCounter' = IF e.beat THEN respCounter + 1 ELSE respCounter
    <3>1. ~LastBeat(e) /\ e.beat => respCounter < blockWords - 1
      BY <1>1, <1>2, <2>2, Beat, Constants DEF LastBeat, rFromMemFire, Refilling
    <3>2. ~LastBeat(e) /\ e.beat => (respCounter + 1) % blockWords = respCounter + 1
      BY <2>2, <3>1, NoWrap
    <3> QED BY <1>2, <3>2 DEF Refilling, Cycle, RespCounterNext, rFromMemFire
  <2>4. ASSUME Refilling', NEW o \in Words, o < respCounter'
        PROVE  LET d == dataRams'[replaceWay'][index'][o] IN
               /\ Is(d, req'.line, o)
               /\ o = req'.word => asked' <= d.ver
               /\ Settled' => Of(fenced', [line |-> req'.line, word |-> o]) <= d.ver
    <3>1. ~LastBeat(e)
      BY <1>2, <2>4, Place
    <3>2. o < respCounter \/ (e.beat /\ o = respCounter)
      BY <2>2, <2>3, <2>4, <3>1, Constants
    <3>3. LET d == dataRams'[replaceWay][index][o] IN
          /\ Is(d, req.line, o)
          /\ o = req.word => asked <= d.ver
          /\ Settled => Promised(req.line, o) <= d.ver
      BY <1>2, <3>2, Written
    <3>4. Settled' => /\ Settled
                      /\ Of(fenced', [line |-> req'.line, word |-> o]) = Promised(req.line, o)
      BY <1>2, <2>1, SettledBack DEF Promised, Of
    <3> QED BY <2>1, <3>3, <3>4
  <2>5. ASSUME state' = "FINISH" \/ (Refilling' /\ req'.word < respCounter')
        PROVE  Is(inst2Fire', req'.line, req'.word) /\ asked' <= inst2Fire'.ver
    <3>1. req.word < respCounter \/ (e.beat /\ req.word = respCounter)
      <4>1. CASE LastBeat(e)
        BY <2>2, <4>1, Moves, Constants
      <4>2. CASE ~LastBeat(e)
        <5>1. state' # "FINISH"
          BY <1>2, <4>2, Place
        <5> QED BY <2>1, <2>2, <2>3, <2>5, <4>2, <5>1, Constants
      <4> QED BY <4>1, <4>2
    <3>2. inst2Fire' = IF e.beat /\ respCounter = req.word THEN InMemory(bus.line, bus.word)
                       ELSE inst2Fire
      BY DEF Cycle, RefillNext, rFromMemFire
    <3>3. CASE e.beat /\ respCounter = req.word
      BY <2>1, <3>2, <3>3, Arrives
    <3>4. CASE ~(e.beat /\ respCounter = req.word)
      BY <1>1, <1>2, <2>1, <3>1, <3>2, <3>4 DEF Refill
    <3> QED BY <3>3, <3>4
  <2> QED BY <2>4, <2>5 DEF Refill, Promised
<1>3. CASE state = "IDLE"
  <2>1. ~e.beat /\ respCounter = 0
    BY <1>1, <1>3, Beat DEF Counters, Refilling
  <2>2. respCounter' = 0
    BY <1>3, <2>1 DEF Cycle, RespCounterNext, rFromMemFire
  <2>3. state' # "FINISH"
    BY <1>3, Moves
  <2>4. req'.word \in Words
    BY Request, Constants
  <2> QED BY <2>2, <2>3, <2>4, Constants DEF Refill
<1>4. CASE state = "FINISH"
  <2>1. ~e.beat /\ req' = req /\ asked' = asked
    BY <1>4, Beat, Request DEF Refilling
  <2>2. inst2Fire' = inst2Fire /\ ~Refilling'
    BY <1>4, <2>1, Moves DEF Cycle, RefillNext, rFromMemFire, Refilling
  <2> QED BY <1>1, <1>4, <2>1, <2>2 DEF Refill
<1> QED BY <1>1, <1>2, <1>3, <1>4, Types DEF Refilling

\* Every cycle keeps the inductive invariant.
LEMMA StepInv == IInv /\ [Next]_vars => IInv'
<1>1. ASSUME IInv, NEW e \in Env, Cycle(e)
      PROVE  IInv'
  <2>1. TypeOK' /\ Counters' /\ Versions'
    BY <1>1, TypeStep, CountersStep, VersionsStep
  <2>2. Lookup' /\ NoTwins' /\ Lines'
    BY <1>1, LookupStep, NoTwinsStep, LinesStep
  <2>3. HitData' /\ Refill'
    BY <1>1, HitDataStep, RefillStep
  <2> QED BY <2>1, <2>2, <2>3 DEF IInv
<1>2. ASSUME IInv, UNCHANGED vars PROVE IInv'
  <2>1. UNCHANGED ram /\ UNCHANGED control /\ UNCHANGED outside /\ UNCHANGED history /\ mem' = mem
    BY <1>2 DEF vars
  <2> USE DEF ram, control, outside, history
  <2>2. TypeOK'
    BY <1>2, <2>1 DEF IInv, TypeOK
  <2>3. index' = index /\ (Settled' <=> Settled) /\ (Refilling' <=> Refilling)
    BY <2>1 DEF index, Settled, Refilling
  <2>4. Counters' /\ Versions'
    BY <1>2, <2>1 DEF IInv, Counters, Versions, Of
  <2>5. Lookup' /\ NoTwins'
    BY <1>2, <2>1, <2>3 DEF IInv, Lookup, NoTwins
  <2>6. Lines'
    BY <1>2, <2>1, <2>3 DEF IInv, Lines, Holds, LineOf, Promised, Of
  <2>7. HitData'
    BY <1>2, <2>1 DEF IInv, HitData, hits
  <2>8. Refill'
    BY <1>2, <2>1, <2>3 DEF IInv, Refill, Promised, Of
  <2> QED BY <2>2, <2>4, <2>5, <2>6, <2>7, <2>8 DEF IInv
<1> QED BY <1>1, <1>2 DEF Next

\* The invariant gives the answer its word.
LEMMA InvAnswers == IInv => Answers
<1> SUFFICES ASSUME IInv, rToIFValid
             PROVE  rdata.line = req.line /\ rdata.word = req.word /\ rdata.ver >= asked
  BY DEF Answers
<1>1. TypeOK
  BY DEF IInv
<1>2. CASE state = "FINISH"
  <2>1. Is(inst2Fire, req.line, req.word) /\ asked <= inst2Fire.ver
    BY <1>2 DEF IInv, Refill
  <2> QED BY <1>2, <2>1 DEF rdata, Is
<1>3. CASE state # "FINISH"
  <2>1. hit /\ state = "IDLE"
    BY <1>3 DEF rToIFValid, hit
  <2> DEFINE w == CHOOSE v \in Ways : hits(v)
  <2>2. w \in Ways /\ hits(w)
    BY <2>1 DEF hit
  <2>3. Is(dataResp[w], req.line, req.word) /\ asked <= dataResp[w].ver
    <3> HIDE DEF w
    <3> QED BY <2>1, <2>2 DEF IInv, HitData
  <2> QED BY <1>3, <2>3 DEF rdata, hitData, Is
<1> QED BY <1>2, <1>3

\* The registers and RAMs keep their types (ICache.scala:42-291).
THEOREM TypeCorrect == Spec => []TypeOK
<1>1. IInv => TypeOK
  BY DEF IInv
<1> QED BY <1>1, InitInv, StepInv, PTL DEF Spec

\* The word IF gets is the requested one and no older than the last fence.i
\* before the request, though a refill may end under the fence.i that clears
\* the valid bits (ICache.scala:174, 264).
THEOREM AnswersRight == Spec => []Answers
BY InitInv, StepInv, InvAnswers, PTL DEF Spec

\* Whatever is refilled, stored and cleared, no line is in both ways, so two
\* words are never or-ed into one answer.
THEOREM NeverTwins == Spec => []NoTwins
<1>1. IInv => NoTwins
  BY DEF IInv
<1> QED BY <1>1, InitInv, StepInv, PTL DEF Spec


-----------------------------------------------------------------------------
(* What of FenceI the code does keep.  Answers compares with memory as the *)
(* last fence.i came into ID, FenceI with the stores in front of it; they  *)
(* agree when those stores are done by then.  Beyond that a request made   *)
(* under a flushed fence.i still owes what the one before it promised.     *)

\* Two other instructions stand between a store and a fence.i behind it.
Apart == id = "fencei" /\ ~idDead => exe # "store" /\ me # "store"

\* What the last fence.i in EXE promised of word o of line l.
Issued(l, o) == Of(issued, [line |-> l, word |-> o])
\* The line of a refill that ended under a fence.i that has not settled.
Doubtful(i, w) == state = "FINISH" /\ i = index /\ w = replaceWay /\ ~Settled

\* The promises, and what the fence.i in ID knows of memory.
Promises ==
  /\ id = "fencei" <=> fencei
  /\ issued \in [Stored -> 0 .. MaxVer] /\ promised \in 0 .. MaxVer
  /\ \A a \in Stored : issued[a] <= mem[a]
  /\ promised <= Of(mem, req)
  /\ id = "fencei" /\ ~idDead => fenced = mem

\* Lines, HitData and Refill with these promises.
LinesDue ==
  /\ \A i \in Indexes, w \in Ways : Holds(i, w) /\ ~Doubtful(i, w) =>
       \A o \in Words : Issued(LineOf(i, w), o) <= dataRams[w][i][o].ver
  /\ \A w \in Ways : Holds(index, w) /\ infoRams[index].tags[w] = req.line.tag =>
       promised <= dataRams[w][index][req.word].ver

HitDue == state = "IDLE" => \A w \in Ways : hits(w) => promised <= dataResp[w].ver

RefillDue ==
  /\ Refilling => \A o \in Words : o < respCounter =>
       LET d == dataRams[replaceWay][index][o] IN
       /\ o = req.word => promised <= d.ver
       /\ Settled => Issued(req.line, o) <= d.ver
  /\ state = "FINISH" \/ (Refilling /\ req.word < respCounter) => promised <= inst2Fire.ver

\* The inductive invariant of the cache with the stages.
DInv == IInv /\ Promises /\ LinesDue /\ HitDue /\ RefillDue

\* After reset nothing is valid and nothing promised.
LEMMA InitDue == CoreInit => DInv
<1> SUFFICES ASSUME CoreInit PROVE DInv
  OBVIOUS
<1>1. Init /\ id = "other" /\ issued = mem /\ promised = 0
  BY DEF CoreInit
<1>2. IInv /\ TypeOK
  BY <1>1, InitInv DEF IInv
<1>3. /\ mem = [a \in Stored |-> 0] /\ ~fencei /\ state = "IDLE" /\ respCounter = 0
      /\ \A j \in Indexes, w \in Ways : ~valids[j][w]
      /\ blockValids = [w \in Ways |-> FALSE]
  BY <1>1 DEF Init
<1>4. Promises
  BY <1>1, <1>2, <1>3, Constants, Types, OfType DEF Promises
<1>5. LinesDue
  BY <1>2, <1>3, Types DEF LinesDue, Holds
<1>6. HitDue /\ RefillDue
  BY <1>3 DEF HitDue, RefillDue, hits, Refilling
<1> QED BY <1>2, <1>4, <1>5, <1>6 DEF DInv

\* A fence.i goes on to EXE with what it knows of memory, which is then all
\* that the stores in front of it have written.
LEMMA Issues ==
  ASSUME DInv, Apart, NEW e \in Env, NEW kind \in Kinds, CoreCycle(e, kind)
  PROVE  \/ issued' = issued
         \/ issued' = mem /\ fenced = mem /\ fencei
<1>1. CASE toMEMFire /\ exe' = "fencei"
  <2>1. id = "fencei" /\ ~idDead
    BY <1>1 DEF CoreCycle, StagesNext
  <2>2. exe # "store"
    BY <2>1 DEF Apart
  <2>3. issued' = [a \in Stored |-> mem[a]]
    BY <1>1, <2>2 DEF CoreCycle, StagesNext
  <2>4. mem \in [Stored -> 0 .. MaxVer]
    BY Types DEF DInv, IInv
  <2>5. issued' = mem
    BY <2>3, <2>4
  <2> QED BY <2>1, <2>5 DEF DInv, Promises
<1>2. CASE ~(toMEMFire /\ exe' = "fencei")
  <2>1. issued' = issued
    BY <1>2 DEF CoreCycle, StagesNext
  <2> QED BY <2>1
<1> QED BY <1>1, <1>2

\* The promise to a new request, and that an old one stands.
LEMMA PromisedNext ==
  ASSUME NEW e \in Env, NEW kind \in Kinds, CoreCycle(e, kind)
  PROVE  promised' = IF arFromIFFire THEN Of(issued, e.ar) ELSE promised
BY DEF CoreCycle, StagesNext

\* The promises stay within what memory has.
LEMMA PromisesStep ==
  ASSUME DInv, Apart, NEW e \in Env, NEW kind \in Kinds, CoreCycle(e, kind)
  PROVE  Promises'
<1>1. IInv /\ TypeOK /\ Promises /\ Cycle(e)
  BY DEF DInv, IInv, CoreCycle
<1>2. \A a \in Stored : /\ mem[a] \in 0 .. MaxVer /\ mem'[a] \in 0 .. MaxVer
                        /\ mem[a] <= mem'[a]
  BY <1>1, MemStep, Types
<1>3. id' = "fencei" <=> fencei'
  <2>1. /\ id' = IF toIDFire(e) THEN kind ELSE id
        /\ fencei' = IF toIDFire(e) THEN e.fencei ELSE fencei
        /\ e.fencei <=> kind = "fencei"
    BY DEF CoreCycle, StagesNext, Cycle, IFNext
  <2> QED BY <1>1, <2>1 DEF Promises
<1>4. /\ issued' \in [Stored -> 0 .. MaxVer]
      /\ \A a \in Stored : issued'[a] <= mem'[a]
  <2>1. mem \in [Stored -> 0 .. MaxVer]
    BY <1>1, Types
  <2>2. CASE issued' = issued
    <3>1. \A a \in Stored : issued[a] \in 0 .. MaxVer /\ issued[a] <= mem[a]
      BY <1>1 DEF Promises
    <3> QED BY <1>1, <1>2, <2>2, <3>1, Constants DEF Promises
  <2>3. CASE issued' = mem
    BY <1>2, <2>1, <2>3
  <2> QED BY <2>2, <2>3, Issues
<1>5. promised' \in 0 .. MaxVer /\ promised' <= Of(mem', req')
  <2>1. CASE arFromIFFire
    <3>1. req' = e.ar /\ promised' = Of(issued, e.ar)
      BY <1>1, <2>1, Request, PromisedNext
    <3>2. \A a \in Stored : issued[a] \in 0 .. MaxVer /\ issued[a] <= mem[a]
      BY <1>1 DEF Promises
    <3> QED BY <1>2, <3>1, <3>2, Constants DEF Of
  <2>2. CASE ~arFromIFFire
    <3>1. req' = req /\ promised' = promised
      BY <1>1, <2>2, Request, PromisedNext
    <3>2. promised \in 0 .. MaxVer /\ promised <= Of(mem, req)
      BY <1>1 DEF Promises
    <3> QED BY <1>2, <3>1, <3>2, Constants DEF Of
  <2> QED BY <2>1, <2>2
<1>6. ASSUME id' = "fencei", ~idDead' PROVE fenced' = mem'
  <2>1. CASE toIDFire(e)
    BY <1>1, <1>3, <1>6, <2>1 DEF Cycle, IFNext, HistoryNext
  <2>2. CASE ~toIDFire(e)
    <3>1. id = "fencei" /\ ~idDead
      BY <1>6, <2>2 DEF CoreCycle, StagesNext
    <3>2. e.store = {}
      BY <3>1 DEF Apart, CoreCycle
    <3>3. mem' = [a \in Stored |-> mem[a]]
      BY <1>1, <3>2 DEF Cycle, MemNext
    <3>4. mem' = mem
      BY <1>1, <3>3, Types
    <3>5. fenced' = fenced
      BY <1>1, <2>2 DEF Cycle, HistoryNext
    <3> QED BY <1>1, <3>1, <3>4, <3>5 DEF Promises
  <2> QED BY <2>1, <2>2
<1> QED BY <1>3, <1>4, <1>5, <1>6 DEF Promises

\* The word that arrives is as new as what was promised, and so are the words
\* written by the end of a cycle of a refill.
LEMMA WrittenDue ==
  ASSUME DInv, NEW e \in Env, Cycle(e), Refilling,
         NEW o \in Words, o < respCounter \/ (e.beat /\ o = respCounter)
  PROVE  LET d == dataRams'[replaceWay][index][o] IN
         /\ o = req.word => promised <= d.ver
         /\ Settled => Issued(req.line, o) <= d.ver
         /\ Settled => Promised(req.line, o) <= d.ver
<1>1. IInv /\ TypeOK /\ Promises /\ RefillDue
  BY DEF DInv, IInv
<1>2. Settled => Promised(req.line, o) <= dataRams'[replaceWay][index][o].ver
  BY <1>1, Written
<1>3. CASE e.beat /\ o = respCounter
  <2> DEFINE a == [line |-> req.line, word |-> o]
  <2>1. /\ dataRams'[replaceWay][index][o] = InMemory(bus.line, bus.word)
        /\ InMemory(bus.line, bus.word) = InMemory(req.line, o)
    BY <1>1, <1>3, Rams, Types, Arrives
  <2>2. dataRams'[replaceWay][index][o].ver = Of(mem, a)
    BY <1>1, <2>1, FromMemory, Types
  <2>3. o = req.word => a = req
    BY <1>1, Types
  <2>4. Of(issued, a) <= Of(mem, a)
    <3> HIDE DEF a
    <3> QED BY <1>1, Types, Constants DEF Promises, Of
  <2>5. promised <= Of(mem, req)
    BY <1>1 DEF Promises
  <2> HIDE DEF a
  <2>6. Of(issued, a) = Issued(req.line, o)
    BY DEF Issued, a
  <2> QED BY <1>2, <2>2, <2>3, <2>4, <2>5, <2>6
<1>4. CASE o < respCounter
  <2>1. o # respCounter
    BY <1>1, <1>4, Types, Constants
  <2>2. dataRams'[replaceWay][index][o] = dataRams[replaceWay][index][o]
    BY <1>1, <2>1, Rams, Types
  <2> QED BY <1>1, <1>2, <1>4, <2>2 DEF RefillDue
<1> QED BY <1>3, <1>4

\* The promises of the next cycle, where a line is known to keep both.
LEMMA IssuedNext ==
  ASSUME DInv, Apart, NEW e \in Env, NEW kind \in Kinds, CoreCycle(e, kind),
         NEW l, NEW o
  PROVE  \/ Of(issued', [line |-> l, word |-> o]) = Issued(l, o)
         \/ /\ Of(issued', [line |-> l, word |-> o]) = Promised(l, o)
            /\ fencei
BY Issues DEF Issued, Promised, Of

\* What valid lines owe.
LEMMA LinesDueStep ==
  ASSUME DInv, Apart, NEW e \in Env, NEW kind \in Kinds, CoreCycle(e, kind)
  PROVE  LinesDue'
<1>1. IInv /\ TypeOK /\ Promises /\ LinesDue /\ Cycle(e) /\ TypeOK'
  BY TypeStep DEF DInv, IInv, CoreCycle
<1>2. ASSUME NEW i \in Indexes, NEW w \in Ways, Holds(i, w)',
             LastBeat(e) => ~(i = index /\ w = replaceWay)
      PROVE  /\ \A o \in Words : Of(issued', [line |-> LineOf(i, w)', word |-> o])
                                   <= dataRams'[w][i][o].ver
             /\ i = index' /\ infoRams'[index'].tags[w] = req'.line.tag =>
                  promised' <= dataRams'[w][index'][req'.word].ver
  <2>1. /\ Holds(i, w) /\ ~fencei
        /\ infoRams'[i].tags[w] = infoRams[i].tags[w]
        /\ \A o \in Words : dataRams'[w][i][o] = dataRams[w][i][o]
    BY <1>1, <1>2, Kept, KeptAtEnd
  <2>2. LineOf(i, w)' = LineOf(i, w) /\ ~Doubtful(i, w)
    BY <2>1 DEF LineOf, Doubtful, Settled
  <2>3. \A o \in Words : Issued(LineOf(i, w), o) <= dataRams[w][i][o].ver
    BY <1>1, <2>1, <2>2 DEF LinesDue
  <2>4. \A o \in Words : Of(issued', [line |-> LineOf(i, w)', word |-> o])
                           <= dataRams'[w][i][o].ver
    <3>1. \A o \in Words : Of(issued', [line |-> LineOf(i, w)', word |-> o])
                             = Issued(LineOf(i, w), o)
      BY <2>1, <2>2, IssuedNext
    <3> QED BY <2>1, <2>3, <3>1
  <2>5. ASSUME i = index', infoRams'[index'].tags[w] = req'.line.tag
        PROVE  promised' <= dataRams'[w][index'][req'.word].ver
    <3>1. req' \in Address /\ req'.word \in Words
      BY <1>1, Request, Constants
    <3>2. CASE arFromIFFire
      <4>1. promised' = Of(issued, req')
        BY <1>1, <3>2, Request, PromisedNext
      <4>2. LineOf(i, w) = req'.line
        <5>1. req'.line = [tag |-> req'.line.tag, index |-> req'.line.index]
          BY <3>1, Constants
        <5>2. index' = req'.line.index
          BY <1>1, Request
        <5> QED BY <2>1, <2>5, <5>1, <5>2 DEF LineOf
      <4>3. [line |-> req'.line, word |-> req'.word] = req'
        BY <3>1, Constants
      <4>4. Issued(LineOf(i, w), req'.word) = promised'
        BY <4>1, <4>2, <4>3 DEF Issued
      <4> QED BY <2>1, <2>3, <2>5, <3>1, <4>4
    <3>3. CASE ~arFromIFFire
      <4>1. req' = req /\ index' = index /\ promised' = promised
        BY <1>1, <3>3, Request, PromisedNext
      <4>2. promised <= dataRams[w][index][req.word].ver
        BY <1>1, <2>1, <2>5, <4>1 DEF LinesDue
      <4> QED BY <2>1, <2>5, <3>1, <4>1, <4>2
    <3> QED BY <3>2, <3>3
  <2> QED BY <2>4, <2>5
<1>3. ASSUME LastBeat(e), NEW i \in Indexes, NEW w \in Ways, i = index, w = replaceWay
      PROVE  /\ ~Doubtful(i, w)' => \A o \in Words :
                  Of(issued', [line |-> LineOf(i, w)', word |-> o]) <= dataRams'[w][i][o].ver
             /\ promised' <= dataRams'[w][index'][req'.word].ver
  <2>1. Refilling /\ e.beat /\ respCounter = blockWords - 1 /\ state' = "FINISH"
    BY <1>1, <1>3, Moves DEF Refilling
  <2>2. req' = req /\ index' = index /\ replaceWay' = replaceWay /\ promised' = promised
    BY <1>1, <2>1, Place, Busy, PromisedNext
  <2>3. \A o \in Words : o < respCounter \/ (e.beat /\ o = respCounter)
    BY <2>1, Constants
  <2>4. ASSUME NEW o \in Words
        PROVE  /\ o = req.word => promised <= dataRams'[w][i][o].ver
               /\ Settled => Issued(req.line, o) <= dataRams'[w][i][o].ver
               /\ Settled => Promised(req.line, o) <= dataRams'[w][i][o].ver
    BY <1>1, <1>3, <2>1, <2>3, WrittenDue
  <2>5. LineOf(i, w)' = req.line
    <3>1. infoRams'[i].tags[w] = req.line.tag
      BY <1>1, <1>3, Rams
    <3> QED BY <1>1, <1>3, <3>1, Types DEF LineOf
  <2>6. ~Doubtful(i, w)' => Settled
    <3>1. ~Doubtful(i, w)' => Settled'
      BY <1>3, <2>1, <2>2 DEF Doubtful
    <3> QED BY <1>1, <2>1, <3>1, SettledBack
  <2>7. ~Doubtful(i, w)' => \A o \in Words :
          Of(issued', [line |-> LineOf(i, w)', word |-> o]) <= dataRams'[w][i][o].ver
    BY <2>4, <2>5, <2>6, IssuedNext
  <2>8. promised' <= dataRams'[w][index'][req'.word].ver
    BY <1>1, <1>3, <2>2, <2>4, Types
  <2> QED BY <2>7, <2>8
<1>4. ASSUME NEW i \in Indexes, NEW w \in Ways, Holds(i, w)'
      PROVE  /\ ~Doubtful(i, w)' => \A o \in Words :
                  Of(issued', [line |-> LineOf(i, w)', word |-> o]) <= dataRams'[w][i][o].ver
             /\ i = index' /\ infoRams'[index'].tags[w] = req'.line.tag =>
                  promised' <= dataRams'[w][index'][req'.word].ver
  <2>1. CASE LastBeat(e) /\ i = index /\ w = replaceWay
    BY <1>3, <2>1
  <2>2. CASE LastBeat(e) => ~(i = index /\ w = replaceWay)
    BY <1>2, <1>4, <2>2
  <2> QED BY <2>1, <2>2
<1>5. \A i \in Indexes, w \in Ways : Holds(i, w)' /\ ~Doubtful(i, w)' => \A o \in Words :
        Of(issued', [line |-> LineOf(i, w)', word |-> o]) <= dataRams'[w][i][o].ver
  BY <1>4
<1>6. ASSUME NEW w \in Ways, NEW i \in Indexes, i = index', Holds(i, w)',
             infoRams'[index'].tags[w] = req'.line.tag
      PROVE  promised' <= dataRams'[w][index'][req'.word].ver
  BY <1>4, <1>6
<1>7. ASSUME NEW w \in Ways, Holds(index, w)', (infoRams[index].tags[w] = req.line.tag)'
      PROVE  promised' <= dataRams'[w][index'][req'.word].ver
  <2>1. index' \in Indexes
    BY <1>1, Request, Constants
  <2>2. PICK i \in Indexes : i = index'
    BY <2>1
  <2>3. Holds(i, w)'
    BY <1>7, <2>2 DEF Holds
  <2> QED BY <1>6, <1>7, <2>2, <2>3
<1> QED BY <1>5, <1>7 DEF LinesDue, Issued

\* What the word of a hit owes.
LEMMA HitDueStep ==
  ASSUME DInv, Apart, NEW e \in Env, NEW kind \in Kinds, CoreCycle(e, kind)
  PROVE  HitDue'
<1> SUFFICES ASSUME state' = "IDLE", NEW w \in Ways, hits(w)'
             PROVE  promised' <= dataResp'[w].ver
  BY DEF HitDue
<1>1. IInv /\ TypeOK /\ LinesDue /\ Cycle(e)
  BY DEF DInv, IInv, CoreCycle
<1>2. ~Refilling /\ ~LastBeat(e) /\ ~e.beat
  <2>1. ~Refilling
    BY <1>1, Moves DEF Refilling
  <2> QED BY <1>1, <2>1, Moves, Beat
<1>3. req' \in Address /\ index' = req'.line.index /\ index' \in Indexes /\ req'.word \in Words
  BY <1>1, Request, Constants
<1>4. /\ blockValids' = valids[index'] /\ infoResp' \in {infoRams[index'], infoRams'[index']}
      /\ dataResp' \in {[v \in Ways |-> dataRams[v][index'][req'.word]],
                        [v \in Ways |-> dataRams'[v][index'][req'.word]]}
  BY <1>1, Request DEF Cycle, LookupNext
<1>5. valids[index'][w] /\ infoRams[index'].tags[w] = req'.line.tag
  BY <1>1, <1>2, <1>3, <1>4, Rams DEF hits
<1>6. dataResp'[w] = dataRams[w][index'][req'.word]
  <2>1. dataRams'[w][index'][req'.word] = dataRams[w][index'][req'.word]
    BY <1>1, <1>2, <1>3, Rams
  <2> QED BY <1>4, <2>1
<1>7. Holds(index', w) /\ LineOf(index', w) = req'.line
  <2>1. req'.line = [tag |-> req'.line.tag, index |-> req'.line.index]
    BY <1>3, Constants
  <2> QED BY <1>2, <1>3, <1>5, <2>1 DEF Holds, LineOf
<1>8. CASE arFromIFFire
  <2>1. promised' = Of(issued, req') /\ ~Doubtful(index', w)
    BY <1>1, <1>8, Request, PromisedNext DEF Doubtful
  <2>2. [line |-> req'.line, word |-> req'.word] = req'
    BY <1>3, Constants
  <2>3. Issued(LineOf(index', w), req'.word) <= dataRams[w][index'][req'.word].ver
    BY <1>1, <1>3, <1>7, <2>1 DEF LinesDue
  <2> QED BY <1>6, <1>7, <2>1, <2>2, <2>3 DEF Issued
<1>9. CASE ~arFromIFFire
  <2>1. req' = req /\ index' = index /\ promised' = promised
    BY <1>1, <1>9, Request, PromisedNext
  <2> QED BY <1>1, <1>5, <1>6, <1>7, <2>1 DEF LinesDue
<1> QED BY <1>8, <1>9

\* What the words of a refill owe.
LEMMA RefillDueStep ==
  ASSUME DInv, Apart, NEW e \in Env, NEW kind \in Kinds, CoreCycle(e, kind)
  PROVE  RefillDue'
<1>1. /\ IInv /\ TypeOK /\ TypeOK' /\ RefillDue /\ Counters /\ Counters' /\ Cycle(e)
      /\ Promises
  BY TypeStep, CountersStep DEF DInv, IInv, CoreCycle
<1>2. CASE Refilling
  <2>1. req' = req /\ index' = index /\ replaceWay' = replaceWay /\ promised' = promised
    BY <1>1, <1>2, Place, Busy, PromisedNext
  <2>2. respCounter \in 0 .. blockWords - 1 /\ req.word \in 0 .. blockWords - 1
    BY <1>1, Types, Constants
  <2>3. ~LastBeat(e) => respCounter' = IF e.beat THEN respCounter + 1 ELSE respCounter
    <3>1. ~LastBeat(e) /\ e.beat => respCounter < blockWords - 1
      BY <1>1, <1>2, <2>2, Beat, Constants DEF LastBeat, rFromMemFire, Refilling
    <3>2. ~LastBeat(e) /\ e.beat => (respCounter + 1) % blockWords = respCounter + 1
      BY <2>2, <3>1, NoWrap
    <3> QED BY <1>1, <1>2, <3>2 DEF Refilling, Cycle, RespCounterNext, rFromMemFire
  <2>4. ASSUME Refilling', NEW o \in Words, o < respCounter'
        PROVE  LET d == dataRams'[replaceWay'][index'][o] IN
               /\ o = req'.word => promised' <= d.ver
               /\ Settled' => Of(issued', [line |-> req'.line, word |-> o]) <= d.ver
    <3>1. ~LastBeat(e)
      BY <1>1, <1>2, <2>4, Place
    <3>2. o < respCounter \/ (e.beat /\ o = respCounter)
      BY <2>2, <2>3, <2>4, <3>1, Constants
    <3>3. LET d == dataRams'[replaceWay][index][o] IN
          /\ o = req.word => promised <= d.ver
          /\ Settled => Issued(req.line, o) <= d.ver
          /\ Settled => Promised(req.line, o) <= d.ver
      BY <1>1, <1>2, <3>2, WrittenDue
    <3>4. Settled' => Settled
      BY <1>1, <1>2, SettledBack
    <3>5. \/ Of(issued', [line |-> req'.line, word |-> o]) = Issued(req.line, o)
          \/ Of(issued', [line |-> req'.line, word |-> o]) = Promised(req.line, o)
      BY <2>1, IssuedNext
    <3> QED BY <2>1, <3>3, <3>4, <3>5
  <2>5. ASSUME state' = "FINISH" \/ (Refilling' /\ req'.word < respCounter')
        PROVE  promised' <= inst2Fire'.ver
    <3>1. req.word < respCounter \/ (e.beat /\ req.word = respCounter)
      <4>1. CASE LastBeat(e)
        BY <1>1, <2>2, <4>1, Moves, Constants
      <4>2. CASE ~LastBeat(e)
        <5>1. state' # "FINISH"
          BY <1>1, <1>2, <4>2, Place
        <5> QED BY <2>1, <2>2, <2>3, <2>5, <4>2, <5>1, Constants
      <4> QED BY <4>1, <4>2
    <3>2. inst2Fire' = IF e.beat /\ respCounter = req.word THEN InMemory(bus.line, bus.word)
                       ELSE inst2Fire
      BY <1>1 DEF Cycle, RefillNext, rFromMemFire
    <3>3. CASE e.beat /\ respCounter = req.word
      <4>1. InMemory(bus.line, bus.word) = InMemory(req.line, req.word)
        BY <1>1, <3>3, Arrives
      <4>2. InMemory(req.line, req.word).ver = Of(mem, req)
        BY <1>1, FromMemory, Types
      <4> QED BY <1>1, <2>1, <3>2, <3>3, <4>1, <4>2 DEF Promises
    <3>4. CASE ~(e.beat /\ respCounter = req.word)
      BY <1>1, <1>2, <2>1, <3>1, <3>2, <3>4 DEF RefillDue
    <3> QED BY <3>3, <3>4
  <2> QED BY <2>4, <2>5 DEF RefillDue, Issued
<1>3. CASE state = "IDLE"
  <2>1. ~e.beat /\ respCounter = 0
    BY <1>1, <1>3, Beat DEF Counters, Refilling
  <2>2. respCounter' = 0
    BY <1>1, <1>3, <2>1 DEF Cycle, RespCounterNext, rFromMemFire
  <2>3. state' # "FINISH"
    BY <1>1, <1>3, Moves
  <2>4. req'.word \in Words
    BY <1>1, Request, Constants
  <2> QED BY <2>2, <2>3, <2>4, Constants DEF RefillDue
<1>4. CASE state = "FINISH"
  <2>1. ~e.beat /\ req' = req /\ promised' = promised
    BY <1>1, <1>4, Beat, Request, PromisedNext DEF Refilling
  <2>2. inst2Fire' = inst2Fire /\ ~Refilling'
    BY <1>1, <1>4, <2>1, Moves DEF Cycle, RefillNext, rFromMemFire, Refilling
  <2> QED BY <1>1, <1>4, <2>1, <2>2 DEF RefillDue
<1> QED BY <1>1, <1>2, <1>3, <1>4, Types DEF Refilling

\* Every cycle of the core keeps the invariant while stores stand apart.
LEMMA StepDue == DInv /\ Apart /\ [CoreNext]_<<vars, stages>> => DInv'
<1>1. ASSUME DInv, Apart, NEW e \in Env, NEW kind \in Kinds, CoreCycle(e, kind)
      PROVE  DInv'
  <2>1. IInv'
    <3>1. IInv /\ Next
      BY <1>1 DEF DInv, CoreCycle, Next
    <3> QED BY <3>1, StepInv
  <2> QED BY <1>1, <2>1, PromisesStep, LinesDueStep, HitDueStep, RefillDueStep DEF DInv
<1>2. ASSUME DInv, UNCHANGED <<vars, stages>> PROVE DInv'
  <2>1. IInv'
    <3>1. IInv /\ UNCHANGED vars
      BY <1>2 DEF DInv
    <3> QED BY <3>1, StepInv
  <2>2. /\ UNCHANGED ram /\ UNCHANGED control /\ UNCHANGED outside /\ UNCHANGED history
        /\ mem' = mem /\ UNCHANGED stages
    BY <1>2 DEF vars
  <2> USE DEF ram, control, outside, history, stages
  <2>3. index' = index /\ (Settled' <=> Settled) /\ (Refilling' <=> Refilling)
    BY <2>2 DEF index, Settled, Refilling
  <2>4. Promises' /\ HitDue'
    BY <1>2, <2>2 DEF DInv, Promises, HitDue, hits, Of
  <2>5. LinesDue'
    BY <1>2, <2>2, <2>3 DEF DInv, LinesDue, Holds, Doubtful, LineOf, Issued, Of
  <2>6. RefillDue'
    BY <1>2, <2>2, <2>3 DEF DInv, RefillDue, Issued, Of
  <2> QED BY <2>1, <2>4, <2>5, <2>6 DEF DInv
<1> QED BY <1>1, <1>2 DEF CoreNext

\* The invariant keeps the promise to the answered request.
LEMMA InvFenceI == DInv => FenceI
<1> SUFFICES ASSUME DInv, rToIFValid PROVE rdata.ver >= promised
  BY DEF FenceI
<1>1. TypeOK /\ promised \in Nat
  BY Constants DEF DInv, IInv, Promises
<1>2. CASE state = "FINISH"
  <2>1. promised <= inst2Fire.ver
    BY <1>2 DEF DInv, RefillDue
  <2> QED BY <1>2, <2>1 DEF rdata
<1>3. CASE state # "FINISH"
  <2>1. hit /\ state = "IDLE"
    BY <1>3 DEF rToIFValid, hit
  <2> DEFINE w == CHOOSE v \in Ways : hits(v)
  <2>2. w \in Ways /\ hits(w)
    BY <2>1 DEF hit
  <2>3. promised <= dataResp[w].ver
    <3> HIDE DEF w
    <3> QED BY <2>1, <2>2 DEF DInv, HitDue
  <2> QED BY <1>3, <2>3 DEF rdata, hitData
<1> QED BY <1>2, <1>3

\* A fence.i does what it should as long as two other instructions stand
\* between it and the last store: nothing fetched after it is older than the
\* stores in front of it, whatever is flushed, refilled and stored meanwhile
\* (ID.scala:89, EXE.scala:224, ICache.scala:174, 264).
THEOREM FenceKeepsApart == CoreSpec /\ []Apart => []FenceI
BY InitDue, StepDue, InvFenceI, PTL DEF CoreSpec
=============================================================================
