------------------------------ MODULE KFilesProofs ----------------------------
(***************************************************************************)
(* Proofs about KFiles.  The invariant says what is left of a plan while   *)
(* it is carried out, and what of it the files already show: a file that   *)
(* is about to be replaced has been kept, the header waits for auto.conf   *)
(* with the same lines, and a symbol auto.conf changes is touched or still *)
(* waits to be.  It holds whatever is killed, because what a killed run    *)
(* has touched stays touched until the objects are compiled.               *)
(***************************************************************************)
EXTENDS KFiles, TLAPS

TypeOK == /\ disk \in [Files -> Seq(Content)]
          /\ todo \in Seq(Ops)
          /\ ok \in BOOLEAN

\* What is left of Kept, AutoLast and Covered once some writes are done.
KeptFirst ==
  \A i \in DOMAIN todo :
    /\ todo[i].op = "keep" => /\ todo[i].file \in Named
                              /\ i < Len(todo) /\ Does(todo[i + 1], "put", todo[i].file)
    /\ todo[i].op = "put" => todo[i].file \in Targets
    /\ todo[i].op = "put" /\ todo[i].file \in Named =>
         IF i = 1 THEN disk[todo[i].file] = <<>> ELSE Does(todo[i - 1], "keep", todo[i].file)
HeaderWaits ==
  \A i \in DOMAIN todo :
    /\ Does(todo[i], "put", Header) =>
         /\ i + 1 = Len(todo) /\ Does(todo[i + 1], "put", AutoFile)
         /\ todo[i].lines = todo[i + 1].lines
    /\ Does(todo[i], "put", AutoFile) =>
         /\ i = Len(todo)
         /\ IF i = 1 THEN disk[Header] = <<todo[i].lines>>
            ELSE Does(todo[i - 1], "put", Header)
Announced(w) ==
  WritesAuto(w) =>
    \A s \in Names \ dropped :
      \/ s \in touched
      \/ ValueIn(disk[AutoFile], s) = ValueIn(<<w[Len(w)].lines>>, s)
      \/ \E i \in DOMAIN w : Does(w[i], "touch", s)
Compiled ==
  built # <<>> =>
    \A s \in Names \ dropped : s \in touched \/ built[s] = ValueIn(disk[AutoFile], s)
Marked == ok => /\ disk[AutoFile] # <<>> /\ disk[Header] = disk[AutoFile]
                  /\ ~WritesAuto(todo)
SyncWrites == last = "syncconfig" /\ prog = "none" /\ todo # <<>> => WritesAuto(todo)
IInv == TypeOK /\ KeptFirst /\ HeaderWaits /\ Announced(todo) /\ Compiled
        /\ Marked /\ SyncWrites


\* Taking the first write off a plan: the others move up by one.
LEMMA Rest ==
  ASSUME NEW w \in Seq(Ops), w # <<>>
  PROVE  /\ Len(w) \in Nat /\ Len(w) >= 1 /\ DOMAIN w = 1 .. Len(w)
         /\ Head(w) = w[1] /\ w[1] \in Ops
         /\ Tail(w) \in Seq(Ops) /\ Len(Tail(w)) = Len(w) - 1
         /\ DOMAIN Tail(w) = 1 .. Len(w) - 1
         /\ \A i \in 1 .. Len(w) - 1 : Tail(w)[i] = w[i + 1]
OBVIOUS

\* No two files have one name, and a file that is kept goes elsewhere.
LEMMA FileNames ==
  /\ Header # AutoFile /\ Header \notin Named /\ AutoFile \notin Named
  /\ Header \in Files /\ AutoFile \in Files /\ Targets \subseteq Files
  /\ Named \subseteq Targets /\ Header \in Targets /\ AutoFile \in Targets
  /\ \A f \in Named : Old(f) \in Files /\ Old(f) \notin Targets
  /\ \A f, g \in Named : Old(f) = Old(g) => f = g
<1>1. /\ Header # AutoFile /\ Header \notin Named /\ AutoFile \notin Named
      /\ Named \subseteq Targets /\ Header \in Targets /\ AutoFile \in Targets
  BY DEF Header, AutoFile, Named, Config, Targets
<1>2. Old(".config") = ".config.old" /\ Old("alt") = "alt.old"
  BY DEF Old, Config
<1>3. Named = {".config", "alt"}
  BY DEF Named, Config
<1>4. Targets \subseteq Files /\ \A f \in Named : Old(f) \in Files
  BY DEF Files
<1>5. Targets = {".config", "alt", "include/config/auto.conf",
                 "include/generated/autoconf.h", "configs/defconfig"}
  BY <1>3 DEF Targets, Header, AutoFile, Defconfig
<1>6. ".config.old" \notin Targets /\ "alt.old" \notin Targets
  BY <1>5
<1> QED
  BY <1>1, <1>2, <1>3, <1>4, <1>6

\* What one write changes, as far as the file it writes is one of those a
\* plan may name.
LEMMA DoEffect ==
  ASSUME NEW op \in Ops, disk \in [Files -> Seq(Content)],
         op.op = "keep" => op.file \in Named,
         op.op = "put" => op.file \in Targets
  PROVE  /\ Do(op) \in [Files -> Seq(Content)]
         /\ op.op = "touch" => Do(op) = disk
         /\ op.op = "put" => /\ Do(op)[op.file] = <<op.lines>>
                             /\ \A g \in Files \ {op.file} : Do(op)[g] = disk[g]
         /\ op.op = "keep" =>
              /\ Do(op)[op.file] = <<>>
              /\ IF disk[op.file] = <<>> THEN Do(op) = disk
                 ELSE Do(op)[Old(op.file)] = disk[op.file]
              /\ \A g \in Files \ {op.file, Old(op.file)} : Do(op)[g] = disk[g]
<1>1. op.op \in {"keep", "put", "touch"} /\ op.lines \in Content
  BY DEF Ops
<1>2. CASE op.op = "touch"
  BY <1>2 DEF Do
<1>3. CASE op.op = "put"
  <2>1. Do(op) = [disk EXCEPT ![op.file] = <<op.lines>>] /\ op.file \in Files
    BY <1>3, FileNames DEF Do
  <2>2. <<op.lines>> \in Seq(Content)
    BY <1>1
  <2> QED
    BY <1>3, <2>1, <2>2
<1>4. CASE op.op = "keep"
  <2>1. op.file \in Files /\ Old(op.file) \in Files /\ Old(op.file) # op.file
    BY <1>4, FileNames
  <2>2. CASE disk[op.file] = <<>>
    BY <1>4, <2>1, <2>2 DEF Do
  <2>3. CASE disk[op.file] # <<>>
    <3>1. Do(op) = [disk EXCEPT ![Old(op.file)] = disk[op.file], ![op.file] = <<>>]
      BY <1>4, <2>3 DEF Do
    <3>2. disk[op.file] \in Seq(Content) /\ <<>> \in Seq(Content)
      BY <2>1
    <3> QED
      BY <1>4, <2>1, <2>3, <3>1, <3>2
  <2> QED
    BY <2>2, <2>3
<1> QED
  BY <1>1, <1>2, <1>3, <1>4

-----------------------------------------------------------------------------
(* One write.                                                               *)

\* The write that is next, the files it leaves and the plan after it.
LEMMA Step ==
  ASSUME IInv, WriteFile
  PROVE  /\ todo[1] \in Ops /\ disk' = Do(todo[1])
         /\ todo[1].op = "keep" => todo[1].file \in Named
         /\ todo[1].op = "put" => todo[1].file \in Targets
         /\ TypeOK'
<1>1. todo \in Seq(Ops) /\ todo # <<>> /\ disk \in [Files -> Seq(Content)] /\ ok \in BOOLEAN
  BY DEF IInv, TypeOK, WriteFile
<1>2. /\ 1 \in DOMAIN todo /\ Head(todo) = todo[1] /\ todo[1] \in Ops
      /\ Tail(todo) \in Seq(Ops)
  BY <1>1, Rest
<1>3. disk' = Do(todo[1]) /\ todo' = Tail(todo) /\ ok' \in BOOLEAN
  BY <1>1, <1>2 DEF WriteFile
<1>4. /\ todo[1].op = "keep" => todo[1].file \in Named
      /\ todo[1].op = "put" => todo[1].file \in Targets
  BY <1>2 DEF IInv, KeptFirst
<1>5. Do(todo[1]) \in [Files -> Seq(Content)]
  BY <1>1, <1>2, <1>4, DoEffect
<1> QED
  BY <1>2, <1>3, <1>4, <1>5 DEF TypeOK

\* The plan moves up: what was the second write is the first.
LEMMA MovesUp ==
  ASSUME IInv, WriteFile
  PROVE  /\ Len(todo) \in Nat /\ Len(todo) >= 1 /\ DOMAIN todo = 1 .. Len(todo)
         /\ Len(todo') = Len(todo) - 1 /\ DOMAIN todo' = 1 .. Len(todo) - 1
         /\ \A i \in 1 .. Len(todo) - 1 : todo'[i] = todo[i + 1]
<1>1. todo \in Seq(Ops) /\ todo # <<>> /\ todo' = Tail(todo)
  BY DEF IInv, TypeOK, WriteFile
<1> QED
  BY <1>1, Rest

\* The file the next write replaces is not there: the write just done kept it.
LEMMA StepKeeps ==
  ASSUME IInv, WriteFile
  PROVE  KeptFirst'
<1> DEFINE op == todo[1]
<1>1. SUFFICES ASSUME NEW i \in DOMAIN todo'
      PROVE
        /\ todo'[i].op = "keep" =>
             /\ todo'[i].file \in Named
             /\ i < Len(todo') /\ Does(todo'[i + 1], "put", todo'[i].file)
        /\ todo'[i].op = "put" => todo'[i].file \in Targets
        /\ todo'[i].op = "put" /\ todo'[i].file \in Named =>
             IF i = 1 THEN disk'[todo'[i].file] = <<>>
             ELSE Does(todo'[i - 1], "keep", todo'[i].file)
  BY DEF KeptFirst
<1>2. /\ i \in 1 .. Len(todo) - 1 /\ i + 1 \in DOMAIN todo /\ todo'[i] = todo[i + 1]
      /\ i > 1 => todo'[i - 1] = todo[i] /\ i \in DOMAIN todo
      /\ i + 1 < Len(todo) => todo'[i + 1] = todo[(i + 1) + 1]
  BY MovesUp
<1>3. /\ todo[i + 1].op = "keep" =>
           /\ todo[i + 1].file \in Named
           /\ i + 1 < Len(todo) /\ Does(todo[(i + 1) + 1], "put", todo[i + 1].file)
      /\ todo[i + 1].op = "put" => todo[i + 1].file \in Targets
      /\ todo[i + 1].op = "put" /\ todo[i + 1].file \in Named =>
           Does(todo[i], "keep", todo[i + 1].file)
  <2> DEFINE j == i + 1
  <2>1. j \in DOMAIN todo /\ j # 1 /\ j - 1 = i
    BY <1>2
  <2>2. /\ todo[j].op = "keep" => /\ todo[j].file \in Named
                                 /\ j < Len(todo) /\ Does(todo[j + 1], "put", todo[j].file)
        /\ todo[j].op = "put" => todo[j].file \in Targets
        /\ todo[j].op = "put" /\ todo[j].file \in Named =>
             Does(todo[j - 1], "keep", todo[j].file)
    <3> HIDE DEF j
    <3> QED
      BY <2>1 DEF IInv, KeptFirst
  <2> QED
    BY <2>1, <2>2
<1>4. ASSUME i = 1, todo'[i].op = "put", todo'[i].file \in Named
      PROVE  disk'[todo'[i].file] = <<>>
  <2>1. op.op = "keep" /\ op.file = todo'[i].file
    BY <1>2, <1>3, <1>4 DEF Does
  <2>2. Do(op)[op.file] = <<>>
    BY <2>1, Step, DoEffect DEF IInv, TypeOK
  <2> QED
    BY <2>1, <2>2, Step
<1> QED
  BY <1>2, <1>3, <1>4, MovesUp


\* If auto.conf is next, the header was the write just done.
LEMMA StepHeader ==
  ASSUME IInv, WriteFile
  PROVE  HeaderWaits'
<1>1. SUFFICES ASSUME NEW i \in DOMAIN todo'
      PROVE
        /\ Does(todo'[i], "put", Header) =>
             /\ i + 1 = Len(todo') /\ Does(todo'[i + 1], "put", AutoFile)
             /\ todo'[i].lines = todo'[i + 1].lines
        /\ Does(todo'[i], "put", AutoFile) =>
             /\ i = Len(todo')
             /\ IF i = 1 THEN disk'[Header] = <<todo'[i].lines>>
                ELSE Does(todo'[i - 1], "put", Header)
  BY DEF HeaderWaits
<1> DEFINE j == i + 1
<1>2. /\ i \in 1 .. Len(todo) - 1 /\ j \in DOMAIN todo /\ todo'[i] = todo[j]
      /\ j # 1 /\ j - 1 = i /\ i \in DOMAIN todo
      /\ i > 1 => todo'[i - 1] = todo[i]
      /\ j < Len(todo) => todo'[i + 1] = todo[j + 1]
  BY MovesUp
<1>3. /\ Does(todo[j], "put", Header) =>
           /\ j + 1 = Len(todo) /\ Does(todo[j + 1], "put", AutoFile)
           /\ todo[j].lines = todo[j + 1].lines
      /\ Does(todo[j], "put", AutoFile) =>
           j = Len(todo) /\ Does(todo[j - 1], "put", Header)
  <2> HIDE DEF j
  <2> QED
    BY <1>2 DEF IInv, HeaderWaits
<1>4. ASSUME i = 1, Does(todo'[i], "put", AutoFile)
      PROVE  disk'[Header] = <<todo'[i].lines>>
  <2>1. Does(todo[1], "put", Header) /\ 1 \in DOMAIN todo
    BY <1>2, <1>3, <1>4
  <2>2. todo[1].lines = todo[1 + 1].lines
    BY <2>1 DEF IInv, HeaderWaits
  <2>3. Do(todo[1])[Header] = <<todo[1].lines>>
    BY <2>1, Step, DoEffect DEF IInv, TypeOK, Does
  <2> QED
    BY <1>2, <1>4, <2>2, <2>3, Step
<1> QED
  BY <1>2, <1>3, <1>4, MovesUp

\* A plan that writes auto.conf still does after a write, unless that was it;
\* and its last write is the same.
LEMMA AutoStays ==
  ASSUME IInv, WriteFile
  PROVE  /\ WritesAuto(todo') => WritesAuto(todo) /\ Len(todo) > 1
         /\ WritesAuto(todo) => WritesAuto(todo') \/ Len(todo) = 1
         /\ Len(todo) > 1 => todo'[Len(todo')] = todo[Len(todo)]
<1>1. ASSUME WritesAuto(todo')
      PROVE  WritesAuto(todo) /\ Len(todo) > 1
  <2>1. PICK i \in DOMAIN todo' : Does(todo'[i], "put", AutoFile)
    BY <1>1 DEF WritesAuto
  <2>2. i + 1 \in DOMAIN todo /\ Does(todo[i + 1], "put", AutoFile)
    BY <2>1, MovesUp
  <2> QED
    BY <2>1, <2>2, MovesUp DEF WritesAuto
<1>2. ASSUME WritesAuto(todo), Len(todo) # 1
      PROVE  WritesAuto(todo')
  <2>1. PICK i \in DOMAIN todo : Does(todo[i], "put", AutoFile)
    BY <1>2 DEF WritesAuto
  <2>2. i = Len(todo)
    BY <2>1 DEF IInv, HeaderWaits
  <2>3. i - 1 \in DOMAIN todo' /\ todo'[i - 1] = todo[i]
    BY <1>2, <2>2, MovesUp
  <2> QED
    BY <2>1, <2>3 DEF WritesAuto
<1>3. Len(todo) > 1 => todo'[Len(todo')] = todo[Len(todo)]
  BY MovesUp
<1> QED
  BY <1>1, <1>2, <1>3

\* auto.conf changes only with the last write of a plan, after the header got
\* the same lines.
LEMMA AutoChange ==
  ASSUME IInv, WriteFile
  PROVE  \/ disk'[AutoFile] = disk[AutoFile] /\ ~Does(todo[1], "put", AutoFile)
         \/ /\ Does(todo[1], "put", AutoFile) /\ Len(todo) = 1
            /\ disk'[AutoFile] = <<todo[1].lines>> /\ disk'[Header] = disk[Header]
            /\ disk[Header] = <<todo[1].lines>>
<1> DEFINE op == todo[1]
<1>1. /\ op \in Ops /\ disk' = Do(op) /\ disk \in [Files -> Seq(Content)]
      /\ op.op = "keep" => op.file \in Named
      /\ op.op = "put" => op.file \in Targets
  BY Step DEF IInv, TypeOK
<1>2. CASE Does(op, "put", AutoFile)
  <2>1. Len(todo) = 1 /\ disk[Header] = <<op.lines>>
    <3>1. 1 \in DOMAIN todo
      BY MovesUp
    <3>2. HeaderWaits
      BY DEF IInv
    <3> QED
      BY <1>2, <3>1, <3>2 DEF HeaderWaits
  <2> QED
    BY <1>1, <1>2, <2>1, DoEffect, FileNames DEF Does
<1>3. CASE ~Does(op, "put", AutoFile)
  <2>1. op.op \in {"keep", "put", "touch"}
    BY <1>1 DEF Ops
  <2>2. CASE op.op = "keep"
    BY <1>1, <1>3, <2>2, DoEffect, FileNames
  <2>3. CASE op.op = "put"
    BY <1>1, <1>3, <2>3, DoEffect, FileNames DEF Does
  <2>4. CASE op.op = "touch"
    BY <1>1, <1>3, <2>4, DoEffect
  <2> QED
    BY <2>1, <2>2, <2>3, <2>4
<1> QED
  BY <1>2, <1>3

\* What auto.conf will change is touched or about to be.
LEMMA StepAnnounces ==
  ASSUME IInv, WriteFile
  PROVE  Announced(todo)'
<1>1. SUFFICES ASSUME WritesAuto(todo'), NEW s \in Names \ dropped,
                      s \notin touched'
      PROVE  \/ ValueIn(disk'[AutoFile], s) = ValueIn(<<todo'[Len(todo')].lines>>, s)
             \/ \E i \in DOMAIN todo' : Does(todo'[i], "touch", s)
  BY DEF Announced, WriteFile
<1>2. /\ WritesAuto(todo) /\ Len(todo) > 1 /\ todo'[Len(todo')] = todo[Len(todo)]
      /\ disk'[AutoFile] = disk[AutoFile]
  BY <1>1, AutoStays, AutoChange
<1>3. s \notin touched /\ ~Does(todo[1], "touch", s)
  <2>1. todo \in Seq(Ops) /\ todo # <<>>
    BY DEF IInv, TypeOK, WriteFile
  <2>2. Head(todo) = todo[1]
    BY <2>1, Rest
  <2> QED
    BY <1>1, <2>2 DEF WriteFile, Does
<1>4. \/ ValueIn(disk[AutoFile], s) = ValueIn(<<todo[Len(todo)].lines>>, s)
      \/ \E i \in DOMAIN todo : Does(todo[i], "touch", s)
  BY <1>1, <1>2, <1>3 DEF IInv, Announced
<1>5. ASSUME NEW i \in DOMAIN todo, Does(todo[i], "touch", s)
      PROVE  i - 1 \in DOMAIN todo' /\ Does(todo'[i - 1], "touch", s)
  BY <1>3, <1>5, MovesUp
<1> QED
  BY <1>2, <1>4, <1>5

\* auto.conf changes nothing an object that stays was not compiled with.
LEMMA StepCompiled ==
  ASSUME IInv, WriteFile
  PROVE  Compiled'
<1>1. SUFFICES ASSUME built # <<>>, NEW s \in Names \ dropped, s \notin touched'
      PROVE  built[s] = ValueIn(disk'[AutoFile], s)
  BY DEF Compiled, WriteFile
<1>2. s \notin touched
  BY <1>1 DEF WriteFile
<1>3. built[s] = ValueIn(disk[AutoFile], s)
  BY <1>1, <1>2 DEF IInv, Compiled
<1>4. CASE disk'[AutoFile] = disk[AutoFile]
  BY <1>3, <1>4
<1>5. CASE /\ Does(todo[1], "put", AutoFile) /\ Len(todo) = 1
           /\ disk'[AutoFile] = <<todo[1].lines>>
  <2>1. DOMAIN todo = {1} /\ WritesAuto(todo)
    BY <1>5, MovesUp DEF WritesAuto
  <2>2. ~ \E i \in DOMAIN todo : Does(todo[i], "touch", s)
    BY <1>5, <2>1 DEF Does
  <2>3. ValueIn(disk[AutoFile], s) = ValueIn(<<todo[1].lines>>, s)
    BY <1>1, <1>2, <1>5, <2>1, <2>2 DEF IInv, Announced
  <2> QED
    BY <1>3, <1>5, <2>3
<1> QED
  BY <1>4, <1>5, AutoChange

\* The mark of a finished syncconfig comes with its last write, auto.conf.
LEMMA StepMarks ==
  ASSUME IInv, WriteFile
  PROVE  Marked'
<1>1. SUFFICES ASSUME ok'
      PROVE  disk'[AutoFile] # <<>> /\ disk'[Header] = disk'[AutoFile] /\ ~WritesAuto(todo')
  BY DEF Marked
<1>2. CASE ok
  <2>1. disk[AutoFile] # <<>> /\ disk[Header] = disk[AutoFile] /\ ~WritesAuto(todo)
    BY <1>2 DEF IInv, Marked
  <2>2. 1 \in DOMAIN todo /\ ~Does(todo[1], "put", AutoFile)
    BY <2>1, MovesUp DEF WritesAuto
  <2>3. ~Does(todo[1], "put", Header)
    <3>1. ASSUME Does(todo[1], "put", Header)
          PROVE  WritesAuto(todo)
      <4>1. 1 + 1 = Len(todo) /\ Does(todo[1 + 1], "put", AutoFile)
        BY <2>2, <3>1 DEF IInv, HeaderWaits
      <4>2. 1 + 1 \in DOMAIN todo
        BY <4>1, MovesUp
      <4> QED
        BY <4>1, <4>2 DEF WritesAuto
    <3> QED
      BY <2>1, <3>1
  <2>4. disk'[Header] = disk[Header]
    <3> DEFINE op == todo[1]
    <3>1. /\ op \in Ops /\ disk' = Do(op) /\ disk \in [Files -> Seq(Content)]
          /\ op.op = "keep" => op.file \in Named
          /\ op.op = "put" => op.file \in Targets
      BY Step DEF IInv, TypeOK
    <3>2. op.op \in {"keep", "put", "touch"}
      BY <3>1 DEF Ops
    <3>3. CASE op.op = "keep"
      BY <3>1, <3>3, DoEffect, FileNames
    <3>4. CASE op.op = "put"
      BY <2>3, <3>1, <3>4, DoEffect, FileNames DEF Does
    <3>5. CASE op.op = "touch"
      BY <3>1, <3>5, DoEffect
    <3> QED
      BY <3>2, <3>3, <3>4, <3>5
  <2> QED
    BY <2>1, <2>2, <2>4, AutoChange, AutoStays
<1>3. CASE ~ok
  <2>1. last = "syncconfig" /\ prog = "none" /\ Len(todo) = 1
    BY <1>1, <1>3 DEF WriteFile
  <2>2. WritesAuto(todo)
    BY <2>1 DEF IInv, SyncWrites, WriteFile
  <2>3. Does(todo[1], "put", AutoFile)
    BY <2>1, <2>2, MovesUp DEF WritesAuto
  <2>4. disk'[AutoFile] = <<todo[1].lines>> /\ disk'[Header] = <<todo[1].lines>>
    BY <2>3, AutoChange
  <2>5. <<todo[1].lines>> # <<>>
    OBVIOUS
  <2> QED
    BY <2>1, <2>4, <2>5, AutoStays
<1> QED
  BY <1>2, <1>3

\* The invariant survives a write.
LEMMA WriteKeeps ==
  ASSUME IInv, WriteFile
  PROVE  IInv'
<1>1. SyncWrites'
  <2>1. SUFFICES ASSUME last = "syncconfig", prog = "none", todo' # <<>>
        PROVE  WritesAuto(todo')
    BY DEF SyncWrites, WriteFile
  <2>2. WritesAuto(todo)
    BY <2>1 DEF IInv, SyncWrites, WriteFile
  <2>3. Len(todo) # 1
    <3>1. todo' \in Seq(Ops)
      BY Step DEF TypeOK
    <3> QED
      BY <2>1, <3>1, MovesUp
  <2> QED
    BY <2>2, <2>3, AutoStays
<1> QED
  BY <1>1, Step, StepKeeps, StepHeader, StepAnnounces, StepCompiled, StepMarks DEF IInv


-----------------------------------------------------------------------------
(* The other steps.                                                         *)

\* A plan that keeps to Planned starts out as the invariant has it.
LEMMA PlanKeeps ==
  ASSUME IInv, PlanWrites
  PROVE  IInv'
<1>1. /\ todo = <<>> /\ Planned(todo') /\ ok' \in BOOLEAN
      /\ UNCHANGED <<disk, touched, built, dropped>>
  BY DEF PlanWrites, IInv, TypeOK
<1>2. TypeOK'
  BY <1>1 DEF IInv, TypeOK, Planned
<1>3. /\ Len(todo') \in Nat /\ DOMAIN todo' = 1 .. Len(todo')
  BY <1>1 DEF Planned
<1>4. KeptFirst'
  BY <1>1, <1>3 DEF Planned, Kept, KeptFirst
<1>5. HeaderWaits'
  BY <1>1, <1>3 DEF Planned, AutoLast, HeaderWaits
<1>6. Announced(todo)'
  BY <1>1 DEF Planned, Covered, Announced, WritesAuto
<1>7. Compiled'
  BY <1>1 DEF IInv, Compiled
<1>8. Marked'
  <2>1. SUFFICES ASSUME ok'
        PROVE  disk[AutoFile] # <<>> /\ disk[Header] = disk[AutoFile] /\ ~WritesAuto(todo')
    BY <1>1 DEF Marked, WritesAuto
  <2>2. ok
    BY <2>1 DEF PlanWrites
  <2>3. disk[AutoFile] # <<>> /\ disk[Header] = disk[AutoFile]
    BY <2>2 DEF IInv, Marked
  <2> QED
    BY <2>1, <2>3 DEF PlanWrites
<1>9. SyncWrites'
  BY DEF PlanWrites, SyncWrites, WritesAuto
<1> QED
  BY <1>2, <1>4, <1>5, <1>6, <1>7, <1>8, <1>9 DEF IInv

\* Nothing is left to write.
LEMMA NoPlan ==
  ASSUME todo = <<>>
  PROVE  KeptFirst /\ HeaderWaits /\ ~WritesAuto(todo) /\ SyncWrites /\ Announced(todo)
<1>1. DOMAIN todo = {}
  OBVIOUS
<1> QED
  BY <1>1 DEF KeptFirst, HeaderWaits, WritesAuto, SyncWrites, Announced

\* What was touched by a process that is killed stays touched.
LEMMA KillKeeps ==
  ASSUME IInv, KillProcess
  PROVE  IInv'
<1>1. todo' = <<>> /\ UNCHANGED <<disk, touched, built, ok, dropped>>
  BY DEF KillProcess
<1>2. DOMAIN todo' = {}
  BY <1>1
<1>3. KeptFirst' /\ HeaderWaits' /\ ~WritesAuto(todo') /\ SyncWrites' /\ Announced(todo)'
  BY <1>1, <1>2 DEF KeptFirst, HeaderWaits, WritesAuto, SyncWrites, Announced
<1>4. TypeOK' /\ Compiled' /\ Marked'
  BY <1>1, <1>3 DEF IInv, TypeOK, Compiled, Marked, WritesAuto
<1> QED
  BY <1>3, <1>4 DEF IInv

\* An object is compiled with the header, which says what auto.conf does.
LEMMA BuildKeeps ==
  ASSUME IInv, BuildObjects
  PROVE  IInv'
<1>1. /\ todo = <<>> /\ ok /\ touched' = {}
      /\ UNCHANGED <<disk, todo, prog, ok, last, dropped>>
      /\ built' = [s \in Names |-> IF built = <<>> \/ s \in touched
                                   THEN ValueIn(disk[Header], s) ELSE built[s]]
  BY DEF BuildObjects, Idle
<1>2. KeptFirst' /\ HeaderWaits' /\ SyncWrites' /\ TypeOK' /\ Marked'
  BY <1>1 DEF IInv, TypeOK, KeptFirst, HeaderWaits, SyncWrites, Marked, WritesAuto
<1>3. Announced(todo)'
  BY <1>1, NoPlan DEF Announced, WritesAuto
<1>4. ASSUME NEW s \in Names \ dropped
      PROVE  built'[s] = ValueIn(disk[AutoFile], s)
  <2>1. disk[Header] = disk[AutoFile]
    BY <1>1 DEF IInv, Marked
  <2>2. CASE built = <<>> \/ s \in touched
    BY <1>1, <2>1, <2>2
  <2>3. CASE built # <<>> /\ s \notin touched
    BY <1>1, <2>3 DEF IInv, Compiled
  <2> QED
    BY <2>2, <2>3
<1>5. Compiled'
  BY <1>1, <1>4 DEF Compiled
<1> QED
  BY <1>2, <1>3, <1>5 DEF IInv

\* A Kconfig that is edited takes the mark of a finished syncconfig away.
LEMMA EditKeeps ==
  ASSUME IInv, EditFiles(dropped' \ dropped)
  PROVE  IInv'
<1>1. /\ todo = <<>> /\ ok' = FALSE /\ last' = "edited" /\ dropped \subseteq dropped'
      /\ UNCHANGED <<disk, todo, prog, touched, built>>
  BY DEF EditFiles, Idle
<1>2. KeptFirst' /\ HeaderWaits' /\ SyncWrites' /\ TypeOK' /\ Marked'
  BY <1>1 DEF IInv, TypeOK, KeptFirst, HeaderWaits, SyncWrites, Marked
<1>3. Announced(todo)'
  BY <1>1, NoPlan DEF Announced, WritesAuto
<1>4. Compiled'
  BY <1>1 DEF IInv, Compiled
<1> QED
  BY <1>2, <1>3, <1>4 DEF IInv

\* A tree has the invariant to begin with, and every step keeps it.
LEMMA Started == FilesInit => IInv
<1>1. SUFFICES ASSUME FilesInit PROVE IInv
  OBVIOUS
<1>2. todo = <<>> /\ TypeOK
  <2>1. todo = <<>> /\ ok = FALSE /\ disk \in [Files -> Seq(Content)]
    BY <1>1 DEF FilesInit
  <2>2. <<>> \in Seq(Ops)
    OBVIOUS
  <2> QED
    BY <2>1, <2>2 DEF TypeOK
<1>3. Compiled
  BY <1>1 DEF FilesInit, Compiled
<1>4. Marked
  BY <1>1 DEF FilesInit, Marked
<1> QED
  BY <1>2, <1>3, <1>4, NoPlan DEF IInv

LEMMA StepsKeep == IInv /\ [FilesNext]_files => IInv'
<1>1. ASSUME IInv, UNCHANGED files
      PROVE  IInv'
  BY <1>1 DEF files, IInv, TypeOK, KeptFirst, HeaderWaits, Announced, WritesAuto,
              Compiled, Marked, SyncWrites
<1> QED
  BY <1>1, PlanKeeps, WriteKeeps, KillKeeps, BuildKeeps, EditKeeps DEF FilesNext

LEMMA Invariant == FilesSpec => []IInv
BY Started, StepsKeep, PTL DEF FilesSpec

-----------------------------------------------------------------------------
\* Whatever is planned by any number of runs over any Kconfig, killed at any
\* write and edited in between: after a finished syncconfig every object that
\* make does not compile again was compiled with what autoconf.h says now
\* (confdata.c, conf_touch_deps and conf_write_autoconf).
THEOREM ObjectsRebuilt == FilesSpec => []Rebuilt
<1>1. IInv => Rebuilt
  <2>1. SUFFICES ASSUME IInv, ok, built # <<>>, NEW s \in Names \ dropped, s \notin touched
        PROVE  built[s] = ValueIn(disk[Header], s)
    BY DEF Rebuilt
  <2>2. built[s] = ValueIn(disk[AutoFile], s) /\ disk[Header] = disk[AutoFile]
    BY <2>1 DEF IInv, Compiled, Marked
  <2> QED
    BY <2>2
<1> QED
  BY <1>1, Invariant, PTL

\* No write of any plan and no kill loses a configuration: it is in its file or
\* in its .old, and as long as the file is gone the .old stays (conf_write).
THEOREM NothingIsLost == FilesSpec => NothingLost
<1> DEFINE Safe(f) == IF disk[f] = <<>> THEN disk'[Old(f)] = disk[Old(f)]
                      ELSE \E g \in {f, Old(f)} : disk'[g] = disk[f]
<1>1. ASSUME IInv, [FilesNext]_files, NEW f \in Named
      PROVE  Safe(f)
  <2>1. CASE disk' = disk
    BY <2>1
  <2>2. CASE WriteFile
    <3> DEFINE op == todo[1]
    <3>1. /\ op \in Ops /\ disk' = Do(op) /\ disk \in [Files -> Seq(Content)]
          /\ op.op = "keep" => op.file \in Named
          /\ op.op = "put" => op.file \in Targets
      BY <1>1, <2>2, Step DEF IInv, TypeOK
    <3>2. f \in Files /\ Old(f) \in Files /\ f \in Targets /\ Old(f) \notin Targets
      BY FileNames
    <3>3. CASE op.op = "touch"
      BY <2>1, <3>1, <3>3, DoEffect
    <3>4. CASE op.op = "put"
      <4>1. disk'[Old(f)] = disk[Old(f)]
        BY <3>1, <3>2, <3>4, DoEffect
      <4>2. CASE op.file = f
        <5>1. 1 \in DOMAIN todo
          BY <1>1, <2>2, MovesUp
        <5>2. disk[f] = <<>>
          BY <1>1, <3>4, <4>2, <5>1 DEF IInv, KeptFirst
        <5> QED
          BY <4>1, <5>2
      <4>3. CASE op.file # f
        BY <3>1, <3>2, <3>4, <4>1, <4>3, DoEffect
      <4> QED
        BY <4>2, <4>3
    <3>5. CASE op.op = "keep"
      <4>1. CASE op.file = f
        BY <3>1, <3>5, <4>1, DoEffect
      <4>2. CASE op.file # f
        <5>1. /\ Old(op.file) # Old(f) /\ Old(op.file) # f
              /\ Old(f) # op.file
          BY <3>1, <3>2, <3>5, <4>2, FileNames
        <5> QED
          BY <3>1, <3>2, <3>5, <4>2, <5>1, DoEffect
      <4> QED
        BY <4>1, <4>2
    <3> QED
      BY <3>1, <3>3, <3>4, <3>5 DEF Ops
  <2> QED
    BY <1>1, <2>1, <2>2 DEF FilesNext, PlanWrites, KillProcess, BuildObjects, EditFiles, files
<1>2. IInv /\ [FilesNext]_files => [\A f \in Named : Safe(f)]_files
  BY <1>1
<1> QED
  BY <1>2, Invariant, PTL DEF FilesSpec, NothingLost


-----------------------------------------------------------------------------
(* The writes a run of conf and of menuconfig plan, as conf_write and       *)
(* conf_write_autoconf do them.                                            *)

\* The two halves of a concatenation.
LEMMA Halves ==
  ASSUME NEW S, NEW t \in Seq(S), NEW e \in Seq(S)
  PROVE  /\ t \o e \in Seq(S) /\ Len(t \o e) = Len(t) + Len(e)
         /\ \A j \in 1 .. Len(t) : (t \o e)[j] = t[j]
         /\ \A j \in 1 .. Len(e) : (t \o e)[Len(t) + j] = e[j]
<1>1. \A j \in 1 .. Len(t) + Len(e) :
        (t \o e)[j] = IF j <= Len(t) THEN t[j] ELSE e[j - Len(t)]
  OBVIOUS
<1>2. ASSUME NEW j \in 1 .. Len(e)
      PROVE  (t \o e)[Len(t) + j] = e[j]
  <2>1. /\ Len(t) + j \in 1 .. Len(t) + Len(e)
        /\ ~(Len(t) + j <= Len(t)) /\ (Len(t) + j) - Len(t) = j
    OBVIOUS
  <2> QED
    BY <1>1, <2>1
<1>3. ASSUME NEW j \in 1 .. Len(t)
      PROVE  (t \o e)[j] = t[j]
  <2>1. j \in 1 .. Len(t) + Len(e) /\ j <= Len(t)
    OBVIOUS
  <2> QED
    BY <1>1, <2>1
<1> QED
  BY <1>2, <1>3

\* Where the writes of AutoconfOf are, after those of a plan u.
LEMMA AutoconfAt ==
  ASSUME NEW u \in Seq(Ops), NEW names \in Seq(Names), NEW lines \in Content
  PROVE  LET w == u \o AutoconfOf(names, lines)
             k == Len(u)
             n == Len(names)
         IN /\ w \in Seq(Ops) /\ k \in Nat /\ n \in Nat
            /\ Len(w) = k + n + 2 /\ DOMAIN w = 1 .. k + n + 2
            /\ \A i \in 1 .. k : w[i] = u[i]
            /\ \A i \in 1 .. n : w[k + i] = Op("touch", names[i], <<>>)
            /\ w[k + n + 1] = Op("put", Header, lines)
            /\ w[k + n + 2] = Op("put", AutoFile, lines)
<1> DEFINE t == Touches(names)
           e == <<Op("put", Header, lines), Op("put", AutoFile, lines)>>
<1>1. /\ DOMAIN names = 1 .. Len(names) /\ Len(names) \in Nat
      /\ \A i \in DOMAIN names : names[i] \in Names
  OBVIOUS
<1>2. \A i \in DOMAIN names : Op("touch", names[i], <<>>) \in Ops
  <2>1. <<>> \in Content
    BY DEF Content
  <2> QED
    BY <1>1, <2>1 DEF Op, Ops
<1>3. t \in Seq(Ops) /\ Len(t) = Len(names) /\ DOMAIN t = DOMAIN names
      /\ \A i \in DOMAIN names : t[i] = Op("touch", names[i], <<>>)
  BY <1>1, <1>2 DEF Touches
<1>4. Op("put", Header, lines) \in Ops /\ Op("put", AutoFile, lines) \in Ops
  BY FileNames DEF Op, Ops
<1>5. e \in Seq(Ops) /\ Len(e) = 2 /\ e[1] = Op("put", Header, lines)
      /\ e[2] = Op("put", AutoFile, lines)
  BY <1>4
<1>6. AutoconfOf(names, lines) = t \o e
  BY DEF AutoconfOf
<1> HIDE DEF t, e
<1>7. /\ t \o e \in Seq(Ops) /\ Len(t \o e) = Len(names) + 2
      /\ \A i \in 1 .. Len(names) : (t \o e)[i] = t[i]
      /\ (t \o e)[Len(names) + 1] = e[1] /\ (t \o e)[Len(names) + 2] = e[2]
  <2>1. t \in Seq(Ops) /\ e \in Seq(Ops)
    BY <1>3, <1>5
  <2>2. /\ t \o e \in Seq(Ops) /\ Len(t \o e) = Len(t) + Len(e)
        /\ \A j \in 1 .. Len(t) : (t \o e)[j] = t[j]
        /\ \A j \in 1 .. Len(e) : (t \o e)[Len(t) + j] = e[j]
    BY <2>1, Halves
  <2>3. /\ Len(t) = Len(names) /\ Len(e) = 2
        /\ 1 \in 1 .. Len(e) /\ 2 \in 1 .. Len(e)
    BY <1>3, <1>5
  <2>4. (t \o e)[Len(t) + 1] = e[1] /\ (t \o e)[Len(t) + 2] = e[2]
    BY <2>2, <2>3, Zenon
  <2> QED
    BY <2>2, <2>3, <2>4, Zenon
<1> DEFINE a == t \o e
           w == u \o a
<1> HIDE DEF a
<1>8. /\ w \in Seq(Ops) /\ Len(u) \in Nat /\ Len(w) = Len(u) + Len(names) + 2
      /\ DOMAIN w = 1 .. Len(u) + Len(names) + 2
      /\ \A i \in 1 .. Len(u) : w[i] = u[i]
      /\ \A i \in 1 .. Len(names) + 2 : w[Len(u) + i] = a[i]
  <2>1. a \in Seq(Ops) /\ Len(a) = Len(names) + 2
    BY <1>7 DEF a
  <2> QED
    BY <1>1, <2>1
<1>9. w[Len(u) + Len(names) + 1] = a[Len(names) + 1] /\ w[Len(u) + Len(names) + 2] = a[Len(names) + 2]
  <2>1. Len(names) + 1 \in 1 .. Len(names) + 2 /\ Len(names) + 2 \in 1 .. Len(names) + 2
    BY <1>1
  <2>2. /\ w[Len(u) + (Len(names) + 1)] = a[Len(names) + 1]
        /\ w[Len(u) + (Len(names) + 2)] = a[Len(names) + 2]
    BY <1>8, <2>1
  <2>3. /\ Len(u) + (Len(names) + 1) = Len(u) + Len(names) + 1
        /\ Len(u) + (Len(names) + 2) = Len(u) + Len(names) + 2
    BY <1>1, <1>8
  <2> QED
    BY <2>2, <2>3
<1>10. \A i \in 1 .. Len(names) : w[Len(u) + i] = t[i]
  BY <1>1, <1>7, <1>8 DEF a
<1>11. u \o AutoconfOf(names, lines) = w
  BY <1>6 DEF a
<1> HIDE DEF w
<1> QED
  BY <1>1, <1>3, <1>5, <1>7, <1>8, <1>9, <1>10, <1>11 DEF a

\* What conf_write plans: nothing, or to keep the old file and write the new.
LEMMA UpdateAt ==
  ASSUME NEW f \in Named, NEW lines \in Content
  PROVE  LET u == Update(f, lines)
         IN /\ u \in Seq(Ops) /\ Len(u) \in {0, 2} /\ DOMAIN u = 1 .. Len(u)
            /\ Len(u) = 2 => /\ u[1] = Op("keep", f, <<>>)
                             /\ u[2] = Op("put", f, lines)
<1>1. Op("keep", f, <<>>) \in Ops /\ Op("put", f, lines) \in Ops
  <2>1. f \in Files
    BY FileNames
  <2>2. <<>> \in Content
    BY DEF Content
  <2> QED
    BY <2>1, <2>2 DEF Op, Ops
<1>2. CASE disk[f] = <<lines>>
  BY <1>2 DEF Update
<1>3. CASE disk[f] # <<lines>>
  <2> DEFINE a == Op("keep", f, <<>>)
             b == Op("put", f, lines)
  <2>1. Update(f, lines) = <<a, b>>
    BY <1>3 DEF Update
  <2> HIDE DEF a, b
  <2>2. a \in Ops /\ b \in Ops
    BY <1>1 DEF a, b
  <2>3. <<a, b>> \in Seq(Ops) /\ Len(<<a, b>>) = 2 /\ <<a, b>>[1] = a /\ <<a, b>>[2] = b
    BY <2>2
  <2> QED
    BY <2>1, <2>3 DEF a, b
<1> QED
  BY <1>2, <1>3

\* The plans of conf's main and of menuconfig's save keep to what PlanWrites
\* asks, whatever file is saved to and whatever is in it, if conf_touch_deps
\* names every symbol whose value changes: a file is kept before it is
\* replaced, auto.conf is the last file written and its header the one before.
THEOREM RunsKeepTheirPromise ==
  ASSUME NEW f \in Named, NEW lines \in Content,
         NEW names \in Seq(Names), NEW new \in Content,
         \A s \in Names \ dropped :
           \/ ValueIn(disk[AutoFile], s) = ValueIn(<<new>>, s)
           \/ \E i \in DOMAIN names : names[i] = s
  PROVE  /\ Planned(Update(f, lines))
         /\ Planned(Update(f, lines) \o AutoconfOf(names, new))
         /\ WritesAuto(Update(f, lines) \o AutoconfOf(names, new))
<1> DEFINE u == Update(f, lines)
           k == Len(u)
           n == Len(names)
           w == u \o AutoconfOf(names, new)
<1>1. /\ u \in Seq(Ops) /\ k \in {0, 2} /\ DOMAIN u = 1 .. k
      /\ k = 2 => u[1] = Op("keep", f, <<>>) /\ u[2] = Op("put", f, lines)
  BY UpdateAt
<1> HIDE DEF u
<1>2. /\ w \in Seq(Ops) /\ k \in Nat /\ n \in Nat
      /\ Len(w) = k + n + 2 /\ DOMAIN w = 1 .. k + n + 2
      /\ \A i \in 1 .. k : w[i] = u[i]
      /\ \A i \in 1 .. n : w[k + i] = Op("touch", names[i], <<>>)
      /\ w[k + n + 1] = Op("put", Header, new)
      /\ w[k + n + 2] = Op("put", AutoFile, new)
  BY <1>1, AutoconfAt
<1> HIDE DEF w
<1>3. \A op, g, ls : Op(op, g, ls).op = op /\ Op(op, g, ls).file = g /\ Op(op, g, ls).lines = ls
  BY DEF Op
<1>4. f \in Named /\ f \in Targets /\ f # Header /\ f # AutoFile /\ Header # AutoFile
      /\ Header \in Targets /\ AutoFile \in Targets /\ Header \notin Named /\ AutoFile \notin Named
  BY FileNames
<1>5. Planned(u)
  <2>1. Kept(u)
    BY <1>1, <1>3, <1>4 DEF Kept, Does
  <2>2. \A i \in DOMAIN u : ~Does(u[i], "put", Header) /\ ~Does(u[i], "put", AutoFile)
    BY <1>1, <1>3, <1>4 DEF Does
  <2> QED
    BY <1>1, <2>1, <2>2 DEF Planned, AutoLast, Covered, WritesAuto
<1>6. \A i \in DOMAIN w : \/ k = 2 /\ i = 1 /\ w[i] = Op("keep", f, <<>>)
                          \/ k = 2 /\ i = 2 /\ w[i] = Op("put", f, lines)
                          \/ w[i].op = "touch"
                          \/ i = k + n + 1 /\ w[i] = Op("put", Header, new)
                          \/ i = k + n + 2 /\ w[i] = Op("put", AutoFile, new)
  <2>1. SUFFICES ASSUME NEW i \in 1 .. k + n + 2
        PROVE \/ k = 2 /\ i = 1 /\ w[i] = Op("keep", f, <<>>)
              \/ k = 2 /\ i = 2 /\ w[i] = Op("put", f, lines)
              \/ w[i].op = "touch"
              \/ i = k + n + 1 /\ w[i] = Op("put", Header, new)
              \/ i = k + n + 2 /\ w[i] = Op("put", AutoFile, new)
    BY <1>2
  <2>2. CASE i \in 1 .. k
    <3>1. w[i] = u[i] /\ k = 2 /\ i \in {1, 2}
      BY <1>1, <1>2, <2>2
    <3> QED
      BY <1>1, <3>1
  <2>3. CASE i - k \in 1 .. n
    <3>1. w[k + (i - k)] = Op("touch", names[i - k], <<>>) /\ k + (i - k) = i
      BY <1>2, <2>3
    <3> QED
      BY <1>3, <3>1
  <2>4. CASE i = k + n + 1 \/ i = k + n + 2
    BY <1>2, <2>4
  <2> QED
    BY <1>2, <2>1, <2>2, <2>3, <2>4
<1>7. Kept(w)
  <2>1. k = 2 => w[1] = Op("keep", f, <<>>) /\ w[2] = Op("put", f, lines) /\ 2 < Len(w)
    BY <1>1, <1>2
  <2>2. SUFFICES ASSUME NEW i \in DOMAIN w
        PROVE /\ w[i].op = "keep" => w[i].file \in Named /\ i < Len(w)
                                     /\ Does(w[i + 1], "put", w[i].file)
              /\ w[i].op = "put" => w[i].file \in Targets
              /\ w[i].op = "put" /\ w[i].file \in Named =>
                   i > 1 /\ Does(w[i - 1], "keep", w[i].file)
    BY DEF Kept
  <2>3. CASE k = 2 /\ i = 1 /\ w[i] = Op("keep", f, <<>>)
    BY <1>2, <1>3, <1>4, <2>1, <2>3 DEF Does
  <2>4. CASE k = 2 /\ i = 2 /\ w[i] = Op("put", f, lines)
    BY <1>2, <1>3, <1>4, <2>1, <2>4 DEF Does
  <2>5. CASE w[i].op = "touch"
    BY <2>5
  <2>6. CASE w[i] = Op("put", Header, new) \/ w[i] = Op("put", AutoFile, new)
    BY <1>3, <1>4, <2>6
  <2> QED
    BY <1>6, <2>3, <2>4, <2>5, <2>6
<1>8. AutoLast(w)
  <2>1. SUFFICES ASSUME NEW i \in DOMAIN w
        PROVE /\ Does(w[i], "put", Header) =>
                   /\ i + 1 = Len(w) /\ Does(w[i + 1], "put", AutoFile)
                   /\ w[i].lines = w[i + 1].lines
              /\ Does(w[i], "put", AutoFile) =>
                   i = Len(w) /\ i > 1 /\ Does(w[i - 1], "put", Header)
    BY DEF AutoLast
  <2>2. /\ Does(w[i], "put", Header) => i = k + n + 1
        /\ Does(w[i], "put", AutoFile) => i = k + n + 2
    BY <1>3, <1>4, <1>6 DEF Does
  <2>3. /\ (k + n + 1) + 1 = Len(w) /\ (k + n + 1) + 1 = k + n + 2
        /\ (k + n + 2) - 1 = k + n + 1 /\ k + n + 2 > 1
    BY <1>2
  <2> QED
    BY <1>2, <1>3, <2>2, <2>3 DEF Does
<1>9. Covered(w) /\ WritesAuto(w)
  <2>1. w[Len(w)].lines = new /\ Len(w) \in DOMAIN w /\ Does(w[Len(w)], "put", AutoFile)
    BY <1>2, <1>3 DEF Does
  <2>2. ASSUME NEW s, NEW i \in DOMAIN names, names[i] = s
        PROVE  k + i \in DOMAIN w /\ Does(w[k + i], "touch", s)
    <3>1. i \in 1 .. n
      OBVIOUS
    <3> QED
      BY <1>2, <1>3, <2>2, <3>1 DEF Does
  <2> QED
    BY <2>1, <2>2 DEF Covered, WritesAuto
<1>10. Planned(w)
  BY <1>2, <1>7, <1>8, <1>9 DEF Planned
<1> QED
  BY <1>5, <1>9, <1>10 DEF u, w
=============================================================================
