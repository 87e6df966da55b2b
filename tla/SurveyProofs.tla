---------------------------- MODULE SurveyProofs ----------------------------
(* Proofs about the tools that read what others wrote: the transcript of an *)
(* evaluated session, the scan for a trigger, the surveys of sources and    *)
(* skills, and the merge of configuration layers.  Induction over positions *)
(* is ReaderProofs'.                                                        *)
EXTENDS ReaderProofs, PtyRun, TriggerScan, SkillScan, ConfigLayers

-----------------------------------------------------------------------------
(* The transcript of a session                                              *)

Printed == {"text", "event", "result"}

(* The events of the first lines of a session, one line more at a time.     *)
LEMMA EventsStep ==
    ASSUME NEW lines \in Seq(Printed)
    PROVE  /\ EventsIn(lines, 0) = <<>>
           /\ \A n \in 1 .. Len(lines) :
                EventsIn(lines, n) = IF lines[n] = "text" THEN EventsIn(lines, n - 1)
                                     ELSE Append(EventsIn(lines, n - 1), lines[n])
           /\ \A n \in 0 .. Len(lines) : EventsIn(lines, n) \in Seq(Printed)
<1> DEFINE len == Len(lines)
           none == <<>>
           step(i, k) == IF lines[i] = "text" THEN k ELSE Append(k, lines[i])
           Kept(f) == f = [i \in 0 .. len |->
                             IF i = 0 THEN none
                             ELSE IF lines[i] = "text" THEN f[i - 1] ELSE Append(f[i - 1], lines[i])]
<1>0. none \in Seq(Printed)
  BY EmptySeq
<1>1. len \in Nat /\ \A i \in 1 .. len : lines[i] \in Printed
  BY LenProperties, ElementOfSeq
<1> HIDE DEF none
<1>2. \E f : Kept(f)
  <2> DEFINE g == [p \in (1 .. len) \X Seq(Printed) |-> step(p[1], p[2])]
  <2>1. g \in [(1 .. len) \X Seq(Printed) -> Seq(Printed)]
    <3>1. \A p \in (1 .. len) \X Seq(Printed) : step(p[1], p[2]) \in Seq(Printed)
      BY <1>1
    <3> HIDE DEF step
    <3>2. QED
      BY <3>1
  <2> HIDE DEF g
  <2>2. PICK f \in [0 .. len -> Seq(Printed)] : Steps(f, len, none, g)
    BY <1>0, <1>1, <2>1, Recursion
  <2>3. ASSUME NEW i \in 1 .. len PROVE f[i] = step(i, f[i - 1])
    <3>1. i - 1 \in 0 .. len
      BY <1>1
    <3>2. <<i, f[i - 1]>> \in (1 .. len) \X Seq(Printed)
      BY <3>1
    <3>3. g[<<i, f[i - 1]>>] = step(i, f[i - 1])
      BY <3>2 DEF g
    <3>4. QED
      BY <2>2, <3>3 DEF Steps
  <2>4. f = [i \in 0 .. len |-> f[i]]
    OBVIOUS
  <2>5. \A i \in 0 .. len : i = 0 \/ i \in 1 .. len
    BY <1>1
  <2>6. \A i \in 0 .. len : f[i] = IF i = 0 THEN none
                                   ELSE IF lines[i] = "text" THEN f[i - 1]
                                   ELSE Append(f[i - 1], lines[i])
    BY <2>2, <2>3, <2>5, Zenon DEF Steps
  <2>7. QED
    BY <2>4, <2>6, Zenon
<1>3. PICK kept : Kept(kept) /\ \A n : EventsIn(lines, n) = kept[n]
  <2> DEFINE f == CHOOSE f : Kept(f)
  <2>1. Kept(f)
    BY <1>2, Zenon
  <2>2. \A n : EventsIn(lines, n) = f[n]
    BY Zenon DEF EventsIn, none
  <2> HIDE DEF f
  <2>3. QED
    BY <2>1, <2>2, Zenon
<1>4. \A i \in 0 .. len : kept[i] = IF i = 0 THEN none
                                    ELSE IF lines[i] = "text" THEN kept[i - 1]
                                    ELSE Append(kept[i - 1], lines[i])
  BY <1>3, Zenon
<1>5. 0 \in 0 .. len /\ \A i \in 1 .. len : i \in 0 .. len /\ i # 0
  BY <1>1
<1>6. kept[0] = none /\ \A i \in 1 .. len : kept[i] = step(i, kept[i - 1])
  BY <1>4, <1>5, Zenon
<1>7. \A i \in 0 .. len : kept[i] \in Seq(Printed)
  <2> HIDE DEF Kept
  <2> DEFINE S == {i \in 0 .. len : kept[i] \in Seq(Printed)}
  <2>1. 0 \in S
    BY <1>0, <1>5, <1>6
  <2>2. ASSUME NEW i \in 1 .. len, i - 1 \in S PROVE i \in S
    <3>1. kept[i - 1] \in Seq(Printed)
      BY <2>2
    <3>2. kept[i] = step(i, kept[i - 1]) /\ lines[i] \in Printed
      BY <1>1, <1>6, Zenon
    <3>3. Append(kept[i - 1], lines[i]) \in Seq(Printed)
      BY <3>1, <3>2, AppendProperties
    <3>4. kept[i] \in Seq(Printed)
      BY <3>1, <3>2, <3>3, Zenon
    <3>5. QED
      BY <1>5, <3>4
  <2> HIDE DEF S
  <2>3. 0 .. len \subseteq S
    BY <1>1, <2>1, <2>2, Induct
  <2>4. QED
    BY <2>3 DEF S
<1>8. QED
  BY <1>3, <1>6, <1>7, Zenon DEF none

(* A line that is added changes nothing of the events before it.            *)
LEMMA EventsPrefix ==
    ASSUME NEW lines \in Seq(Printed), NEW l \in Printed, NEW n \in 0 .. Len(lines)
    PROVE  EventsIn(Append(lines, l), n) = EventsIn(lines, n)
<1> DEFINE more == Append(lines, l)
           S == {i \in 0 .. Len(lines) : EventsIn(more, i) = EventsIn(lines, i)}
<1>1. /\ Len(lines) \in Nat /\ more \in Seq(Printed) /\ Len(more) = Len(lines) + 1
      /\ \A i \in 1 .. Len(lines) : more[i] = lines[i]
  BY LenProperties
<1> HIDE DEF more
<1>2. 0 \in S
  BY <1>1, EventsStep
<1>3. ASSUME NEW i \in 1 .. Len(lines), i - 1 \in S PROVE i \in S
  <2>1. i \in 1 .. Len(more) /\ i \in 0 .. Len(lines) /\ more[i] = lines[i]
    BY <1>1
  <2>2. EventsIn(more, i) = IF more[i] = "text" THEN EventsIn(more, i - 1)
                            ELSE Append(EventsIn(more, i - 1), more[i])
    BY <1>1, <2>1, EventsStep, Zenon
  <2>3. EventsIn(lines, i) = IF lines[i] = "text" THEN EventsIn(lines, i - 1)
                            ELSE Append(EventsIn(lines, i - 1), lines[i])
    BY EventsStep, Zenon
  <2>4. EventsIn(more, i - 1) = EventsIn(lines, i - 1)
    BY <1>3
  <2>5. EventsIn(more, i) = EventsIn(lines, i)
    BY <2>1, <2>2, <2>3, <2>4, Zenon
  <2>6. QED
    BY <2>1, <2>5
<1> HIDE DEF S
<1>4. 0 .. Len(lines) \subseteq S
  BY <1>1, <1>2, <1>3, Induct
<1>5. QED
  BY <1>4 DEF S, more

Pieces == Printed \cup {"newline"}
Halves == Pieces \cup {""}   \* what the runner may keep aside
RunnerStates == [pc : {"loop", "stop", "write", "done"}, kept : Seq(Printed), half : Halves,
                 doneAt : Nat, clock : Nat, file : Seq(Printed)]

\* What the terminal holds when k whole lines of p, and h more beginnings of
\* one, were taken from it, and o newlines are still to come.
WireOf(p, o, w, k, h) ==
    /\ k \in Nat /\ h \in {0, 1} /\ k + h <= Len(p)
    /\ Len(w) = 2 * Len(p) - o - 2 * k - h
    /\ \A j \in k + 1 .. Len(p) :
         /\ 2 * (j - k) - 1 - h >= 1 => w[2 * (j - k) - 1 - h] = p[j]
         /\ 2 * (j - k) - h <= Len(w) => w[2 * (j - k) - h] = "newline"

\* What the runner made of those lines.
TakenOf(p, r, k, h) ==
    /\ h = 0 => r.half = ""
    /\ h = 1 => r.half = p[k + 1]
    /\ r.kept = EventsIn(p, k)

PtyTypes ==
    /\ claude \in [state : {"running", "exited", "stopped"}, prompted : BOOLEAN,
                   printed : Seq(Printed), open : BOOLEAN]
    /\ wire \in Seq(Pieces)
    /\ runner \in RunnerStates

Unended == IF claude.open THEN 1 ELSE 0

\* The lines of the session are, in this order, those the runner has taken,
\* the one it is at, and those in the terminal.
PtyInv ==
    /\ PtyTypes
    /\ \E k \in Nat, h \in {0, 1} : WireOf(claude.printed, Unended, wire, k, h)
                                     /\ TakenOf(claude.printed, runner, k, h)
    /\ runner.pc = "done" => runner.file = runner.kept

(* A line that begins goes to the end of the terminal.                      *)
LEMMA WirePrints ==
    ASSUME NEW p \in Seq(Printed), NEW l \in Printed, NEW w \in Seq(Pieces),
           NEW k, NEW h, WireOf(p, 0, w, k, h)
    PROVE  WireOf(Append(p, l), 1, Append(w, l), k, h)
<1> DEFINE q == Append(p, l)
           v == Append(w, l)
<1>1. /\ Len(q) = Len(p) + 1 /\ Len(p) \in Nat /\ q[Len(p) + 1] = l
      /\ \A i \in 1 .. Len(p) : q[i] = p[i]
  BY AppendProperties, LenProperties
<1>2. /\ Len(v) = Len(w) + 1 /\ Len(w) \in Nat /\ v[Len(w) + 1] = l
      /\ \A i \in 1 .. Len(w) : v[i] = w[i]
  <2>1. l \in Pieces
    BY DEF Pieces
  <2>2. QED
    BY <2>1, AppendProperties, LenProperties
<1> HIDE DEF q, v
<1>3. k \in Nat /\ h \in {0, 1} /\ k + h <= Len(p) /\ Len(w) = 2 * Len(p) - 2 * k - h
  BY <1>1, <1>2 DEF WireOf
<1>4. ASSUME NEW j \in k + 1 .. Len(q)
      PROVE  /\ 2 * (j - k) - 1 - h >= 1 => v[2 * (j - k) - 1 - h] = q[j]
             /\ 2 * (j - k) - h <= Len(v) => v[2 * (j - k) - h] = "newline"
  <2>1. CASE j = Len(p) + 1
    <3>1. 2 * (j - k) - 1 - h = Len(w) + 1
      BY <1>1, <1>3, <2>1
    <3>2. ~(2 * (j - k) - h <= Len(v))
      BY <1>1, <1>2, <1>3, <2>1
    <3>3. QED
      BY <1>1, <1>2, <2>1, <3>1, <3>2, Zenon
  <2>2. CASE j # Len(p) + 1
    <3>1. j \in k + 1 .. Len(p) /\ j \in 1 .. Len(p)
      BY <1>1, <1>3, <2>2
    <3>2. /\ 2 * (j - k) - 1 - h >= 1 => 2 * (j - k) - 1 - h \in 1 .. Len(w)
          /\ 2 * (j - k) - h \in 1 .. Len(w)
      BY <1>1, <1>3, <3>1
    <3>3. 2 * (j - k) - h <= Len(w)
      BY <1>2, <3>2
    <3>4. QED
      BY <1>1, <1>2, <3>1, <3>2, <3>3, Zenon DEF WireOf
  <2>3. QED
    BY <2>1, <2>2
<1>5. Len(v) = 2 * Len(q) - 1 - 2 * k - h /\ k + h <= Len(q)
  BY <1>1, <1>2, <1>3
<1>6. QED
  BY <1>3, <1>4, <1>5, Zenon DEF WireOf, q, v

(* So does the newline of the line that is open.                            *)
LEMMA WireEnds ==
    ASSUME NEW p \in Seq(Printed), NEW w \in Seq(Pieces),
           NEW k, NEW h, WireOf(p, 1, w, k, h)
    PROVE  WireOf(p, 0, Append(w, "newline"), k, h)
<1> DEFINE v == Append(w, "newline")
<1>1. Len(p) \in Nat
  BY LenProperties
<1>2. /\ Len(v) = Len(w) + 1 /\ Len(w) \in Nat /\ v[Len(w) + 1] = "newline"
      /\ \A i \in 1 .. Len(w) : v[i] = w[i]
  <2>1. "newline" \in Pieces
    BY DEF Pieces
  <2>2. QED
    BY <2>1, AppendProperties, LenProperties
<1> HIDE DEF v
<1>3. k \in Nat /\ h \in {0, 1} /\ k + h <= Len(p) /\ Len(w) = 2 * Len(p) - 1 - 2 * k - h
  BY <1>1, <1>2 DEF WireOf
<1>4. ASSUME NEW j \in k + 1 .. Len(p)
      PROVE  /\ 2 * (j - k) - 1 - h >= 1 => v[2 * (j - k) - 1 - h] = p[j]
             /\ 2 * (j - k) - h <= Len(v) => v[2 * (j - k) - h] = "newline"
  <2>1. 2 * (j - k) - 1 - h >= 1 => 2 * (j - k) - 1 - h \in 1 .. Len(w)
    BY <1>1, <1>3
  <2>2. CASE j = Len(p)
    <3>1. 2 * (j - k) - h = Len(w) + 1
      BY <1>1, <1>3, <2>2
    <3>2. QED
      BY <1>2, <2>1, <3>1, Zenon DEF WireOf
  <2>3. CASE j # Len(p)
    <3>1. 2 * (j - k) - h \in 1 .. Len(w) /\ 2 * (j - k) - h <= Len(w)
      BY <1>1, <1>3, <2>3
    <3>2. QED
      BY <1>2, <2>1, <3>1, Zenon DEF WireOf
  <2>4. QED
    BY <2>2, <2>3
<1>5. Len(v) = 2 * Len(p) - 0 - 2 * k - h
  BY <1>1, <1>2, <1>3
<1>6. QED
  BY <1>3, <1>4, <1>5, Zenon DEF WireOf, v

(* The piece at the head of the terminal is the one that comes next, and    *)
(* the runner takes it for what it is.                                      *)
LEMMA WireTakes ==
    ASSUME NEW p \in Seq(Printed), NEW w \in Seq(Pieces), NEW o \in {0, 1},
           NEW k, NEW h, WireOf(p, o, w, k, h), Len(w) > 0, w # <<>>
    PROVE  \/ /\ h = 0 /\ Head(w) = p[k + 1] /\ k + 1 \in 1 .. Len(p)
              /\ WireOf(p, o, Tail(w), k, 1)
           \/ /\ h = 1 /\ Head(w) = "newline" /\ k + 1 \in 1 .. Len(p)
              /\ WireOf(p, o, Tail(w), k + 1, 0)
<1> DEFINE v == Tail(w)
<1>1. Len(p) \in Nat
  BY LenProperties
<1>2. /\ Len(v) = Len(w) - 1 /\ Len(w) \in Nat /\ Head(w) = w[1]
      /\ \A i \in 1 .. Len(v) : v[i] = w[i + 1]
  BY HeadTailProperties, LenProperties
<1> HIDE DEF v
<1>3. k \in Nat /\ h \in {0, 1} /\ k + h <= Len(p) /\ Len(w) = 2 * Len(p) - o - 2 * k - h
  BY <1>1, <1>2 DEF WireOf
<1>4. k + 1 \in k + 1 .. Len(p) /\ k + 1 \in 1 .. Len(p)
  BY <1>1, <1>2, <1>3
<1>5. CASE h = 0
  <2>1. 2 * ((k + 1) - k) - 1 - h = 1 /\ 2 * ((k + 1) - k) - 1 - h >= 1
    BY <1>3, <1>5
  <2>2. w[1] = p[k + 1]
    BY <1>4, <2>1, Zenon DEF WireOf
  <2>3. ASSUME NEW j \in k + 1 .. Len(p)
        PROVE  /\ 2 * (j - k) - 1 - 1 >= 1 => v[2 * (j - k) - 1 - 1] = p[j]
               /\ 2 * (j - k) - 1 <= Len(v) => v[2 * (j - k) - 1] = "newline"
    <3>1. 2 * (j - k) - 1 - 1 >= 1 =>
            /\ 2 * (j - k) - 1 - 1 \in 1 .. Len(v)
            /\ (2 * (j - k) - 1 - 1) + 1 = 2 * (j - k) - 1 - h
            /\ 2 * (j - k) - 1 - h >= 1
      BY <1>1, <1>2, <1>3, <1>5
    <3>2. 2 * (j - k) - 1 <= Len(v) =>
            /\ 2 * (j - k) - 1 \in 1 .. Len(v)
            /\ (2 * (j - k) - 1) + 1 = 2 * (j - k) - h
            /\ 2 * (j - k) - h <= Len(w)
      BY <1>1, <1>2, <1>3, <1>5
    <3>3. QED
      BY <1>2, <3>1, <3>2, Zenon DEF WireOf
  <2>4. Len(v) = 2 * Len(p) - o - 2 * k - 1 /\ k + 1 <= Len(p)
    BY <1>1, <1>2, <1>3, <1>4, <1>5
  <2>5. 1 \in {0, 1}
    OBVIOUS
  <2>6. WireOf(p, o, v, k, 1)
    BY <1>3, <2>3, <2>4, <2>5, Zenon DEF WireOf
  <2>7. QED
    BY <1>2, <1>4, <1>5, <2>2, <2>6, Zenon DEF v
<1>6. CASE h = 1
  <2>1. 2 * ((k + 1) - k) - h = 1 /\ 2 * ((k + 1) - k) - h <= Len(w)
    BY <1>2, <1>3, <1>6
  <2>2. w[1] = "newline"
    BY <1>4, <2>1, Zenon DEF WireOf
  <2>3. ASSUME NEW j \in (k + 1) + 1 .. Len(p)
        PROVE  /\ 2 * (j - (k + 1)) - 1 - 0 >= 1 => v[2 * (j - (k + 1)) - 1 - 0] = p[j]
               /\ 2 * (j - (k + 1)) - 0 <= Len(v) => v[2 * (j - (k + 1)) - 0] = "newline"
    <3>1. /\ j \in k + 1 .. Len(p)
          /\ 2 * (j - (k + 1)) - 1 - 0 \in 1 .. Len(v)
          /\ (2 * (j - (k + 1)) - 1 - 0) + 1 = 2 * (j - k) - 1 - h
          /\ 2 * (j - k) - 1 - h >= 1
      BY <1>1, <1>2, <1>3, <1>6
    <3>2. 2 * (j - (k + 1)) - 0 <= Len(v) =>
            /\ 2 * (j - (k + 1)) - 0 \in 1 .. Len(v)
            /\ (2 * (j - (k + 1)) - 0) + 1 = 2 * (j - k) - h
            /\ 2 * (j - k) - h <= Len(w)
      BY <1>1, <1>2, <1>3, <1>6
    <3>3. QED
      BY <1>2, <3>1, <3>2, ZenonT(60) DEF WireOf
  <2>4. Len(v) = 2 * Len(p) - o - 2 * (k + 1) - 0 /\ (k + 1) + 0 <= Len(p) /\ k + 1 \in Nat
    BY <1>1, <1>2, <1>3, <1>4, <1>6
  <2>5. 0 \in {0, 1}
    OBVIOUS
  <2>6. WireOf(p, o, v, k + 1, 0)
    BY <2>3, <2>4, <2>5, Zenon DEF WireOf
  <2>7. QED
    BY <1>2, <1>4, <1>6, <2>2, <2>6, Zenon DEF v
<1>7. QED
  BY <1>3, <1>5, <1>6

(* The runner has taken k lines: the next beginning of a line is kept aside *)
(* and the newline after it makes it an event of the transcript, or not.    *)
LEMMA TakenNext ==
    ASSUME NEW p \in Seq(Printed), NEW r \in RunnerStates, NEW k \in Nat, k + 1 \in 1 .. Len(p),
           NEW x
    PROVE  /\ TakenOf(p, r, k, 0) /\ x = p[k + 1] => TakenOf(p, TakePiece(r, x), k, 1)
           /\ TakenOf(p, r, k, 1) /\ x = "newline" => TakenOf(p, TakePiece(r, x), k + 1, 0)
<1>1. p[k + 1] \in Printed
  BY ElementOfSeq
<1>2. 0 # 1 /\ (k + 1) - 1 = k
  BY SMT
<1>3. ASSUME TakenOf(p, r, k, 0), x = p[k + 1] PROVE TakenOf(p, TakePiece(r, x), k, 1)
  <2>1. x # "newline"
    BY <1>1, <1>3 DEF Printed
  <2>2. TakePiece(r, x) = [r EXCEPT !.half = x]
    BY <2>1, Zenon DEF TakePiece
  <2> DEFINE q == [r EXCEPT !.half = x]
  <2>3. q.half = x /\ q.kept = r.kept
    OBVIOUS
  <2>4. QED
    BY <1>2, <1>3, <2>2, <2>3, Zenon DEF TakenOf
<1>4. ASSUME TakenOf(p, r, k, 1), x = "newline" PROVE TakenOf(p, TakePiece(r, x), k + 1, 0)
  <2> DEFINE e == r.half
             q == TakePiece(r, x)
             blank == ""
  <2>1. e = p[k + 1] /\ r.kept = EventsIn(p, k)
    BY <1>4 DEF TakenOf
  <2>2. EventsIn(p, k + 1) = IF p[k + 1] = "text" THEN EventsIn(p, (k + 1) - 1)
                             ELSE Append(EventsIn(p, (k + 1) - 1), p[k + 1])
    BY EventsStep, Zenon
  <2>3. CASE e \in {"event", "result"}
    <3> DEFINE d == IF e = "result" /\ r.doneAt = NotDone THEN r.clock ELSE r.doneAt
    <3>1. q = [r EXCEPT !.half = blank, !.kept = Append(r.kept, e), !.doneAt = d]
      BY <1>4, <2>3, Zenon DEF TakePiece
    <3> HIDE DEF d, q, blank
    <3>2. q.half = blank /\ q.kept = Append(r.kept, e)
      BY <3>1
    <3>3. p[k + 1] # "text"
      BY <2>1, <2>3
    <3>4. q.kept = EventsIn(p, k + 1)
      BY <1>2, <2>1, <2>2, <3>2, <3>3, Zenon
    <3>5. QED
      BY <1>2, <3>2, <3>4, Zenon DEF TakenOf, q, blank
  <2>4. CASE e \notin {"event", "result"}
    <3>1. q = [r EXCEPT !.half = blank]
      BY <1>4, <2>4, Zenon DEF TakePiece
    <3> HIDE DEF q, blank
    <3>2. q.half = blank /\ q.kept = r.kept
      BY <3>1
    <3>3. p[k + 1] = "text"
      BY <1>1, <2>1, <2>4 DEF Printed
    <3>4. q.kept = EventsIn(p, k + 1)
      BY <1>2, <2>1, <2>2, <3>2, <3>3, Zenon
    <3>5. QED
      BY <1>2, <3>2, <3>4, Zenon DEF TakenOf, q, blank
  <2>5. QED
    BY <2>3, <2>4
<1>5. QED
  BY <1>3, <1>4

(* A piece leaves the runner with the fields it has.                        *)
LEMMA TakenTypes ==
    ASSUME NEW x \in Pieces, NEW r \in RunnerStates
    PROVE  TakePiece(r, x) \in RunnerStates /\ TakePiece(r, x).pc = r.pc
<1> DEFINE e == r.half
           blank == ""
           q == TakePiece(r, x)
<1>1. x \in Halves /\ blank \in Halves
  BY Zenon DEF Halves
<1>2. CASE x # "newline"
  <2>1. q = [r EXCEPT !.half = x]
    BY <1>2, Zenon DEF TakePiece
  <2> HIDE DEF q
  <2>2. QED
    BY <1>1, <2>1 DEF RunnerStates, q
<1>3. CASE x = "newline" /\ e \in {"event", "result"}
  <2> DEFINE d == IF e = "result" /\ r.doneAt = NotDone THEN r.clock ELSE r.doneAt
             more == Append(r.kept, e)
  <2>1. q = [r EXCEPT !.half = blank, !.kept = more, !.doneAt = d]
    BY <1>3, Zenon DEF TakePiece
  <2>2. more \in Seq(Printed) /\ d \in Nat
    <3>1. r.kept \in Seq(Printed) /\ r.doneAt \in Nat /\ r.clock \in Nat
      BY DEF RunnerStates
    <3>2. QED
      BY <1>3, <3>1, AppendProperties, Zenon DEF Printed
  <2> HIDE DEF d, q, more, blank
  <2>3. QED
    BY <1>1, <2>1, <2>2 DEF RunnerStates, q
<1>4. CASE x = "newline" /\ e \notin {"event", "result"}
  <2>1. q = [r EXCEPT !.half = blank]
    BY <1>4, Zenon DEF TakePiece
  <2> HIDE DEF q, blank
  <2>2. QED
    BY <1>1, <2>1 DEF RunnerStates, q
<1>5. QED
  BY <1>2, <1>3, <1>4

(* A tick of the clock leaves everything else.                              *)
LEMMA TickKeeps ==
    ASSUME NEW r \in RunnerStates
    PROVE  /\ Tick(r) \in RunnerStates
           /\ Tick(r).kept = r.kept /\ Tick(r).half = r.half
           /\ Tick(r).pc = r.pc /\ Tick(r).file = r.file
<1> DEFINE t == IF r.clock <= PtyTimeout THEN r.clock + 1 ELSE r.clock
<1>1. r.clock \in Nat
  BY DEF RunnerStates
<1>2. t \in Nat
  BY <1>1, SMT
<1>3. Tick(r) = [r EXCEPT !.clock = t]
  BY Zenon DEF Tick
<1> HIDE DEF t
<1>4. QED
  BY <1>2, <1>3 DEF RunnerStates

(* Every step keeps the lines of the session in order.                      *)
LEMMA PtyKept == PtyInv /\ [PtyNext]_ptyVars => PtyInv'
<1> SUFFICES ASSUME PtyInv, [PtyNext]_ptyVars PROVE PtyInv'
  OBVIOUS
<1> USE DEF PtyInv
<1>1. PICK k \in Nat, h \in {0, 1} : /\ WireOf(claude.printed, Unended, wire, k, h)
                                    /\ TakenOf(claude.printed, runner, k, h)
  OBVIOUS
<1>2. claude.printed \in Seq(Printed) /\ wire \in Seq(Pieces)
  BY DEF PtyTypes
<1>3. k \in 0 .. Len(claude.printed) /\ (h = 1 => k + 1 \in 1 .. Len(claude.printed))
  BY <1>1, <1>2, LenProperties DEF WireOf
<1>4. CASE ClaudePrints
  <2>1. PICK l \in Printed : /\ claude' = [claude EXCEPT !.printed = Append(@, l), !.open = TRUE]
                             /\ wire' = Append(wire, l)
    BY <1>4 DEF ClaudePrints, Printed
  <2>2. runner' = runner /\ Unended = 0
    BY <1>4, Zenon DEF ClaudePrints, Unended
  <2> DEFINE more == Append(claude.printed, l)
             longer == Append(wire, l)
  <2>3. /\ more \in Seq(Printed) /\ longer \in Seq(Pieces)
        /\ \A i \in 1 .. Len(claude.printed) : more[i] = claude.printed[i]
    BY <1>2, AppendProperties DEF Pieces
  <2>4. WireOf(more, 1, longer, k, h)
    BY <1>1, <1>2, <2>2, WirePrints
  <2>5. EventsIn(more, k) = EventsIn(claude.printed, k)
    BY <1>2, <1>3, EventsPrefix
  <2>6. TakenOf(more, runner, k, h)
    BY <1>1, <1>3, <2>3, <2>5, Zenon DEF TakenOf
  <2> HIDE DEF more, longer
  <2>7. claude'.printed = more /\ claude'.open = TRUE /\ wire' = longer
    BY <2>1 DEF PtyTypes, more, longer
  <2>8. PtyTypes'
    <3>1. claude' = [claude EXCEPT !.printed = more, !.open = TRUE]
      BY <2>1 DEF more
    <3>2. QED
      BY <2>2, <2>3, <2>7, <3>1 DEF PtyTypes
  <2>9. Unended' = 1
    BY <2>7, Zenon DEF Unended
  <2>10. QED
    BY <2>2, <2>4, <2>6, <2>7, <2>8, <2>9, Zenon
<1>5. CASE ClaudeEndsLine
  <2>1. /\ claude' = [claude EXCEPT !.open = FALSE]
        /\ wire' = Append(wire, "newline") /\ runner' = runner
    BY <1>5, Zenon DEF ClaudeEndsLine
  <2>2. Unended = 1
    BY <1>5, Zenon DEF Unended, ClaudeEndsLine
  <2> DEFINE longer == Append(wire, "newline")
  <2>3. longer \in Seq(Pieces)
    BY <1>2, AppendProperties DEF Pieces
  <2>4. WireOf(claude.printed, 0, longer, k, h)
    BY <1>1, <1>2, <2>2, WireEnds
  <2> HIDE DEF longer
  <2>5. claude'.printed = claude.printed /\ claude'.open = FALSE /\ wire' = longer
    BY <2>1 DEF PtyTypes, longer
  <2>6. PtyTypes'
    BY <2>1, <2>3, <2>5 DEF PtyTypes
  <2>7. Unended' = 0
    BY <2>5, Zenon DEF Unended
  <2>8. QED
    BY <1>1, <2>1, <2>4, <2>5, <2>6, <2>7, Zenon
<1>6. ASSUME wire' = wire, claude'.printed = claude.printed, claude'.open = claude.open,
             runner'.kept = runner.kept, runner'.half = runner.half,
             runner'.pc = "done" => runner'.file = runner.kept, PtyTypes'
      PROVE  PtyInv'
  <2>1. Unended' = Unended
    BY <1>6, Zenon DEF Unended
  <2>2. TakenOf(claude.printed, runner', k, h)
    BY <1>1, <1>6, Zenon DEF TakenOf
  <2>3. QED
    BY <1>1, <1>6, <2>1, <2>2, Zenon
<1>7. CASE ClaudeExits \/ Silence
  <2>1. /\ wire' = wire
        /\ \/ runner' = runner /\ claude' = [claude EXCEPT !.state = "exited"]
           \/ /\ runner' = Tick(runner) /\ runner.pc = "loop"
              /\ claude' = [claude EXCEPT !.prompted = @ \/ runner.clock >= InitWait]
    BY <1>7 DEF ClaudeExits, Silence, Going
  <2>2. claude'.printed = claude.printed /\ claude'.open = claude.open
    BY <2>1 DEF PtyTypes
  <2>3. /\ runner' \in RunnerStates
        /\ runner'.kept = runner.kept /\ runner'.half = runner.half
        /\ runner'.pc = runner.pc /\ runner'.file = runner.file
    BY <2>1, TickKeeps, Zenon DEF PtyTypes
  <2>4. claude' \in [state : {"running", "exited", "stopped"}, prompted : BOOLEAN,
                     printed : Seq(Printed), open : BOOLEAN]
    BY <2>1 DEF PtyTypes
  <2>5. PtyTypes'
    BY <2>1, <2>3, <2>4 DEF PtyTypes
  <2>6. QED
    BY <1>6, <2>1, <2>2, <2>3, <2>5, Zenon
<1>8. CASE ReadPiece
  <2>1. claude' = claude /\ wire # <<>> /\ wire' = Tail(wire) /\ runner.pc = "loop"
    BY <1>8, Zenon DEF ReadPiece, Going
  <2>2. PICK r \in {runner, Tick(runner)} : runner' = TakePiece(r, Head(wire))
    BY <1>8 DEF ReadPiece
  <2>3. /\ r \in RunnerStates
        /\ r.kept = runner.kept /\ r.half = runner.half /\ r.pc = "loop"
    BY <2>1, <2>2, TickKeeps, Zenon DEF PtyTypes
  <2>4. Len(wire) > 0 /\ Head(wire) \in Pieces /\ Tail(wire) \in Seq(Pieces)
    BY <1>2, <2>1, HeadTailProperties, LenProperties, EmptySeq
  <2>5. TakenOf(claude.printed, r, k, h)
    BY <1>1, <2>3, Zenon DEF TakenOf
  <2>6. Unended \in {0, 1}
    BY DEF Unended
  <2>7. PtyTypes' /\ runner'.pc = "loop"
    BY <2>1, <2>2, <2>3, <2>4, TakenTypes DEF PtyTypes
  <2>8. Unended' = Unended
    BY <2>1, Zenon DEF Unended
  <2>9. \/ /\ h = 0 /\ Head(wire) = claude.printed[k + 1] /\ k + 1 \in 1 .. Len(claude.printed)
           /\ WireOf(claude.printed, Unended, Tail(wire), k, 1)
        \/ /\ h = 1 /\ Head(wire) = "newline" /\ k + 1 \in 1 .. Len(claude.printed)
           /\ WireOf(claude.printed, Unended, Tail(wire), k + 1, 0)
    BY <1>1, <1>2, <2>1, <2>4, <2>6, WireTakes, Zenon
  <2>10. "loop" # "done" /\ 0 \in {0, 1} /\ 1 \in {0, 1} /\ k + 1 \in Nat
    OBVIOUS
  <2>11. CASE h = 0
    <3>1. /\ Head(wire) = claude.printed[k + 1] /\ k + 1 \in 1 .. Len(claude.printed)
          /\ WireOf(claude.printed, Unended, Tail(wire), k, 1)
      BY <2>9, <2>11
    <3>2. TakenOf(claude.printed, runner', k, 1)
      BY <1>2, <2>2, <2>3, <2>5, <2>11, <3>1, TakenNext
    <3>3. QED
      BY <2>1, <2>7, <2>8, <2>10, <3>1, <3>2, Zenon
  <2>12. CASE h = 1
    <3>1. /\ Head(wire) = "newline" /\ k + 1 \in 1 .. Len(claude.printed)
          /\ WireOf(claude.printed, Unended, Tail(wire), k + 1, 0)
      BY <2>9, <2>12
    <3>2. TakenOf(claude.printed, runner', k + 1, 0)
      BY <1>2, <2>2, <2>3, <2>5, <2>12, <3>1, TakenNext
    <3>3. QED
      BY <2>1, <2>7, <2>8, <2>10, <3>1, <3>2, Zenon
  <2>13. QED
    BY <2>11, <2>12
<1>9. CASE PtyLeaves \/ StopClaude \/ WriteTranscript
  <2>1. /\ wire' = wire /\ claude'.printed = claude.printed /\ claude'.open = claude.open
        /\ claude' \in [state : {"running", "exited", "stopped"}, prompted : BOOLEAN,
                        printed : Seq(Printed), open : BOOLEAN]
    BY <1>9 DEF PtyLeaves, StopClaude, WriteTranscript, PtyTypes
  <2>2. /\ runner' \in RunnerStates
        /\ runner'.kept = runner.kept /\ runner'.half = runner.half
        /\ runner'.pc = "done" => runner'.file = runner.kept
    <3>1. runner \in RunnerStates
      BY DEF PtyTypes
    <3>2. QED
      BY <1>9, <3>1 DEF PtyLeaves, StopClaude, WriteTranscript, RunnerStates
  <2>3. PtyTypes'
    BY <2>1, <2>2 DEF PtyTypes
  <2>4. QED
    BY <1>6, <2>1, <2>2, <2>3, Zenon
<1>10. CASE UNCHANGED ptyVars
  BY <1>6, <1>10 DEF ptyVars, PtyTypes
<1>11. QED
  BY <1>4, <1>5, <1>7, <1>8, <1>9, <1>10 DEF PtyNext, RunnerStep

(* What lies written is the events of a first part of the session, and all  *)
(* of them once the terminal is empty.                                      *)
THEOREM TranscriptCorrect == PtySpec => []TranscriptIsPrinted
<1>1. PtyInit => PtyInv
  <2> SUFFICES ASSUME PtyInit PROVE PtyInv
    OBVIOUS
  <2> DEFINE none == <<>>
  <2>1. none \in Seq(Printed) /\ none \in Seq(Pieces) /\ Len(none) = 0
    BY EmptySeq
  <2>2. /\ claude = [state |-> "running", prompted |-> FALSE, printed |-> none, open |-> FALSE]
        /\ wire = none
        /\ runner = [pc |-> "loop", kept |-> none, half |-> "", doneAt |-> NotDone, clock |-> 0,
                     file |-> none]
    BY Zenon DEF PtyInit
  <2>3. EventsIn(none, 0) = none
    BY <2>1, EventsStep
  <2> HIDE DEF none
  <2>4. NotDone \in Nat
    BY PtyAssumption DEF NotDone
  <2>5. PtyTypes
    <3> DEFINE blank == ""
    <3>1. blank \in Halves
      BY Zenon DEF Halves
    <3>2. runner = [pc |-> "loop", kept |-> none, half |-> blank, doneAt |-> NotDone, clock |-> 0,
                    file |-> none]
      BY <2>2
    <3> HIDE DEF blank
    <3>3. runner \in RunnerStates
      BY <2>1, <2>4, <3>1, <3>2 DEF RunnerStates
    <3>4. QED
      BY <2>1, <2>2, <3>3, Zenon DEF PtyTypes
  <2>6. claude.printed = none /\ runner.half = "" /\ runner.kept = none /\ claude.open = FALSE
    BY <2>2
  <2>7. Unended = 0 /\ runner.pc # "done"
    BY <2>2 DEF Unended
  <2>8. WireOf(none, 0, none, 0, 0)
    BY <2>1 DEF WireOf
  <2>9. 0 \in Nat /\ 0 \in {0, 1} /\ 0 # 1
    OBVIOUS
  <2>10. TakenOf(none, runner, 0, 0)
    BY <2>3, <2>6, <2>9, Zenon DEF TakenOf
  <2>11. QED
    BY <2>2, <2>5, <2>6, <2>7, <2>8, <2>9, <2>10, Zenon DEF PtyInv
<1>2. PtyInv => TranscriptIsPrinted
  <2> SUFFICES ASSUME PtyInv, runner.pc = "done"
               PROVE  /\ \E n \in 0 .. Len(claude.printed) : runner.file = Events(n)
                      /\ claude.state = "exited" /\ wire = <<>> =>
                           runner.file = Events(IF claude.open THEN Len(claude.printed) - 1
                                                ELSE Len(claude.printed))
    BY Zenon DEF TranscriptIsPrinted
  <2>1. PICK k \in Nat, h \in {0, 1} : /\ WireOf(claude.printed, Unended, wire, k, h)
                                      /\ TakenOf(claude.printed, runner, k, h)
    BY DEF PtyInv
  <2>2. runner.file = Events(k)
    BY <2>1, Zenon DEF PtyInv, TakenOf, Events
  <2>3. Len(claude.printed) \in Nat /\ Len(wire) \in Nat
    BY LenProperties DEF PtyInv, PtyTypes
  <2>4. k \in 0 .. Len(claude.printed)
    BY <2>1, <2>3 DEF WireOf
  <2>5. ASSUME wire = <<>>
        PROVE  k = IF claude.open THEN Len(claude.printed) - 1 ELSE Len(claude.printed)
    <3>1. Len(wire) = 0
      BY <2>5
    <3>2. 2 * Len(claude.printed) = Unended + 2 * k + h
      <4>1. Len(wire) = 2 * Len(claude.printed) - Unended - 2 * k - h
        BY <2>1, Zenon DEF WireOf
      <4>2. Unended \in {0, 1}
        BY Zenon DEF Unended
      <4>3. QED
        BY <2>3, <3>1, <4>1, <4>2
    <3>3. CASE claude.open
      <4>1. Unended = 1
        BY <3>3 DEF Unended
      <4>2. k = Len(claude.printed) - 1
        BY <2>3, <3>2, <4>1
      <4>3. QED
        BY <3>3, <4>2, Zenon
    <3>4. CASE ~claude.open
      <4>1. Unended = 0
        BY <3>4 DEF Unended
      <4>2. k = Len(claude.printed)
        BY <2>3, <3>2, <4>1
      <4>3. QED
        BY <3>4, <4>2, Zenon
    <3>5. QED
      BY <3>3, <3>4
  <2>6. QED
    BY <2>2, <2>4, <2>5, Zenon
<1>3. QED
  BY <1>1, <1>2, PtyKept, PTL DEF PtySpec

-----------------------------------------------------------------------------
(* The scan for a trigger                                                   *)

ScannerStates == [pending : BOOLEAN, halves : {0, 1}, verdict : {"none", "yes", "no"}]

(* The parser takes one line after the other.                               *)
LEMMA LinesStep ==
    ASSUME NEW c \in Seq(StreamEvents)
    PROVE  /\ LinesParsed(c, 0) = Fresh
           /\ \A n \in 1 .. Len(c) : LinesParsed(c, n) = Line(LinesParsed(c, n - 1), c[n])
           /\ \A n \in 0 .. Len(c) : LinesParsed(c, n) \in ScannerStates
<1> DEFINE len == Len(c)
           Parsed(f) == f = [i \in 0 .. len |-> IF i = 0 THEN Fresh ELSE Line(f[i - 1], c[i])]
<1>1. len \in Nat /\ \A i \in 1 .. len : c[i] \in StreamEvents
  BY LenProperties, ElementOfSeq
<1>2. Fresh \in ScannerStates
  BY DEF Fresh, ScannerStates
<1>3. ASSUME NEW t \in ScannerStates, NEW e PROVE Line(t, e) \in ScannerStates
  <2>1. /\ [t EXCEPT !.pending = TRUE, !.halves = 0] \in ScannerStates
        /\ [t EXCEPT !.verdict = "no"] \in ScannerStates
        /\ [t EXCEPT !.verdict = "yes"] \in ScannerStates
        /\ [t EXCEPT !.halves = 1] \in ScannerStates
    BY DEF ScannerStates
  <2>2. QED
    BY <2>1 DEF Line
<1>4. \E f : Parsed(f)
  <2> DEFINE g == [p \in (1 .. len) \X ScannerStates |-> Line(p[2], c[p[1]])]
  <2>1. g \in [(1 .. len) \X ScannerStates -> ScannerStates]
    <3>1. \A p \in (1 .. len) \X ScannerStates : p[2] \in ScannerStates
      OBVIOUS
    <3>2. \A p \in (1 .. len) \X ScannerStates : Line(p[2], c[p[1]]) \in ScannerStates
      BY <1>3, <3>1
    <3>3. QED
      BY <3>2
  <2> HIDE DEF g
  <2>2. PICK f \in [0 .. len -> ScannerStates] : Steps(f, len, Fresh, g)
    BY <1>1, <1>2, <2>1, Recursion
  <2>3. ASSUME NEW i \in 1 .. len PROVE f[i] = Line(f[i - 1], c[i])
    <3>1. i - 1 \in 0 .. len
      BY <1>1
    <3>2. <<i, f[i - 1]>> \in (1 .. len) \X ScannerStates
      BY <3>1
    <3>3. g[<<i, f[i - 1]>>] = Line(f[i - 1], c[i])
      BY <3>2 DEF g
    <3>4. QED
      BY <2>2, <3>3 DEF Steps
  <2>4. f = [i \in 0 .. len |-> f[i]]
    OBVIOUS
  <2>5. \A i \in 0 .. len : i = 0 \/ i \in 1 .. len
    BY <1>1
  <2>6. \A i \in 0 .. len : f[i] = IF i = 0 THEN Fresh ELSE Line(f[i - 1], c[i])
    BY <2>2, <2>3, <2>5, Zenon DEF Steps
  <2>7. QED
    BY <2>4, <2>6, Zenon
<1>5. PICK f : Parsed(f) /\ \A n : LinesParsed(c, n) = f[n]
  <2> DEFINE f == CHOOSE f : Parsed(f)
  <2>1. Parsed(f)
    BY <1>4, Zenon
  <2>2. \A n : LinesParsed(c, n) = f[n]
    BY Zenon DEF LinesParsed
  <2> HIDE DEF f
  <2>3. QED
    BY <2>1, <2>2, Zenon
<1>6. \A i \in 0 .. len : f[i] = IF i = 0 THEN Fresh ELSE Line(f[i - 1], c[i])
  BY <1>5, Zenon
<1>7. 0 \in 0 .. len /\ \A i \in 1 .. len : i \in 0 .. len /\ i # 0
  BY <1>1
<1>8. f[0] = Fresh /\ \A i \in 1 .. len : f[i] = Line(f[i - 1], c[i])
  BY <1>6, <1>7, Zenon
<1>9. \A i \in 0 .. len : f[i] \in ScannerStates
  <2> HIDE DEF Parsed
  <2> DEFINE S == {i \in 0 .. len : f[i] \in ScannerStates}
  <2>1. 0 \in S
    BY <1>2, <1>7, <1>8
  <2>2. ASSUME NEW i \in 1 .. len, i - 1 \in S PROVE i \in S
    <3>1. f[i - 1] \in ScannerStates
      BY <2>2
    <3>2. f[i] \in ScannerStates
      BY <1>3, <1>8, <3>1, Zenon
    <3>3. QED
      BY <1>7, <3>2
  <2> HIDE DEF S
  <2>3. 0 .. len \subseteq S
    BY <1>1, <2>1, <2>2, Induct
  <2>4. QED
    BY <2>3 DEF S
<1>10. QED
  BY <1>5, <1>8, <1>9, Zenon

\* No message is repeated among the first n events.
Silent(c, n) == \A i \in 1 .. n : c[i] \notin Messages

\* The event at x gives the verdict, if none before it did.
SaysYes(c, x) ==
    \/ c[x] = "message with"
    \/ c[x] = "half 2" /\ \E p \in 1 .. x : c[p] \in Starts /\ Both(c, p, x)
SaysNo(c, x) ==
    \/ c[x] \in {"message without", "start other", "message stop", "result"}
    \/ c[x] = "stop" /\ \E p \in 1 .. x - 1 : c[p] \in Starts /\ ~Both(c, p, x)

\* What the state of the parser after n events says of them.
Undecided(c, n, t) ==
    /\ Silent(c, n)
    /\ t.halves = 1 => t.pending
    /\ t.pending => \E p \in 1 .. n :
         /\ c[p] \in Starts /\ ~Both(c, p, n)
         /\ t.halves = 0 => \A i \in p .. n : c[i] # "half 1"
         /\ t.halves = 1 => \E i \in p .. n : c[i] = "half 1"

ParsedRight(c, n, t) ==
    /\ t.verdict = "none" => Undecided(c, n, t)
    /\ t.verdict = "yes" => \E x \in 1 .. n : Silent(c, x - 1) /\ SaysYes(c, x)
    /\ t.verdict = "no" => \E x \in 1 .. n : Silent(c, x - 1) /\ SaysNo(c, x)

(* One more line keeps that.                                                *)
LEMMA LineRight ==
    ASSUME NEW c \in Seq(StreamEvents), NEW n \in 1 .. Len(c), NEW t \in ScannerStates,
           ParsedRight(c, n - 1, t)
    PROVE  ParsedRight(c, n, Line(t, c[n]))
<1> DEFINE e == c[n]
           u == Line(t, e)
<1>1. Len(c) \in Nat /\ n \in Nat /\ n >= 1 /\ n \in 1 .. n /\ e \in StreamEvents
  BY LenProperties, ElementOfSeq
<1>2. CASE t.verdict # "none"
  <2>1. u = t
    BY <1>2, Zenon DEF Line
  <2>2. \A x \in 1 .. n - 1 : x \in 1 .. n
    BY <1>1
  <2> HIDE DEF u
  <2>3. ParsedRight(c, n, u)
    BY <1>2, <2>1, <2>2, Zenon DEF ParsedRight
  <2>4. QED
    BY <2>3 DEF u
<1>3. CASE t.verdict = "none"
  <2>1. Undecided(c, n - 1, t)
    BY <1>3, Zenon DEF ParsedRight
  <2>2. Silent(c, n - 1)
    BY <2>1, Zenon DEF Undecided
  <2>3. ASSUME u.verdict = "yes", SaysYes(c, n) PROVE ParsedRight(c, n, u)
    BY <1>1, <2>2, <2>3, Zenon, "yes" # "none", "yes" # "no" DEF ParsedRight
  <2>4. ASSUME u.verdict = "no", SaysNo(c, n) PROVE ParsedRight(c, n, u)
    BY <1>1, <2>2, <2>4, Zenon, "no" # "none", "yes" # "no" DEF ParsedRight
  <2>5. ASSUME u.verdict = "none", Undecided(c, n, u) PROVE ParsedRight(c, n, u)
    BY <2>5, Zenon, "no" # "none", "yes" # "none" DEF ParsedRight
  <2>6. e \notin Messages => Silent(c, n)
    <3>1. \A i \in 1 .. n : i = n \/ i \in 1 .. n - 1
      BY <1>1
    <3>2. QED
      BY <2>2, <3>1, Zenon DEF Silent
  <2>7. CASE e \in Starts
    <3>1. u = [t EXCEPT !.pending = TRUE, !.halves = 0]
      BY <1>3, <2>7 DEF Line, Starts
    <3>2. e \notin Messages /\ e # "half 1"
      BY <2>7 DEF Starts, Messages
    <3>3. u.verdict = "none" /\ u.pending = TRUE /\ u.halves = 0
      BY <1>3, <3>1 DEF ScannerStates
    <3>4. \A i \in n .. n : i = n
      BY <1>1
    <3>5. ~Both(c, n, n)
      BY <3>2, <3>4, Zenon DEF Both
    <3>6. 0 # 1
      OBVIOUS
    <3>7. Undecided(c, n, u)
      BY <1>1, <2>6, <2>7, <3>2, <3>3, <3>4, <3>5, <3>6, Zenon DEF Undecided
    <3>8. QED
      BY <2>5, <3>3, <3>7, Zenon
  <2>8. CASE e = "start other"
    <3>1. u = [t EXCEPT !.verdict = "no"]
      BY <1>3, <2>8 DEF Line, Starts
    <3>2. u.verdict = "no"
      BY <3>1 DEF ScannerStates
    <3>3. SaysNo(c, n)
      BY <2>8 DEF SaysNo
    <3>4. QED
      BY <2>4, <3>2, <3>3, Zenon
  <2>9. CASE e = "half 1" /\ t.pending
    <3>1. u = [t EXCEPT !.halves = 1]
      BY <1>3, <2>9 DEF Line, Starts
    <3>2. u.verdict = "none" /\ u.pending = t.pending /\ u.halves = 1
      BY <1>3, <3>1 DEF ScannerStates
    <3>3. PICK p \in 1 .. n - 1 : c[p] \in Starts /\ ~Both(c, p, n - 1)
      BY <2>1, <2>9, Zenon DEF Undecided
    <3>4. p \in 1 .. n /\ n \in p .. n
      BY <1>1
    <3>5. ~Both(c, p, n)
      <4>1. SUFFICES ASSUME NEW i \in p .. n, NEW j \in p .. n, i < j, c[i] = "half 1",
                            c[j] = "half 2"
                     PROVE  FALSE
        BY Zenon DEF Both
      <4>2. j # n
        BY <2>9, <4>1
      <4>3. n \in Nat /\ j # n /\ i < j
        BY <1>1, <4>1, <4>2, Zenon
      <4>4. i \in p .. n - 1 /\ j \in p .. n - 1
        BY <4>3
      <4>5. QED
        BY <3>3, <4>1, <4>4, Zenon DEF Both
    <3>6. e \notin Messages /\ 0 # 1
      <4>1. "half 1" \notin Messages /\ 0 # 1
        BY DEF Messages
      <4>2. QED
        BY <2>9, <4>1, Zenon
    <3>7. Undecided(c, n, u)
      BY <2>6, <2>9, <3>2, <3>3, <3>4, <3>5, <3>6, Zenon DEF Undecided
    <3>8. QED
      BY <2>5, <3>2, <3>7, Zenon
  <2>10. CASE e = "half 2" /\ t.pending /\ t.halves = 1
    <3>1. u = [t EXCEPT !.verdict = "yes"]
      BY <1>3, <2>10 DEF Line, Starts
    <3>2. u.verdict = "yes"
      BY <3>1 DEF ScannerStates
    <3>3. PICK p \in 1 .. n - 1 : c[p] \in Starts /\ \E i \in p .. n - 1 : c[i] = "half 1"
      BY <2>1, <2>10, Zenon DEF Undecided
    <3>4. PICK i \in p .. n - 1 : c[i] = "half 1"
      BY <3>3
    <3>5. p \in 1 .. n /\ i \in p .. n /\ n \in p .. n /\ i < n
      BY <1>1
    <3>6. SaysYes(c, n)
      BY <2>10, <3>3, <3>4, <3>5, Zenon DEF SaysYes, Both
    <3>7. QED
      BY <2>3, <3>2, <3>6, Zenon
  <2>11. CASE e = "stop" /\ t.pending
    <3>1. u = [t EXCEPT !.verdict = "no"]
      BY <1>3, <2>11 DEF Line, Starts
    <3>2. u.verdict = "no"
      BY <3>1 DEF ScannerStates
    <3>3. PICK p \in 1 .. n - 1 : c[p] \in Starts /\ ~Both(c, p, n - 1)
      BY <2>1, <2>11, Zenon DEF Undecided
    <3>4. ~Both(c, p, n)
      <4>1. SUFFICES ASSUME NEW i \in p .. n, NEW j \in p .. n, i < j, c[i] = "half 1",
                            c[j] = "half 2"
                     PROVE  FALSE
        BY Zenon DEF Both
      <4>2. j # n
        BY <2>11, <4>1
      <4>3. n \in Nat /\ j # n /\ i < j
        BY <1>1, <4>1, <4>2, Zenon
      <4>4. i \in p .. n - 1 /\ j \in p .. n - 1
        BY <4>3
      <4>5. QED
        BY <3>3, <4>1, <4>4, Zenon DEF Both
    <3>5. SaysNo(c, n)
      BY <2>11, <3>3, <3>4, Zenon DEF SaysNo
    <3>6. QED
      BY <2>4, <3>2, <3>5, Zenon
  <2>12. CASE e \in {"message stop", "result", "message without"}
    <3>1. u = [t EXCEPT !.verdict = "no"]
      BY <1>3, <2>12 DEF Line, Starts
    <3>2. u.verdict = "no"
      BY <3>1 DEF ScannerStates
    <3>3. SaysNo(c, n)
      BY <2>12 DEF SaysNo
    <3>4. QED
      BY <2>4, <3>2, <3>3, Zenon
  <2>13. CASE e = "message with"
    <3>1. u = [t EXCEPT !.verdict = "yes"]
      BY <1>3, <2>13 DEF Line, Starts
    <3>2. u.verdict = "yes"
      BY <3>1 DEF ScannerStates
    <3>3. SaysYes(c, n)
      BY <2>13 DEF SaysYes
    <3>4. QED
      BY <2>3, <3>2, <3>3, Zenon
  <2>14. CASE /\ e \notin Starts \cup Messages
              /\ e \notin {"start other", "message stop", "result"}
              /\ ~(e = "half 1" /\ t.pending)
              /\ ~(e = "half 2" /\ t.pending /\ t.halves = 1)
              /\ ~(e = "stop" /\ t.pending)
    <3>1. u = t
      BY <1>3, <2>14 DEF Line, Starts, Messages
    <3>2. Undecided(c, n, t)
      <4>1. Silent(c, n) /\ (t.halves = 1 => t.pending)
        BY <2>1, <2>6, <2>14 DEF Undecided
      <4>2. ASSUME t.pending
            PROVE  \E p \in 1 .. n :
                     /\ c[p] \in Starts /\ ~Both(c, p, n)
                     /\ t.halves = 0 => \A i \in p .. n : c[i] # "half 1"
                     /\ t.halves = 1 => \E i \in p .. n : c[i] = "half 1"
        <5>1. PICK p \in 1 .. n - 1 :
                     /\ c[p] \in Starts /\ ~Both(c, p, n - 1)
                     /\ t.halves = 0 => \A i \in p .. n - 1 : c[i] # "half 1"
                     /\ t.halves = 1 => \E i \in p .. n - 1 : c[i] = "half 1"
          BY <2>1, <4>2, Zenon DEF Undecided
        <5>2. p \in 1 .. n /\ (\A i \in p .. n - 1 : i \in p .. n)
              /\ \A i \in p .. n : i = n \/ i \in p .. n - 1
          BY <1>1
        <5>3. e # "half 1"
          BY <2>14, <4>2
        <5>4. ~Both(c, p, n)
          <6>1. SUFFICES ASSUME NEW i \in p .. n, NEW j \in p .. n, i < j, c[i] = "half 1",
                                c[j] = "half 2"
                         PROVE  FALSE
            BY Zenon DEF Both
          <6>2. i \in p .. n - 1
            BY <5>2, <5>3, <6>1, Zenon
          <6>3. j # n
            <7>1. t.halves # 0
              BY <5>1, <6>1, <6>2, Zenon
            <7>2. t.halves = 1
              BY <7>1 DEF ScannerStates
            <7>3. QED
              BY <2>14, <4>2, <6>1, <7>2
          <6>4. j \in p .. n - 1
            BY <5>2, <6>3, Zenon
          <6>5. QED
            BY <5>1, <6>1, <6>2, <6>4, Zenon DEF Both
        <5>5. QED
          BY <5>1, <5>2, <5>3, <5>4, Zenon
      <4>3. QED
        BY <4>1, <4>2, Zenon DEF Undecided
    <3>3. QED
      BY <1>3, <2>5, <3>1, <3>2, Zenon
  <2>15. QED
    BY <2>7, <2>8, <2>9, <2>10, <2>11, <2>12, <2>13, <2>14 DEF Messages
<1>4. QED
  BY <1>2, <1>3

(* So a call says what its lines say.                                       *)
LEMMA ParseRight ==
    ASSUME NEW c \in Seq(StreamEvents)
    PROVE  /\ Parse(c) \in {"none", "yes", "no"}
           /\ Parse(c) = "none" => Silent(c, Len(c))
           /\ Parse(c) = "yes" => \E x \in 1 .. Len(c) : Silent(c, x - 1) /\ SaysYes(c, x)
           /\ Parse(c) = "no" => \E x \in 1 .. Len(c) : Silent(c, x - 1) /\ SaysNo(c, x)
<1> DEFINE S == {n \in 0 .. Len(c) : ParsedRight(c, n, LinesParsed(c, n))}
<1>1. Len(c) \in Nat /\ 0 \in 0 .. Len(c) /\ Len(c) \in 0 .. Len(c)
  BY LenProperties
<1>2. 0 \in S
  <2>1. LinesParsed(c, 0) = Fresh
    BY LinesStep
  <2>2. ParsedRight(c, 0, Fresh)
    BY DEF ParsedRight, Undecided, Silent, Fresh
  <2>3. QED
    BY <1>1, <2>1, <2>2
<1>3. ASSUME NEW n \in 1 .. Len(c), n - 1 \in S PROVE n \in S
  <2>1. n - 1 \in 0 .. Len(c) /\ n \in 0 .. Len(c) /\ ParsedRight(c, n - 1, LinesParsed(c, n - 1))
    BY <1>1, <1>3
  <2>2. LinesParsed(c, n - 1) \in ScannerStates
    BY <2>1, LinesStep, Zenon
  <2>3. LinesParsed(c, n) = Line(LinesParsed(c, n - 1), c[n])
    BY LinesStep, Zenon
  <2>4. ParsedRight(c, n, Line(LinesParsed(c, n - 1), c[n]))
    BY <2>1, <2>2, LineRight
  <2>5. ParsedRight(c, n, LinesParsed(c, n))
    BY <2>3, <2>4, Zenon
  <2>6. QED
    BY <2>1, <2>5
<1> HIDE DEF S
<1>4. 0 .. Len(c) \subseteq S
  BY <1>1, <1>2, <1>3, Induct
<1>5. ParsedRight(c, Len(c), LinesParsed(c, Len(c)))
  BY <1>1, <1>4 DEF S
<1>6. LinesParsed(c, Len(c)) \in ScannerStates
  BY <1>1, LinesStep, Zenon
<1>7. Parse(c) \in {"none", "yes", "no"}
  BY <1>6 DEF Parse, ScannerStates
<1>8. QED
  BY <1>5, <1>7, Zenon DEF Parse, ParsedRight, Undecided

\* The first message of a session that is repeated.
FirstMessage(s, m) == m \in 1 .. Len(s) /\ s[m] \in Messages /\ Silent(s, m - 1)

\* If it repeats what was streamed, it is the message e.
Says(s, e) == Echoes(s) => \A m : FirstMessage(s, m) => s[m] = e

(* Where a chunk that follows silence decides, the session decides, and as  *)
(* its first message does.                                                  *)
LEMMA ChunkDecides ==
    ASSUME NEW s \in Streams, NEW a \in 0 .. Len(s), NEW b \in 0 .. Len(s), a <= b, Silent(s, a)
    PROVE  LET v == Parse(SubSeq(s, a + 1, b)) IN
           /\ v \in {"none", "yes", "no"}
           /\ v = "none" => Silent(s, b)
           /\ v = "yes" => /\ NamesSkill(s)
                           /\ Says(s, "message with")
           /\ v = "no" => Says(s, "message without")
<1> DEFINE c == SubSeq(s, a + 1, b)
           v == Parse(c)
<1>1. s \in Seq(StreamEvents) /\ Len(s) \in Nat /\ DOMAIN s = 1 .. Len(s)
  BY TriggerAssumption, LenProperties
<1>2. /\ c \in Seq(StreamEvents) /\ Len(c) = b - a
      /\ \A x \in 1 .. Len(c) : c[x] = s[a + x]
  <2>1. a + 1 \in 1 .. Len(s) + 1 /\ b \in a + 1 - 1 .. Len(s)
    BY <1>1
  <2>2. /\ SubSeq(s, a + 1, b) \in Seq(StreamEvents)
        /\ Len(SubSeq(s, a + 1, b)) = IF a + 1 <= b THEN b - (a + 1) + 1 ELSE 0
        /\ \A x \in 1 .. b - (a + 1) + 1 : SubSeq(s, a + 1, b)[x] = s[a + 1 + x - 1]
    BY <1>1, <2>1, SubSeqProperties
  <2>3. Len(c) = b - a
    BY <1>1, <2>2
  <2>4. \A x \in 1 .. b - a : a + 1 + x - 1 = a + x /\ x \in 1 .. b - (a + 1) + 1
    BY <1>1
  <2> HIDE DEF c
  <2>5. \A x \in 1 .. Len(c) : c[x] = s[a + x]
    BY <2>2, <2>3, <2>4, Zenon DEF c
  <2>6. QED
    BY <2>2, <2>3, <2>5, Zenon DEF c
<1> HIDE DEF c
<1>3. /\ v \in {"none", "yes", "no"}
      /\ v = "none" => Silent(c, Len(c))
      /\ v = "yes" => \E x \in 1 .. Len(c) : Silent(c, x - 1) /\ SaysYes(c, x)
      /\ v = "no" => \E x \in 1 .. Len(c) : Silent(c, x - 1) /\ SaysNo(c, x)
  BY <1>2, ParseRight, Zenon
<1> HIDE DEF v
<1>4. ASSUME NEW x \in 0 .. Len(c), Silent(c, x) PROVE Silent(s, a + x)
  <2>1. SUFFICES ASSUME NEW i \in 1 .. a + x PROVE s[i] \notin Messages
    BY Zenon DEF Silent
  <2>2. CASE i <= a
    <3>1. i \in 1 .. a
      BY <1>1, <1>2, <2>2
    <3>2. QED
      BY <3>1, Zenon DEF Silent
  <2>3. CASE i > a
    <3>1. i - a \in 1 .. x /\ i - a \in 1 .. Len(c) /\ a + (i - a) = i
      BY <1>1, <1>2, <2>3
    <3>2. QED
      BY <1>2, <1>4, <3>1, Zenon DEF Silent
  <2>4. QED
    BY <1>1, <1>2, <2>2, <2>3
<1>5. ASSUME NEW x \in 1 .. Len(c), NEW p \in 1 .. x
      PROVE  Both(c, p, x) <=> Both(s, a + p, a + x)
  <2>1. ASSUME Both(c, p, x) PROVE Both(s, a + p, a + x)
    <3>1. PICK i \in p .. x, j \in p .. x : i < j /\ c[i] = "half 1" /\ c[j] = "half 2"
      BY <2>1, Zenon DEF Both
    <3>2. i < j
      BY <3>1, Zenon
    <3>3. /\ i \in 1 .. Len(c) /\ j \in 1 .. Len(c) /\ a + i < a + j
          /\ a + i \in a + p .. a + x /\ a + j \in a + p .. a + x
      BY <1>1, <1>2, <3>2
    <3>4. QED
      BY <1>2, <3>1, <3>3, Zenon DEF Both
  <2>2. ASSUME Both(s, a + p, a + x) PROVE Both(c, p, x)
    <3>1. PICK i \in a + p .. a + x, j \in a + p .. a + x :
                 i < j /\ s[i] = "half 1" /\ s[j] = "half 2"
      BY <2>2, Zenon DEF Both
    <3>2. i < j
      BY <3>1, Zenon
    <3>3. /\ i - a \in 1 .. Len(c) /\ j - a \in 1 .. Len(c) /\ i - a < j - a
          /\ i - a \in p .. x /\ j - a \in p .. x /\ a + (i - a) = i /\ a + (j - a) = j
      BY <1>1, <1>2, <3>2
    <3>4. QED
      BY <1>2, <3>1, <3>3, Zenon DEF Both
  <2>3. QED
    BY <2>1, <2>2
<1>6. v = "none" => Silent(s, b)
  <2>1. Len(c) \in 0 .. Len(c) /\ a + Len(c) = b
    BY <1>1, <1>2
  <2>2. QED
    BY <1>3, <1>4, <2>1, Zenon
\* The first message does not come before the place where the chunk decides.
<1>7. ASSUME NEW x \in 1 .. Len(c), Silent(c, x - 1), Echoes(s), NEW m, FirstMessage(s, m)
      PROVE  /\ a + x <= m
             /\ Repeats(s, m)
             /\ a + x \in 1 .. Len(s) /\ m \in 1 .. Len(s)
  <2>1. m \in 1 .. Len(s) /\ s[m] \in Messages /\ Silent(s, m - 1)
    BY <1>7, Zenon DEF FirstMessage
  <2>2. Repeats(s, m)
    BY <1>1, <1>7, <2>1, Zenon DEF Silent, Echoes
  <2>3. x - 1 \in 0 .. Len(c) /\ a + x \in 1 .. Len(s)
    BY <1>1, <1>2
  <2>4. Silent(s, a + (x - 1))
    BY <1>4, <1>7, <2>3, Zenon
  <2>5. m \notin 1 .. a + (x - 1)
    BY <2>1, <2>4, Zenon DEF Silent
  <2>6. QED
    BY <1>1, <1>2, <2>1, <2>2, <2>3, <2>5
<1>8. ASSUME v = "yes"
      PROVE  NamesSkill(s) /\ Says(s, "message with")
  <2>1. PICK x \in 1 .. Len(c) : Silent(c, x - 1) /\ SaysYes(c, x)
    BY <1>3, <1>8
  <2>2. x \in 1 .. Len(c) /\ a + x \in 1 .. Len(s) /\ c[x] = s[a + x]
    BY <1>1, <1>2
  <2>3. CASE c[x] = "message with"
    <3>1. NamesSkill(s)
      BY <1>1, <2>2, <2>3, Zenon DEF NamesSkill
    <3>2. ASSUME Echoes(s), NEW m, FirstMessage(s, m) PROVE s[m] = "message with"
      <4>1. a + x <= m /\ m \in 1 .. Len(s) /\ Silent(s, m - 1)
        BY <1>7, <2>1, <3>2, Zenon DEF FirstMessage
      <4>2. a + x # m => a + x \in 1 .. m - 1
        BY <1>1, <2>2, <4>1
      <4>3. "message with" \in Messages
        BY DEF Messages
      <4>4. QED
        BY <2>2, <2>3, <4>1, <4>2, <4>3, Zenon DEF Silent
    <3>3. QED
      BY <3>1, <3>2, Zenon DEF Says
  <2>4. CASE c[x] = "half 2" /\ \E p \in 1 .. x : c[p] \in Starts /\ Both(c, p, x)
    <3>1. PICK p \in 1 .. x : c[p] \in Starts /\ Both(c, p, x)
      BY <2>4
    <3>2. /\ p \in 1 .. Len(c) /\ a + p \in 1 .. a + x
          /\ \A i \in a + p .. a + x : i \in DOMAIN s
      BY <1>1, <1>2, <2>2
    <3>3. s[a + p] \in Starts /\ Both(s, a + p, a + x)
      BY <1>2, <1>5, <3>1, <3>2, Zenon
    <3>4. NamesSkill(s)
      BY <3>2, <3>3, Zenon DEF NamesSkill, Both
    <3>5. ASSUME Echoes(s), NEW m, FirstMessage(s, m) PROVE s[m] = "message with"
      <4>1. a + x <= m /\ m \in 1 .. Len(s) /\ Repeats(s, m) /\ s[m] \in Messages
        BY <1>7, <2>1, <3>5, Zenon DEF FirstMessage
      <4>2. s[m] = "message with" \/ s[m] = "message without"
        BY <4>1 DEF Messages
      <4>3. "half 2" \notin Messages
        BY DEF Messages
      <4>4. a + x # m
        BY <2>2, <2>4, <4>1, <4>3, Zenon
      <4>5. a + x \in 1 .. m - 1 /\ a + p \in 1 .. m - 1
        BY <1>1, <2>2, <3>2, <4>1, <4>4
      <4>6. QED
        BY <3>3, <4>1, <4>2, <4>5, Zenon DEF Repeats
    <3>6. QED
      BY <3>4, <3>5, Zenon DEF Says
  <2>5. QED
    BY <2>1, <2>3, <2>4 DEF SaysYes
<1>9. ASSUME v = "no", Echoes(s), NEW m, FirstMessage(s, m) PROVE s[m] = "message without"
  <2>1. PICK x \in 1 .. Len(c) : Silent(c, x - 1) /\ SaysNo(c, x)
    BY <1>3, <1>9
  <2>2. x \in 1 .. Len(c) /\ a + x \in 1 .. Len(s) /\ c[x] = s[a + x]
    BY <1>1, <1>2
  <2>3. a + x <= m /\ m \in 1 .. Len(s) /\ Repeats(s, m) /\ s[m] \in Messages /\ Silent(s, m - 1)
    BY <1>7, <1>9, <2>1, Zenon DEF FirstMessage
  <2>4. a + x # m => a + x \in 1 .. m - 1
    BY <1>1, <2>2, <2>3
  <2>5. s[m] = "message with" \/ s[m] = "message without"
    BY <2>3 DEF Messages
  <2>6. SUFFICES ASSUME s[m] = "message with" PROVE FALSE
    BY <2>5
  <2>7. CASE c[x] = "message without"
    <3>1. "message without" \in Messages /\ "message without" # "message with"
      BY DEF Messages
    <3>2. QED
      BY <2>2, <2>3, <2>4, <2>6, <2>7, <3>1, Zenon DEF Silent
  <2>8. CASE c[x] \in {"start other", "message stop", "result"}
    <3>1. "message with" \notin {"start other", "message stop", "result"}
      OBVIOUS
    <3>2. QED
      BY <2>2, <2>3, <2>4, <2>6, <2>8, <3>1, Zenon DEF Repeats
  <2>9. CASE c[x] = "stop" /\ \E p \in 1 .. x - 1 : c[p] \in Starts /\ ~Both(c, p, x)
    <3>1. PICK p \in 1 .. x - 1 : c[p] \in Starts /\ ~Both(c, p, x)
      BY <2>9
    <3>2. p \in 1 .. x /\ p \in 1 .. Len(c) /\ a + p < a + x
      BY <1>1, <1>2, <2>2
    <3>3. s[a + p] \in Starts /\ ~Both(s, a + p, a + x)
      BY <1>2, <1>5, <3>1, <3>2, Zenon
    <3>4. a + x # m
      BY <2>2, <2>6, <2>9, Zenon, "stop" # "message with"
    <3>5. a + x \in 1 .. m - 1 /\ m \in 1 .. Len(s)
      BY <2>3, <2>4, <3>4, Zenon
    <3>6. a + p \in 1 .. m - 1
      BY <1>1, <3>2, <3>5
    <3>7. QED
      BY <2>2, <2>3, <2>6, <2>9, <3>2, <3>3, <3>5, <3>6, Zenon DEF Repeats
  <2>10. c[x] \in {"message without", "start other", "message stop", "result"} =>
           c[x] = "message without" \/ c[x] \in {"start other", "message stop", "result"}
    OBVIOUS
  <2>11. QED
    BY <2>1, <2>7, <2>8, <2>9, <2>10, Zenon DEF SaysNo
<1>10. v = "no" => Says(s, "message without")
  BY <1>9, Zenon DEF Says
<1>11. QED
  BY <1>3, <1>6, <1>8, <1>10, Zenon DEF c, v

TallyTypes == tally \in [runs : Nat, triggers : Nat, left : 0 .. Runs, naming : Nat]

\* A verdict was given for what the session says, and is counted once.
TriggerInv ==
    /\ stream \in Streams
    /\ at \in 0 .. Len(stream)
    /\ scan \in {"reading", "yes", "no", "timeout"}
    /\ scan = "reading" => Silent(stream, at)
    /\ scan = "yes" => /\ NamesSkill(stream)
                       /\ Says(stream, "message with")
    /\ scan = "no" => Says(stream, "message without")
    /\ TallyTypes
    /\ tally.triggers <= tally.naming

(* Every read, every end of a session and every result that is collected    *)
(* keeps that.                                                              *)
LEMMA TriggerKept == TriggerInv /\ [TriggerNext]_triggerVars => TriggerInv'
<1> SUFFICES ASSUME TriggerInv, [TriggerNext]_triggerVars PROVE TriggerInv'
  OBVIOUS
<1>1. Len(stream) \in Nat /\ at \in 0 .. Len(stream)
  <2>1. stream \in Streams /\ at \in 0 .. Len(stream)
    BY Zenon DEF TriggerInv
  <2>2. QED
    BY <2>1, TriggerAssumption, LenProperties
<1>2. "reading" # "yes" /\ "reading" # "no" /\ "timeout" # "yes" /\ "timeout" # "no"
      /\ "timeout" # "reading" /\ "yes" # "no" /\ "none" # "yes" /\ "none" # "no"
  OBVIOUS
<1>3. CASE ReadChunk
  <2>1. PICK n \in at + 1 .. Len(stream) :
               LET v == Parse(SubSeq(stream, at + 1, n)) IN
               at' = n /\ scan' = IF v = "none" THEN "reading" ELSE v
    BY <1>3, Zenon DEF ReadChunk
  <2>2. scan = "reading" /\ stream' = stream /\ tally' = tally
    BY <1>3, Zenon DEF ReadChunk
  <2> DEFINE v == Parse(SubSeq(stream, at + 1, n))
  <2>3. n \in 0 .. Len(stream) /\ at <= n /\ at \in 0 .. Len(stream)
    BY <1>1
  <2>4. stream \in Streams /\ Silent(stream, at)
    BY <2>2, Zenon DEF TriggerInv
  <2>5. /\ v \in {"none", "yes", "no"}
        /\ v = "none" => Silent(stream, n)
        /\ v = "yes" => /\ NamesSkill(stream)
                        /\ Says(stream, "message with")
        /\ v = "no" => Says(stream, "message without")
    BY <2>3, <2>4, ChunkDecides, Zenon
  <2> HIDE DEF v
  <2>6. at' = n /\ scan' = IF v = "none" THEN "reading" ELSE v
    BY <2>1, Zenon DEF v
  <2>7. (v = "none" /\ scan' = "reading") \/ (v = "yes" /\ scan' = "yes") \/ (v = "no" /\ scan' = "no")
    BY <2>5, <2>6
  <2>8. TallyTypes'
    BY <2>2 DEF TriggerInv, TallyTypes
  <2>9. scan' \in {"reading", "yes", "no", "timeout"}
    BY <2>7
  <2>10. QED
    BY <1>2, <2>2, <2>3, <2>4, <2>5, <2>6, <2>7, <2>8, <2>9, Zenon DEF TriggerInv
<1>4. CASE SessionOver
  <2> DEFINE v == Parse(SubSeq(stream, at + 1, Len(stream)))
  <2>1. /\ scan' = IF v = "yes" THEN "yes" ELSE "no"
        /\ at' = Len(stream) /\ scan = "reading" /\ stream' = stream /\ tally' = tally
    BY <1>4, Zenon DEF SessionOver
  <2>2. Len(stream) \in 0 .. Len(stream) /\ at <= Len(stream) /\ at \in 0 .. Len(stream)
    BY <1>1
  <2>3. stream \in Streams /\ Silent(stream, at)
    BY <2>1, Zenon DEF TriggerInv
  <2>4. /\ v \in {"none", "yes", "no"}
        /\ v = "none" => Silent(stream, Len(stream))
        /\ v = "yes" => /\ NamesSkill(stream)
                        /\ Says(stream, "message with")
        /\ v = "no" => Says(stream, "message without")
    BY <2>2, <2>3, ChunkDecides, Zenon
  <2> HIDE DEF v
  <2>5. Silent(stream, Len(stream)) => Says(stream, "message without")
    BY Zenon DEF Silent, FirstMessage, Says
  <2>6. (v = "none" /\ scan' = "no") \/ (v = "yes" /\ scan' = "yes") \/ (v = "no" /\ scan' = "no")
    BY <2>1, <2>4
  <2>7. TallyTypes'
    BY <2>1 DEF TriggerInv, TallyTypes
  <2>8. scan' \in {"reading", "yes", "no", "timeout"}
    BY <2>6
  <2>9. QED
    BY <1>2, <2>1, <2>2, <2>3, <2>4, <2>5, <2>6, <2>7, <2>8, Zenon DEF TriggerInv
<1>5. CASE ScanTimeout
  <2>1. TallyTypes' /\ scan' \in {"reading", "yes", "no", "timeout"}
    BY <1>5 DEF ScanTimeout, TriggerInv, TallyTypes
  <2>2. QED
    BY <1>2, <1>5, <2>1, Zenon DEF ScanTimeout, TriggerInv
<1>6. CASE RunReturns
  <2>1. PICK raised \in BOOLEAN :
               LET one(b) == IF b /\ ~raised THEN 1 ELSE 0 IN
               tally' = [runs |-> tally.runs + one(TRUE), left |-> tally.left - 1,
                         triggers |-> tally.triggers + one(scan = "yes"),
                         naming |-> tally.naming + one(NamesSkill(stream))]
    BY <1>6, Zenon DEF RunReturns
  <2> DEFINE one(b) == IF b /\ ~raised THEN 1 ELSE 0
             yes == one(scan = "yes")
             named == one(NamesSkill(stream))
  <2>2. stream' \in Streams /\ at' = 0 /\ scan' = "reading" /\ tally.left > 0
    BY <1>6, Zenon DEF RunReturns
  <2>3. yes \in {0, 1} /\ named \in {0, 1} /\ one(TRUE) \in {0, 1}
    OBVIOUS
  <2>4. yes <= named
    <3>1. scan = "yes" => NamesSkill(stream)
      BY Zenon DEF TriggerInv
    <3> HIDE DEF NamesSkill
    <3>2. QED
      BY <3>1
  <2>5. /\ tally'.triggers = tally.triggers + yes /\ tally'.naming = tally.naming + named
        /\ tally'.left = tally.left - 1 /\ tally'.runs = tally.runs + one(TRUE)
        /\ tally' = [runs |-> tally.runs + one(TRUE), left |-> tally.left - 1,
                     triggers |-> tally.triggers + yes, naming |-> tally.naming + named]
    BY <2>1
  <2>6. TallyTypes /\ tally.triggers <= tally.naming
    BY Zenon DEF TriggerInv
  <2> DEFINE ran == one(TRUE)
  <2> HIDE DEF yes, named, ran
  <2>7. /\ tally.triggers \in Nat /\ tally.naming \in Nat /\ tally.runs \in Nat
        /\ tally.left \in 0 .. Runs /\ Runs \in Nat
    BY <2>6, TriggerAssumption DEF TallyTypes
  <2>8. /\ tally.triggers + yes \in Nat /\ tally.naming + named \in Nat
        /\ tally.runs + ran \in Nat /\ tally.left - 1 \in 0 .. Runs
        /\ tally.triggers + yes <= tally.naming + named
    BY <2>2, <2>3, <2>4, <2>6, <2>7 DEF ran
  <2>9. tally' = [runs |-> tally.runs + ran, left |-> tally.left - 1,
                  triggers |-> tally.triggers + yes, naming |-> tally.naming + named]
    BY <2>5, Zenon DEF ran
  <2>10. TallyTypes' /\ tally'.triggers <= tally'.naming
    BY <2>8, <2>9 DEF TallyTypes
  <2>11. Len(stream') \in Nat
    BY <2>2, TriggerAssumption, LenProperties
  <2>12. at' \in 0 .. Len(stream') /\ 1 .. 0 = {}
    BY <2>2, <2>11
  <2>13. Silent(stream', at')
    <3>1. \A i \in 1 .. 0 : stream'[i] \notin Messages
      BY <2>12
    <3>2. QED
      BY <2>2, <3>1, Zenon DEF Silent
  <2>14. scan' \in {"reading", "yes", "no", "timeout"}
    BY <2>2
  <2>15. QED
    BY <1>2, <2>2, <2>10, <2>12, <2>13, <2>14, Zenon DEF TriggerInv
<1>7. CASE UNCHANGED triggerVars
  <2>1. stream' = stream /\ at' = at /\ scan' = scan /\ tally' = tally
    BY <1>7 DEF triggerVars
  <2>2. TallyTypes'
    BY <2>1 DEF TriggerInv, TallyTypes
  <2>3. QED
    BY <2>1, <2>2, Zenon DEF TriggerInv
<1>8. QED
  BY <1>3, <1>4, <1>5, <1>6, <1>7, Zenon DEF TriggerNext

(* A session reported to have reached for the skill has; the verdict is that*)
(* on the whole session, wherever the pipe cut it, if its first message     *)
(* repeats what was streamed; and no query is reported as triggering unless *)
(* half of the runs that returned reached for the skill.                    *)
THEOREM TriggersCorrect == TriggerSpec => []TriggersAreTrue
<1>1. TriggerInit => TriggerInv
  <2> SUFFICES ASSUME TriggerInit PROVE TriggerInv
    OBVIOUS
  <2>1. /\ stream \in Streams /\ at = 0 /\ scan = "reading"
        /\ tally = [runs |-> 0, triggers |-> 0, left |-> Runs, naming |-> 0]
    BY DEF TriggerInit
  <2>2. Len(stream) \in Nat /\ Runs \in Nat
    BY <2>1, TriggerAssumption, LenProperties
  <2>3. TallyTypes /\ tally.triggers <= tally.naming
    BY <2>1, <2>2 DEF TallyTypes
  <2>4. at \in 0 .. Len(stream) /\ \A i \in 1 .. at : stream[i] \notin Messages
    BY <2>1, <2>2
  <2>5. scan \in {"reading", "yes", "no", "timeout"} /\ scan # "yes" /\ scan # "no"
    BY <2>1
  <2>6. QED
    BY <2>1, <2>3, <2>4, <2>5, Zenon DEF TriggerInv, Silent
<1>2. TriggerInv => TriggersAreTrue
  <2> SUFFICES ASSUME TriggerInv PROVE ChunkingIrrelevant /\ ReportedIsReached
    BY Zenon DEF TriggersAreTrue, YesIsNamed, TriggerInv
  <2>1. stream \in Streams /\ stream \in Seq(StreamEvents) /\ Len(stream) \in Nat
        /\ DOMAIN stream = 1 .. Len(stream)
    BY TriggerAssumption, LenProperties DEF TriggerInv
  <2>2. ReportedIsReached
    <3>1. tally.triggers <= tally.naming /\ TallyTypes
      BY Zenon DEF TriggerInv
    <3>2. QED
      BY <3>1 DEF ReportedIsReached, Reached, TallyTypes
  <2>3. ChunkingIrrelevant
    <3>1. SUFFICES ASSUME scan \in {"yes", "no"}, Echoes(stream),
                          NEW i \in DOMAIN stream, stream[i] \in Messages
                   PROVE  scan = (IF Parse(stream) = "yes" THEN "yes" ELSE "no")
      BY Zenon DEF ChunkingIrrelevant
    <3> DEFINE T == {j \in 1 .. Len(stream) : stream[j] \in Messages}
    <3>2. T \subseteq Nat /\ T # {}
      BY <2>1, <3>1
    <3>3. PICK m \in T : \A j \in T : m <= j
      BY <3>2, LeastNat
    <3>4. m \in 1 .. Len(stream) /\ stream[m] \in Messages
      BY <3>3
    <3>5. \A j \in 1 .. m - 1 : j \in 1 .. Len(stream) /\ ~(m <= j)
      BY <2>1, <3>4
    <3>6. FirstMessage(stream, m)
      BY <3>3, <3>4, <3>5, Zenon DEF FirstMessage, Silent
    <3>7. /\ 0 \in 0 .. Len(stream) /\ Len(stream) \in 0 .. Len(stream) /\ 0 <= Len(stream)
          /\ 0 + 1 = 1 /\ 1 .. 0 = {}
      BY <2>1
    <3>8. Silent(stream, 0)
      BY <3>7 DEF Silent
    <3> DEFINE v == Parse(stream)
    <3> DEFINE part == SubSeq(stream, 0 + 1, Len(stream))
    <3>9. part = stream
      BY <2>1, <3>7, SubSeqFull
    <3>10. /\ Parse(part) \in {"none", "yes", "no"}
           /\ Parse(part) = "none" => Silent(stream, Len(stream))
           /\ Parse(part) = "yes" => Says(stream, "message with")
           /\ Parse(part) = "no" => Says(stream, "message without")
      <4>1. ASSUME NEW s \in Streams, Len(s) \in Nat, Silent(s, 0)
            PROVE  LET w == Parse(SubSeq(s, 0 + 1, Len(s))) IN
                   /\ w \in {"none", "yes", "no"}
                   /\ w = "none" => Silent(s, Len(s))
                   /\ w = "yes" => Says(s, "message with")
                   /\ w = "no" => Says(s, "message without")
        <5>1. 0 \in 0 .. Len(s) /\ Len(s) \in 0 .. Len(s) /\ 0 <= Len(s)
          BY <4>1
        <5>2. QED
          BY <4>1, <5>1, ChunkDecides
      <4>2. QED
        BY <2>1, <3>8, <4>1, Zenon
    <3> HIDE DEF part
    <3>11. /\ v \in {"none", "yes", "no"}
           /\ v = "none" => Silent(stream, Len(stream))
           /\ v = "yes" => stream[m] = "message with"
           /\ v = "no" => stream[m] = "message without"
      BY <3>1, <3>6, <3>9, <3>10, Zenon DEF Says
    <3>12. v # "none"
      BY <3>4, <3>11, Zenon DEF Silent
    <3>13. /\ scan = "yes" => stream[m] = "message with"
           /\ scan = "no" => stream[m] = "message without"
      BY <3>1, <3>6, Zenon DEF TriggerInv, Says
    <3> HIDE DEF v
    <3>14. scan = IF v = "yes" THEN "yes" ELSE "no"
      BY <3>1, <3>11, <3>12, <3>13
    <3>15. QED
      BY <3>14, Zenon DEF v
  <2>4. QED
    BY <2>2, <2>3
<1>3. QED
  BY <1>1, <1>2, TriggerKept, PTL DEF TriggerSpec

-----------------------------------------------------------------------------
(* Surveys of sources and skills                                            *)

(* The list without its repetitions, one item after the other.              *)
LEMMA PlacesStep ==
    ASSUME NEW Items, NEW listed \in Seq(Items)
    PROVE  /\ FirstPlaces(listed, 0) = <<>>
           /\ \A n \in 1 .. Len(listed) : FirstPlaces(listed, n) =
                AddOnce(FirstPlaces(listed, n - 1), listed[n])
           /\ \A n \in 0 .. Len(listed) : FirstPlaces(listed, n) \in Seq(Items)
<1> DEFINE len == Len(listed)
           base == <<>>
           Meant(f) == f = [i \in 0 .. len |-> IF i = 0 THEN base ELSE AddOnce(f[i - 1], listed[i])]
<1>1. len \in Nat /\ \A i \in 1 .. len : listed[i] \in Items
  BY LenProperties, ElementOfSeq
<1>2. base \in Seq(Items)
  BY EmptySeq
<1>3. ASSUME NEW i \in 1 .. len, NEW items \in Seq(Items) PROVE AddOnce(items, listed[i]) \in Seq(Items)
  <2>1. Append(items, listed[i]) \in Seq(Items)
    BY <1>1, AppendProperties
  <2>2. QED
    BY <2>1, Zenon DEF AddOnce
<1> HIDE DEF base
<1>4. \E f : Meant(f)
  <2> DEFINE g == [p \in (1 .. len) \X Seq(Items) |-> AddOnce(p[2], listed[p[1]])]
  <2>1. g \in [(1 .. len) \X Seq(Items) -> Seq(Items)]
    <3>1. \A p \in (1 .. len) \X Seq(Items) : p[1] \in 1 .. len /\ p[2] \in Seq(Items)
      OBVIOUS
    <3>2. \A p \in (1 .. len) \X Seq(Items) : AddOnce(p[2], listed[p[1]]) \in Seq(Items)
      BY <1>3, <3>1, Zenon
    <3>3. QED
      BY <3>2
  <2> HIDE DEF g
  <2>2. PICK f \in [0 .. len -> Seq(Items)] : Steps(f, len, base, g)
    BY <1>1, <1>2, <2>1, Recursion
  <2>3. ASSUME NEW i \in 1 .. len PROVE f[i] = AddOnce(f[i - 1], listed[i])
    <3>1. i - 1 \in 0 .. len
      BY <1>1
    <3>2. <<i, f[i - 1]>> \in (1 .. len) \X Seq(Items)
      BY <3>1
    <3>3. g[<<i, f[i - 1]>>] = AddOnce(f[i - 1], listed[i])
      BY <3>2 DEF g
    <3>4. QED
      BY <2>2, <3>3, Zenon DEF Steps
  <2>4. f = [i \in 0 .. len |-> f[i]]
    OBVIOUS
  <2>5. \A i \in 0 .. len : i = 0 \/ i \in 1 .. len
    BY <1>1
  <2>6. \A i \in 0 .. len : f[i] = IF i = 0 THEN base ELSE AddOnce(f[i - 1], listed[i])
    BY <2>2, <2>3, <2>5, Zenon DEF Steps
  <2>7. QED
    BY <2>4, <2>6, Zenon
<1>5. PICK f : Meant(f) /\ \A n : FirstPlaces(listed, n) = f[n]
  <2> DEFINE f == CHOOSE f : Meant(f)
  <2>1. Meant(f)
    BY <1>4, Zenon
  <2>2. \A n : FirstPlaces(listed, n) = f[n]
    BY Zenon DEF FirstPlaces, base
  <2> HIDE DEF f
  <2>3. QED
    BY <2>1, <2>2, Zenon
<1>6. \A i \in 0 .. len : f[i] = IF i = 0 THEN base ELSE AddOnce(f[i - 1], listed[i])
  BY <1>5, Zenon
<1>7. 0 \in 0 .. len /\ \A i \in 1 .. len : i \in 0 .. len /\ i # 0
  BY <1>1
<1>8. f[0] = base /\ \A i \in 1 .. len : f[i] = AddOnce(f[i - 1], listed[i])
  BY <1>6, <1>7, Zenon
<1>9. \A i \in 0 .. len : f[i] \in Seq(Items)
  <2> HIDE DEF Meant
  <2> DEFINE S == {i \in 0 .. len : f[i] \in Seq(Items)}
  <2>1. 0 \in S
    BY <1>2, <1>7, <1>8, Zenon
  <2>2. ASSUME NEW i \in 1 .. len, i - 1 \in S PROVE i \in S
    <3>1. f[i - 1] \in Seq(Items)
      BY <2>2, Zenon
    <3>2. f[i] \in Seq(Items)
      BY <1>3, <1>8, <3>1, Zenon
    <3>3. QED
      BY <1>7, <3>2, Zenon
  <2> HIDE DEF S
  <2>3. 0 .. len \subseteq S
    BY <1>1, <2>1, <2>2, Induct
  <2>4. QED
    BY <2>3 DEF S
<1>10. QED
  BY <1>5, <1>8, <1>9, Zenon DEF base

AllNames == DOMAIN BaseOf \cup {BaseOf[n] : n \in DOMAIN BaseOf}
GroupStates == [members : SUBSET (AllNames \X AllNames \X {"primary", "companion"}),
                opened : SUBSET AllNames, assigned : SUBSET AllNames, ungrouped : SUBSET AllNames]

(* What opening a group and placing a file do to the parts of the loop's    *)
(* state.                                                                   *)
LEMMA GroupFileIs ==
    ASSUME NEW g \in GroupStates, NEW n \in DOMAIN BaseOf, NEW names,
           n \notin g.assigned, BaseOf[n] # n
    PROVE  LET key   == BaseOf[n]
               based == key \notin g.opened /\ key \in names /\ key \notin g.assigned
           IN  /\ GroupFile(g, n, names).opened = g.opened \cup {key}
               /\ GroupFile(g, n, names).assigned =
                    g.assigned \cup {n} \cup (IF based THEN {key} ELSE {})
               /\ GroupFile(g, n, names).members =
                    g.members \cup {<<key, n, "companion">>}
                              \cup (IF based THEN {<<key, key, "primary">>} ELSE {})
               /\ GroupFile(g, n, names).ungrouped = g.ungrouped
               /\ GroupFile(g, n, names) \in GroupStates
<1> DEFINE key == BaseOf[n]
           based == key \notin g.opened /\ key \in names /\ key \notin g.assigned
           h == WithBase(g, key, names)
           u == GroupFile(g, n, names)
           third == <<key, n, "companion">>
           first == <<key, key, "primary">>
<1>1. key \in AllNames /\ n \in AllNames
  BY DEF AllNames
<1>2. third \in AllNames \X AllNames \X {"primary", "companion"}
      /\ first \in AllNames \X AllNames \X {"primary", "companion"}
  BY <1>1
<1> HIDE DEF third, first
<1>3. u = [h EXCEPT !.assigned = h.assigned \cup {n}, !.members = h.members \cup {third}]
  BY Zenon DEF GroupFile, third
<1>4. CASE based
  <2>1. h = [g EXCEPT !.opened = g.opened \cup {key}, !.assigned = g.assigned \cup {key},
                      !.members = g.members \cup {first}]
    BY <1>4, Zenon DEF WithBase, first
  <2> HIDE DEF h, key, u, based
  <2>2. h \in GroupStates /\ h.opened = g.opened \cup {key} /\ h.assigned = g.assigned \cup {key}
        /\ h.members = g.members \cup {first} /\ h.ungrouped = g.ungrouped
    BY <1>1, <1>2, <2>1 DEF GroupStates
  <2>3. /\ u \in GroupStates /\ u.opened = h.opened /\ u.assigned = h.assigned \cup {n}
        /\ u.members = h.members \cup {third} /\ u.ungrouped = h.ungrouped
    BY <1>1, <1>2, <1>3, <2>2 DEF GroupStates
  <2>4. /\ u.assigned = g.assigned \cup {n} \cup (IF based THEN {key} ELSE {})
        /\ u.members = g.members \cup {third} \cup (IF based THEN {first} ELSE {})
    BY <1>4, <2>2, <2>3
  <2>5. u.opened = g.opened \cup {key} /\ u.ungrouped = g.ungrouped
    BY <2>2, <2>3
  <2>6. QED
    BY <2>3, <2>4, <2>5, Zenon DEF u, key, based, third, first
<1>5. CASE ~based
  <2>1. h = [g EXCEPT !.opened = g.opened \cup {key}]
    BY <1>5, Zenon DEF WithBase
  <2> HIDE DEF h, key, u, based
  <2>2. h \in GroupStates /\ h.opened = g.opened \cup {key} /\ h.assigned = g.assigned
        /\ h.members = g.members /\ h.ungrouped = g.ungrouped
    BY <1>1, <2>1 DEF GroupStates
  <2>3. /\ u \in GroupStates /\ u.opened = h.opened /\ u.assigned = h.assigned \cup {n}
        /\ u.members = h.members \cup {third} /\ u.ungrouped = h.ungrouped
    BY <1>1, <1>2, <1>3, <2>2 DEF GroupStates
  <2>4. /\ u.assigned = g.assigned \cup {n} \cup (IF based THEN {key} ELSE {})
        /\ u.members = g.members \cup {third} \cup (IF based THEN {first} ELSE {})
    BY <1>5, <2>2, <2>3
  <2>5. u.opened = g.opened \cup {key} /\ u.ungrouped = g.ungrouped
    BY <2>2, <2>3
  <2>6. QED
    BY <2>3, <2>4, <2>5, Zenon DEF u, key, based, third, first
<1>6. QED
  BY <1>4, <1>5

(* The other files change nothing, or are left for later.                   *)
LEMMA GroupFileElse ==
    ASSUME NEW g \in GroupStates, NEW n \in DOMAIN BaseOf, NEW names,
           n \in g.assigned \/ BaseOf[n] = n
    PROVE  \/ GroupFile(g, n, names) = g /\ (n \in g.assigned \/ n \in g.opened)
           \/ /\ BaseOf[n] = n
              /\ GroupFile(g, n, names) = [g EXCEPT !.ungrouped = g.ungrouped \cup {n}]
  BY Zenon DEF GroupFile

(* Placing a file keeps the fields of the loop's state.                     *)
LEMMA GroupFileTypes ==
    ASSUME NEW g \in GroupStates, NEW n \in DOMAIN BaseOf, NEW names
    PROVE  GroupFile(g, n, names) \in GroupStates
<1>1. CASE n \notin g.assigned /\ BaseOf[n] # n
  BY <1>1, GroupFileIs, Zenon
<1>2. CASE n \in g.assigned \/ BaseOf[n] = n
  <2> DEFINE u == GroupFile(g, n, names)
  <2>1. u = g \/ u = [g EXCEPT !.ungrouped = g.ungrouped \cup {n}]
    BY <1>2, GroupFileElse, Zenon
  <2>2. n \in AllNames
    BY DEF AllNames
  <2> HIDE DEF u
  <2>3. u \in GroupStates
    BY <2>1, <2>2 DEF GroupStates
  <2>4. QED
    BY <2>3 DEF u
<1>3. QED
  BY <1>1, <1>2

(* The groups, one file after the other.                                    *)
LEMMA GroupsStep ==
    ASSUME NEW files \in Seq(Sources)
    PROVE  /\ GroupFiles(files, 0) = NoGroups
           /\ \A n \in 1 .. Len(files) : GroupFiles(files, n) =
                GroupFile(GroupFiles(files, n - 1), NameOf[files[n]], NamesOf(files))
           /\ \A n \in 0 .. Len(files) : GroupFiles(files, n) \in GroupStates
<1> DEFINE len == Len(files)
           base == NoGroups
           Meant(f) == f = [i \in 0 .. len |->
                                IF i = 0 THEN base
                                ELSE GroupFile(f[i - 1], NameOf[files[i]], NamesOf(files))]
<1>1. len \in Nat /\ \A i \in 1 .. len : files[i] \in Sources
  BY LenProperties, ElementOfSeq
<1>2. base \in GroupStates
  BY DEF NoGroups, GroupStates
<1>3. ASSUME NEW i \in 1 .. len, NEW g \in GroupStates
      PROVE  GroupFile(g, NameOf[files[i]], NamesOf(files)) \in GroupStates
  <2>1. NameOf[files[i]] \in DOMAIN BaseOf
    BY <1>1, SourcesAssumption
  <2>2. QED
    BY <2>1, GroupFileTypes, Zenon
<1> HIDE DEF base
<1>4. \E f : Meant(f)
  <2> DEFINE g == [p \in (1 .. len) \X GroupStates |-> GroupFile(p[2], NameOf[files[p[1]]], NamesOf(files))]
  <2>1. g \in [(1 .. len) \X GroupStates -> GroupStates]
    <3>1. \A p \in (1 .. len) \X GroupStates : p[1] \in 1 .. len /\ p[2] \in GroupStates
      OBVIOUS
    <3>2. \A p \in (1 .. len) \X GroupStates : GroupFile(p[2], NameOf[files[p[1]]], NamesOf(files)) \in GroupStates
      BY <1>3, <3>1, Zenon
    <3>3. QED
      BY <3>2
  <2> HIDE DEF g
  <2>2. PICK f \in [0 .. len -> GroupStates] : Steps(f, len, base, g)
    BY <1>1, <1>2, <2>1, Recursion
  <2>3. ASSUME NEW i \in 1 .. len PROVE f[i] = GroupFile(f[i - 1], NameOf[files[i]], NamesOf(files))
    <3>1. i - 1 \in 0 .. len
      BY <1>1
    <3>2. <<i, f[i - 1]>> \in (1 .. len) \X GroupStates
      BY <3>1
    <3>3. g[<<i, f[i - 1]>>] = GroupFile(f[i - 1], NameOf[files[i]], NamesOf(files))
      BY <3>2 DEF g
    <3>4. QED
      BY <2>2, <3>3, Zenon DEF Steps
  <2>4. f = [i \in 0 .. len |-> f[i]]
    OBVIOUS
  <2>5. \A i \in 0 .. len : i = 0 \/ i \in 1 .. len
    BY <1>1
  <2>6. \A i \in 0 .. len : f[i] = IF i = 0 THEN base ELSE GroupFile(f[i - 1], NameOf[files[i]], NamesOf(files))
    BY <2>2, <2>3, <2>5, Zenon DEF Steps
  <2>7. QED
    BY <2>4, <2>6, Zenon
<1>5. PICK f : Meant(f) /\ \A n : GroupFiles(files, n) = f[n]
  <2> DEFINE f == CHOOSE f : Meant(f)
  <2>1. Meant(f)
    BY <1>4, Zenon
  <2>2. \A n : GroupFiles(files, n) = f[n]
    BY Zenon DEF GroupFiles, base
  <2> HIDE DEF f
  <2>3. QED
    BY <2>1, <2>2, Zenon
<1>6. \A i \in 0 .. len : f[i] = IF i = 0 THEN base ELSE GroupFile(f[i - 1], NameOf[files[i]], NamesOf(files))
  BY <1>5, Zenon
<1>7. 0 \in 0 .. len /\ \A i \in 1 .. len : i \in 0 .. len /\ i # 0
  BY <1>1
<1>8. f[0] = base /\ \A i \in 1 .. len : f[i] = GroupFile(f[i - 1], NameOf[files[i]], NamesOf(files))
  BY <1>6, <1>7, Zenon
<1>9. \A i \in 0 .. len : f[i] \in GroupStates
  <2> HIDE DEF Meant
  <2> DEFINE S == {i \in 0 .. len : f[i] \in GroupStates}
  <2>1. 0 \in S
    BY <1>2, <1>7, <1>8, Zenon
  <2>2. ASSUME NEW i \in 1 .. len, i - 1 \in S PROVE i \in S
    <3>1. f[i - 1] \in GroupStates
      BY <2>2, Zenon
    <3>2. f[i] \in GroupStates
      BY <1>3, <1>8, <3>1, Zenon
    <3>3. QED
      BY <1>7, <3>2, Zenon
  <2> HIDE DEF S
  <2>3. 0 .. len \subseteq S
    BY <1>1, <2>1, <2>2, Induct
  <2>4. QED
    BY <2>3 DEF S
<1>10. QED
  BY <1>5, <1>8, <1>9, Zenon DEF base

\* What the loop has made of the first i files.
Grouped(files, i, g) ==
    /\ g \in GroupStates
    /\ \A m \in g.members :
         /\ m[1] \in g.opened /\ m[2] \in g.assigned /\ m[2] \in NamesOf(files)
         /\ m[3] = "primary" => m[1] = m[2]
         /\ m[3] = "companion" => BaseOf[m[2]] = m[1] /\ m[1] # m[2]
    /\ \A n \in g.assigned : \E m \in g.members : m[2] = n
    /\ \A m1, m2 \in g.members : m1[2] = m2[2] => m1 = m2
    /\ g.opened \cap NamesOf(files) \subseteq g.assigned
    /\ \A n \in g.ungrouped : BaseOf[n] = n
    /\ \A j \in 1 .. i : NameOf[files[j]] \in g.assigned \cup g.ungrouped

(* One more file keeps that.                                                *)
LEMMA GroupedNext ==
    ASSUME NEW files \in Seq(Sources), NEW i \in 1 .. Len(files), NEW g, Grouped(files, i - 1, g)
    PROVE  Grouped(files, i, GroupFile(g, NameOf[files[i]], NamesOf(files)))
<1> DEFINE n == NameOf[files[i]]
           names == NamesOf(files)
           u == GroupFile(g, n, names)
<1>1. Len(files) \in Nat /\ files[i] \in Sources /\ DOMAIN files = 1 .. Len(files)
  BY LenProperties, ElementOfSeq
<1>2. n \in DOMAIN BaseOf /\ n \in names
  <2>1. n \in DOMAIN BaseOf
    BY <1>1, SourcesAssumption
  <2>2. n \in names
    BY <1>1, Zenon DEF NamesOf
  <2>3. QED
    BY <2>1, <2>2
<1>3. g \in GroupStates
  BY Zenon DEF Grouped
<1>4. \A j \in 1 .. i : j = i \/ j \in 1 .. i - 1
  BY <1>1
<1>5. CASE n \in g.assigned \/ BaseOf[n] = n
  <2>1. \/ u = g /\ (n \in g.assigned \/ n \in g.opened)
        \/ BaseOf[n] = n /\ u = [g EXCEPT !.ungrouped = g.ungrouped \cup {n}]
    BY <1>2, <1>3, <1>5, GroupFileElse, Zenon
  <2>2. CASE u = g /\ (n \in g.assigned \/ n \in g.opened)
    <3>1. n \in g.assigned
      BY <1>2, <2>2 DEF Grouped
    <3>2. \A j \in 1 .. i : NameOf[files[j]] \in g.assigned \cup g.ungrouped
      BY <1>4, <3>1 DEF Grouped
    <3>3. QED
      BY <2>2, <3>2, Zenon DEF Grouped
  <2>3. CASE BaseOf[n] = n /\ u = [g EXCEPT !.ungrouped = g.ungrouped \cup {n}]
    <3>1. u \in GroupStates
      BY <1>2, <1>3, GroupFileTypes, Zenon
    <3>2. /\ u.members = g.members /\ u.opened = g.opened /\ u.assigned = g.assigned
          /\ u.ungrouped = g.ungrouped \cup {n}
      BY <1>3, <2>3 DEF GroupStates
    <3> HIDE DEF u
    <3>3. \A j \in 1 .. i : NameOf[files[j]] \in g.assigned \cup u.ungrouped
      BY <1>4, <3>2 DEF Grouped
    <3>4. \A x \in u.ungrouped : BaseOf[x] = x
      BY <2>3, <3>2 DEF Grouped
    <3>5. Grouped(files, i, u)
      BY <3>1, <3>2, <3>3, <3>4, Zenon DEF Grouped
    <3>6. QED
      BY <3>5 DEF u
  <2>4. QED
    BY <2>1, <2>2, <2>3
<1>6. CASE n \notin g.assigned /\ BaseOf[n] # n
  <2> DEFINE key == BaseOf[n]
             based == key \notin g.opened /\ key \in names /\ key \notin g.assigned
             third == <<key, n, "companion">>
             first == <<key, key, "primary">>
  <2>1. /\ u.opened = g.opened \cup {key}
        /\ u.assigned = g.assigned \cup {n} \cup (IF based THEN {key} ELSE {})
        /\ u.members = g.members \cup {third} \cup (IF based THEN {first} ELSE {})
        /\ u.ungrouped = g.ungrouped
        /\ u \in GroupStates
    BY <1>2, <1>3, <1>6, GroupFileIs, Zenon
  <2>2. third[1] = key /\ third[2] = n /\ third[3] = "companion"
    OBVIOUS
  <2>3. first[1] = key /\ first[2] = key /\ first[3] = "primary" /\ "primary" # "companion"
    OBVIOUS
  <2>4. key # n /\ BaseOf[n] = key
    BY <1>6, Zenon
  <2> HIDE DEF third, first, key, u, n, names
  <2>5. \A m \in u.members : m \in g.members \/ m = third \/ (based /\ m = first)
    BY <2>1
  <2>6. g.members \subseteq u.members /\ third \in u.members /\ (based => first \in u.members)
    BY <2>1
  <2>7. /\ g.assigned \subseteq u.assigned /\ n \in u.assigned /\ (based => key \in u.assigned)
        /\ \A x \in u.assigned : x \in g.assigned \/ x = n \/ (based /\ x = key)
    BY <2>1
  <2>8. g.opened \subseteq u.opened /\ key \in u.opened
    BY <2>1
  <2>9. \A m \in g.members :
          /\ m[1] \in g.opened /\ m[2] \in g.assigned /\ m[2] \in names
          /\ m[3] = "primary" => m[1] = m[2]
          /\ m[3] = "companion" => BaseOf[m[2]] = m[1] /\ m[1] # m[2]
    BY Zenon DEF Grouped, names
  <2>10. ASSUME NEW m \in u.members
         PROVE  /\ m[1] \in u.opened /\ m[2] \in u.assigned /\ m[2] \in names
                /\ m[3] = "primary" => m[1] = m[2]
                /\ m[3] = "companion" => BaseOf[m[2]] = m[1] /\ m[1] # m[2]
    <3>1. CASE m \in g.members
      BY <2>7, <2>8, <2>9, <3>1, Zenon
    <3>2. CASE m = third
      BY <1>2, <2>2, <2>3, <2>4, <2>7, <2>8, <3>2, Zenon
    <3>3. CASE based /\ m = first
      BY <2>3, <2>7, <2>8, <3>3, Zenon
    <3>4. QED
      BY <2>5, <3>1, <3>2, <3>3, Zenon
  <2>11. \A x \in u.assigned : \E m \in u.members : m[2] = x
    <3>1. \A x \in g.assigned : \E m \in g.members : m[2] = x
      BY Zenon DEF Grouped
    <3>2. QED
      BY <2>2, <2>3, <2>6, <2>7, <3>1, Zenon
  <2>12. \A m1, m2 \in u.members : m1[2] = m2[2] => m1 = m2
    <3>1. \A m1, m2 \in g.members : m1[2] = m2[2] => m1 = m2
      BY Zenon DEF Grouped
    <3>2. \A m \in g.members : m[2] # n /\ (based => m[2] # key)
      BY <1>6, <2>9, Zenon
    <3>3. QED
      BY <2>2, <2>3, <2>4, <2>5, <3>1, <3>2, Zenon
  <2>13. u.opened \cap names \subseteq u.assigned
    <3>1. \A x \in g.opened : x \in names => x \in g.assigned
      BY DEF Grouped, names
    <3>2. key \in names => key \in u.assigned
      BY <2>7, <3>1, Zenon
    <3>3. \A x \in u.opened : x \in g.opened \/ x = key
      BY <2>1
    <3>4. \A x \in u.opened : x \in names => x \in u.assigned
      BY <2>7, <3>1, <3>2, <3>3, Zenon
    <3>5. QED
      BY <3>4
  <2>14. \A x \in u.ungrouped : BaseOf[x] = x
    BY <2>1, Zenon DEF Grouped
  <2>15. \A j \in 1 .. i : NameOf[files[j]] \in u.assigned \cup u.ungrouped
    <3>1. ASSUME NEW j \in 1 .. i - 1 PROVE NameOf[files[j]] \in u.assigned \cup u.ungrouped
      <4>1. NameOf[files[j]] \in g.assigned \cup g.ungrouped
        BY Zenon DEF Grouped
      <4>2. QED
        BY <2>1, <4>1
    <3>2. NameOf[files[i]] \in u.assigned \cup u.ungrouped
      BY <2>7 DEF n
    <3>3. QED
      BY <1>4, <3>1, <3>2, Zenon
  <2>16. Grouped(files, i, u)
    BY <2>1, <2>10, <2>11, <2>12, <2>13, <2>14, <2>15, Zenon DEF Grouped, names
  <2>17. QED
    BY <2>16 DEF u, n, names
<1>7. QED
  BY <1>5, <1>6

(* So the whole loop leaves every listed name in its place.                 *)
LEMMA GroupsMade ==
    ASSUME NEW files \in Seq(Sources)
    PROVE  Grouped(files, Len(files), GroupFiles(files, Len(files)))
<1> DEFINE S == {i \in 0 .. Len(files) : Grouped(files, i, GroupFiles(files, i))}
<1>1. Len(files) \in Nat /\ 0 \in 0 .. Len(files) /\ Len(files) \in 0 .. Len(files)
  BY LenProperties
<1>2. 0 \in S
  <2>1. GroupFiles(files, 0) = NoGroups
    BY GroupsStep
  <2>2. /\ NoGroups.members = {} /\ NoGroups.opened = {} /\ NoGroups.assigned = {}
        /\ NoGroups.ungrouped = {} /\ NoGroups \in GroupStates
    BY DEF NoGroups, GroupStates
  <2>3. Grouped(files, 0, NoGroups)
    BY <2>2 DEF Grouped
  <2>4. QED
    BY <1>1, <2>1, <2>3
<1>3. ASSUME NEW i \in 1 .. Len(files), i - 1 \in S PROVE i \in S
  <2>1. i \in 0 .. Len(files) /\ Grouped(files, i - 1, GroupFiles(files, i - 1))
    BY <1>1, <1>3
  <2>2. GroupFiles(files, i) = GroupFile(GroupFiles(files, i - 1), NameOf[files[i]], NamesOf(files))
    BY GroupsStep, Zenon
  <2>3. Grouped(files, i, GroupFile(GroupFiles(files, i - 1), NameOf[files[i]], NamesOf(files)))
    BY <2>1, GroupedNext
  <2>4. QED
    BY <2>1, <2>2, <2>3
<1> HIDE DEF S
<1>4. 0 .. Len(files) \subseteq S
  BY <1>1, <1>2, <1>3, Induct
<1>5. QED
  BY <1>1, <1>4 DEF S

(* Every listed name is in one group once, whatever lists the files.        *)
LEMMA NamesOnce == sources \in Seq(Sources) => EveryNameOnce
<1> SUFFICES ASSUME sources \in Seq(Sources) PROVE EveryNameOnce
  OBVIOUS
<1> DEFINE files == ResolveInputs(sources)
           g == GroupFiles(files, Len(files))
           names == NamesOf(files)
           alone == {<<n, n, "standalone">> : n \in g.ungrouped \ g.assigned}
           groups == SuggestGroups(files)
<1>1. files \in Seq(Sources)
  <2>1. Len(sources) \in 0 .. Len(sources)
    BY LenProperties
  <2>2. QED
    BY <2>1, PlacesStep DEF ResolveInputs
<1> HIDE DEF files
<1>2. Grouped(files, Len(files), g)
  BY <1>1, GroupsMade
<1>3. groups = g.members \cup alone
  BY Zenon DEF SuggestGroups
<1> HIDE DEF g, groups
<1>4. \A m \in alone : /\ m[1] \in g.ungrouped /\ m[1] \notin g.assigned /\ m[2] = m[1]
                       /\ m[3] = "standalone" /\ m = <<m[1], m[1], "standalone">>
  OBVIOUS
<1>5. \A m1, m2 \in alone : m1[2] = m2[2] => m1 = m2
  BY <1>4, Zenon
<1>6. \A n \in g.ungrouped \ g.assigned : \E m \in alone : m[2] = n
  <2>1. \A n : <<n, n, "standalone">>[2] = n
    OBVIOUS
  <2>2. \A n \in g.ungrouped \ g.assigned : <<n, n, "standalone">> \in alone
    OBVIOUS
  <2> HIDE DEF alone
  <2>3. QED
    BY <2>1, <2>2
<1> HIDE DEF alone
<1>7. ASSUME NEW n \in names PROVE Cardinality({m \in groups : m[2] = n}) = 1
  <2>1. n \in g.assigned \/ n \in g.ungrouped \ g.assigned
    <3>1. PICK j \in DOMAIN files : n = NameOf[files[j]]
      BY DEF NamesOf
    <3>2. j \in 1 .. Len(files)
      BY <1>1, <3>1, LenProperties
    <3>3. NameOf[files[j]] \in g.assigned \cup g.ungrouped
      BY <1>2, <3>2, Zenon DEF Grouped
    <3>4. QED
      BY <3>1, <3>3
  <2>2. PICK m \in groups : m[2] = n
    BY <1>2, <1>3, <1>6, <2>1 DEF Grouped
  <2>3. ASSUME NEW o \in groups, o[2] = n PROVE o = m
    <3>1. /\ m \in g.members \/ m \in alone
          /\ o \in g.members \/ o \in alone
      BY <1>3
    <3>2. \A x \in g.members : x[2] \in g.assigned
      BY <1>2, Zenon DEF Grouped
    <3>3. \A x \in alone : x[2] \notin g.assigned
      BY <1>4, Zenon
    <3>4. \A m1, m2 \in g.members : m1[2] = m2[2] => m1 = m2
      BY <1>2, Zenon DEF Grouped
    <3>5. QED
      BY <1>5, <2>2, <2>3, <3>1, <3>2, <3>3, <3>4, Zenon
  <2>4. {o \in groups : o[2] = n} = {m}
    BY <2>2, <2>3
  <2>5. QED
    BY <2>4, FS_Singleton
<1>8. ASSUME NEW m1 \in groups, NEW m2 \in groups, m1[1] = m2[1], m1[3] = "primary",
             m2[3] = "primary"
      PROVE  m1 = m2
  <2>1. "primary" # "standalone"
    OBVIOUS
  <2>2. m1 \in g.members /\ m2 \in g.members
    BY <1>3, <1>4, <1>8, <2>1
  <2>3. m1[1] = m1[2] /\ m2[1] = m2[2]
    BY <1>2, <1>8, <2>2, Zenon DEF Grouped
  <2>4. QED
    BY <1>2, <1>8, <2>2, <2>3, Zenon DEF Grouped
<1>9. ASSUME NEW m \in groups, m[3] = "companion", m[1] \in names, BaseOf[m[1]] = m[1]
      PROVE  <<m[1], m[1], "primary">> \in groups
  <2>1. "companion" # "standalone"
    OBVIOUS
  <2>2. m \in g.members
    BY <1>3, <1>4, <1>9, <2>1
  <2>3. m[1] \in g.opened
    BY <1>2, <2>2, Zenon DEF Grouped
  <2>4. m[1] \in g.assigned
    BY <1>2, <1>9, <2>3 DEF Grouped
  <2>5. PICK o \in g.members : o[2] = m[1]
    BY <1>2, <2>4, Zenon DEF Grouped
  <2>6. o \in AllNames \X AllNames \X {"primary", "companion"}
    BY <1>2, <2>5 DEF Grouped, GroupStates
  <2>7. o[3] # "companion"
    <3>1. o[3] = "companion" => BaseOf[o[2]] = o[1] /\ o[1] # o[2]
      BY <1>2, <2>5, Zenon DEF Grouped
    <3>2. BaseOf[o[2]] = o[2]
      BY <1>9, <2>5
    <3>3. QED
      BY <3>1, <3>2
  <2>8. o[3] = "primary" /\ o = <<o[1], o[2], o[3]>>
    BY <2>6, <2>7
  <2>9. o[1] = o[2]
    BY <1>2, <2>5, <2>8, Zenon DEF Grouped
  <2>10. o = <<m[1], m[1], "primary">>
    BY <2>5, <2>8, <2>9, Zenon
  <2>11. QED
    BY <1>3, <2>5, <2>10
<1>10. QED
  BY <1>7, <1>8, <1>9, Zenon DEF EveryNameOnce, groups, files

RootNames == ScanRoots \cup {"gone"}
Trees == [ScanRoots -> [SkillNames -> Version]]
Surfaces == {"agent", "workflow"}
ScanStates == [seen : SUBSET SkillNames, entries : SUBSET (RootNames \X SkillNames \X Surfaces),
               errors : SUBSET (RootNames \X (SkillNames \cup {""}))]

\* What one parsed file lists.
Listed(r, n, v) == {<<r, n, s>> : s \in v[2]}

(* A skill's file is not there, does not parse, or declares some surfaces.  *)
LEMMA Versions ==
    ASSUME NEW v \in Version
    PROVE  /\ v[1] = "parsed" <=> v # <<"none">> /\ v # <<"broken">>
           /\ v[1] = "parsed" => v[2] \subseteq Surfaces
           /\ v[1] = "parsed" => (v = <<"parsed", {}>> <=> v[2] = {})
           /\ v = <<"broken">> => v # <<"none">>
<1>1. v = <<"none">> \/ v = <<"broken">> \/ \E S \in SUBSET Surfaces : v = <<"parsed", S>>
  BY DEF Version, Surfaces
<1>2. CASE v = <<"none">> \/ v = <<"broken">>
  BY <1>2
<1>3. CASE \E S \in SUBSET Surfaces : v = <<"parsed", S>>
  <2>1. PICK S \in SUBSET Surfaces : v = <<"parsed", S>>
    BY <1>3
  <2>2. v[1] = "parsed" /\ v[2] = S /\ Len(v) = 2
    BY <2>1
  <2>3. v # <<"none">> /\ v # <<"broken">>
    BY <2>2
  <2>4. v = <<"parsed", {}>> <=> v[2] = {}
    BY <2>1
  <2>5. QED
    BY <2>2, <2>3, <2>4
<1>4. QED
  BY <1>1, <1>2, <1>3

(* A file is listed if it is the first of its name that parses; of what     *)
(* cannot be listed there is an error.                                      *)
LEMMA ScanSkillIs ==
    ASSUME NEW acc \in ScanStates, NEW r \in RootNames, NEW n \in SkillNames, NEW v \in Version
    PROVE  LET b     == ScanSkill(acc, r, n, v)
               fresh == v[1] = "parsed" /\ n \notin acc.seen
           IN  /\ b \in ScanStates
               /\ b.seen = acc.seen \cup (IF v[1] = "parsed" THEN {n} ELSE {})
               /\ b.entries = acc.entries \cup (IF fresh THEN Listed(r, n, v) ELSE {})
               /\ v = <<"broken">> => <<r, n>> \in b.errors
               /\ fresh /\ v[2] = {} => <<r, n>> \in b.errors
<1> DEFINE b == ScanSkill(acc, r, n, v)
           fresh == v[1] = "parsed" /\ n \notin acc.seen
           none == <<"none">>
           broken == <<"broken">>
           bare == <<"parsed", {}>>
           here == <<r, n>>
           listed == Listed(r, n, v)
<1>1. /\ v[1] = "parsed" <=> v # none /\ v # broken
      /\ v[1] = "parsed" => v[2] \subseteq Surfaces
      /\ v[1] = "parsed" => (v = bare <=> v[2] = {})
      /\ v = broken => v # none
  BY Versions, Zenon
<1>2. here \in RootNames \X (SkillNames \cup {""})
  OBVIOUS
<1>3. v[2] \subseteq Surfaces => listed \subseteq RootNames \X SkillNames \X Surfaces
  BY DEF Listed
<1>4. v[2] = {} => listed = {}
  BY DEF Listed
<1>5. b = IF v = none THEN acc
          ELSE IF v = broken THEN [acc EXCEPT !.errors = acc.errors \cup {here}]
          ELSE IF n \in acc.seen THEN acc
          ELSE IF v = bare
          THEN [acc EXCEPT !.seen = acc.seen \cup {n}, !.errors = acc.errors \cup {here}]
          ELSE [acc EXCEPT !.seen = acc.seen \cup {n}, !.entries = acc.entries \cup listed]
  BY Zenon DEF ScanSkill, Listed
<1> HIDE DEF none, broken, bare, here, listed, b
<1>6. CASE v = none
  <2>1. b = acc /\ v[1] # "parsed" /\ v # broken
    BY <1>1, <1>5, <1>6, Zenon
  <2>2. QED
    BY <2>1 DEF ScanStates, b, broken
<1>7. CASE v = broken
  <2>1. b = [acc EXCEPT !.errors = acc.errors \cup {here}] /\ v[1] # "parsed"
    BY <1>1, <1>5, <1>7, Zenon
  <2>2. b \in ScanStates /\ b.seen = acc.seen /\ b.entries = acc.entries /\ here \in b.errors
    BY <1>2, <2>1 DEF ScanStates
  <2>3. QED
    BY <2>1, <2>2 DEF b, here
<1>8. CASE v[1] = "parsed" /\ n \in acc.seen
  <2>1. b = acc /\ v # broken
    BY <1>1, <1>5, <1>8, Zenon
  <2>2. acc.seen = acc.seen \cup {n}
    BY <1>8
  <2>3. QED
    BY <1>8, <2>1, <2>2 DEF b, broken
<1>9. CASE fresh /\ v[2] = {}
  <2>1. b = [acc EXCEPT !.seen = acc.seen \cup {n}, !.errors = acc.errors \cup {here}]
    BY <1>1, <1>5, <1>9, Zenon
  <2>2. /\ b \in ScanStates /\ b.seen = acc.seen \cup {n} /\ b.entries = acc.entries
        /\ here \in b.errors
    BY <1>2, <2>1 DEF ScanStates
  <2>3. QED
    BY <1>4, <1>9, <2>2 DEF b, here, listed
<1>10. CASE fresh /\ v[2] # {}
  <2>1. b = [acc EXCEPT !.seen = acc.seen \cup {n}, !.entries = acc.entries \cup listed]
        /\ v # broken
    BY <1>1, <1>5, <1>10, Zenon
  <2>2. listed \subseteq RootNames \X SkillNames \X Surfaces
    BY <1>1, <1>3, <1>10, Zenon
  <2>3. b \in ScanStates /\ b.seen = acc.seen \cup {n} /\ b.entries = acc.entries \cup listed
    BY <2>1, <2>2 DEF ScanStates
  <2>4. QED
    BY <1>10, <2>1, <2>3 DEF b, broken, listed
<1>11. QED
  BY <1>1, <1>6, <1>7, <1>8, <1>9, <1>10, Zenon

(* A root adds the files it has that are the first of their names.          *)
LEMMA ScanRootIs ==
    ASSUME NEW acc \in ScanStates, NEW r \in RootNames, NEW tree \in Trees
    PROVE  LET u == ScanRoot(acc, r, tree)
               fresh(n) == tree[r][n][1] = "parsed" /\ n \notin acc.seen
           IN  /\ u \in ScanStates
               /\ acc.errors \subseteq u.errors
               /\ r = "gone" => u.seen = acc.seen /\ u.entries = acc.entries
               /\ r # "gone" => \A n \in SkillNames :
                    /\ n \in u.seen <=> n \in acc.seen \/ tree[r][n][1] = "parsed"
                    /\ {e \in u.entries : e[2] = n} =
                         {e \in acc.entries : e[2] = n}
                           \cup (IF fresh(n) THEN Listed(r, n, tree[r][n]) ELSE {})
                    /\ tree[r][n] = <<"broken">> => <<r, n>> \in u.errors
                    /\ fresh(n) /\ tree[r][n][2] = {} => <<r, n>> \in u.errors
<1> DEFINE u == ScanRoot(acc, r, tree)
           one(n) == ScanSkill(acc, r, n, tree[r][n])
           fresh(n) == tree[r][n][1] = "parsed" /\ n \notin acc.seen
<1>1. CASE r = "gone"
  <2> DEFINE note == <<r, "">>
  <2>1. u = [acc EXCEPT !.errors = acc.errors \cup {note}]
    BY <1>1, Zenon DEF ScanRoot
  <2>2. note \in RootNames \X (SkillNames \cup {""})
    OBVIOUS
  <2> HIDE DEF note, u
  <2>3. /\ u \in ScanStates /\ u.seen = acc.seen /\ u.entries = acc.entries
        /\ acc.errors \subseteq u.errors
    BY <2>1, <2>2 DEF ScanStates
  <2>4. QED
    BY <1>1, <2>3, Zenon DEF u
<1>2. CASE r # "gone"
  <2>1. \A n \in SkillNames : tree[r][n] \in Version
    BY <1>2 DEF RootNames, Trees
  <2>2. ASSUME NEW n \in SkillNames
        PROVE  /\ one(n) \in ScanStates
               /\ one(n).seen = acc.seen \cup (IF tree[r][n][1] = "parsed" THEN {n} ELSE {})
               /\ one(n).entries = acc.entries \cup (IF fresh(n) THEN Listed(r, n, tree[r][n]) ELSE {})
               /\ tree[r][n] = <<"broken">> => <<r, n>> \in one(n).errors
               /\ fresh(n) /\ tree[r][n][2] = {} => <<r, n>> \in one(n).errors
    BY <2>1, ScanSkillIs, Zenon
  <2>3. u = [seen    |-> acc.seen \cup UNION {one(n).seen : n \in SkillNames},
             entries |-> acc.entries \cup UNION {one(n).entries : n \in SkillNames},
             errors  |-> acc.errors \cup UNION {one(n).errors : n \in SkillNames}]
    BY <1>2, Zenon DEF ScanRoot
  <2> HIDE DEF one, u
  <2>4. /\ u.seen = acc.seen \cup UNION {one(n).seen : n \in SkillNames}
        /\ u.entries = acc.entries \cup UNION {one(n).entries : n \in SkillNames}
        /\ u.errors = acc.errors \cup UNION {one(n).errors : n \in SkillNames}
    BY <2>3
  <2>5. \A n \in SkillNames : /\ one(n).seen \subseteq SkillNames
                              /\ one(n).entries \subseteq RootNames \X SkillNames \X Surfaces
                              /\ one(n).errors \subseteq RootNames \X (SkillNames \cup {""})
    <3>1. \A b \in ScanStates : /\ b.seen \subseteq SkillNames
                                /\ b.entries \subseteq RootNames \X SkillNames \X Surfaces
                                /\ b.errors \subseteq RootNames \X (SkillNames \cup {""})
      BY DEF ScanStates
    <3>2. QED
      BY <2>2, <3>1, Zenon
  <2>6. u \in ScanStates
    <3> DEFINE P == RootNames \X SkillNames \X Surfaces
               Q == RootNames \X (SkillNames \cup {""})
    <3>1. acc.seen \subseteq SkillNames /\ acc.entries \subseteq P /\ acc.errors \subseteq Q
      BY DEF ScanStates
    <3>2. \A n \in SkillNames : /\ one(n).seen \subseteq SkillNames
                                /\ one(n).entries \subseteq P /\ one(n).errors \subseteq Q
      BY <2>5
    <3> HIDE DEF P, Q
    <3>3. u.seen \subseteq SkillNames /\ u.entries \subseteq P /\ u.errors \subseteq Q
      BY <2>4, <3>1, <3>2
    <3>4. u \in [seen : SUBSET SkillNames, entries : SUBSET P, errors : SUBSET Q]
      BY <2>3, <2>4, <3>3
    <3>5. QED
      BY <3>4, Zenon DEF ScanStates, P, Q
  <2>7. acc.errors \subseteq u.errors
    BY <2>4
  <2>8. ASSUME NEW n \in SkillNames
        PROVE  /\ n \in u.seen <=> n \in acc.seen \/ tree[r][n][1] = "parsed"
               /\ {e \in u.entries : e[2] = n} =
                    {e \in acc.entries : e[2] = n}
                      \cup (IF fresh(n) THEN Listed(r, n, tree[r][n]) ELSE {})
               /\ tree[r][n] = <<"broken">> => <<r, n>> \in u.errors
               /\ fresh(n) /\ tree[r][n][2] = {} => <<r, n>> \in u.errors
    <3>1. n \in u.seen <=> n \in acc.seen \/ tree[r][n][1] = "parsed"
      <4> DEFINE parsed(m) == tree[r][m][1] = "parsed"
      <4>1. \A m \in SkillNames : one(m).seen = acc.seen \cup (IF parsed(m) THEN {m} ELSE {})
        BY <2>2, Zenon
      <4>2. n \in u.seen <=> n \in acc.seen \/ \E m \in SkillNames : n \in one(m).seen
        BY <2>4
      <4> HIDE DEF parsed
      <4>3. \A m \in SkillNames : n \in one(m).seen <=> n \in acc.seen \/ (parsed(m) /\ m = n)
        BY <4>1
      <4>4. QED
        BY <4>2, <4>3, Zenon DEF parsed
    <3>2. one(n).errors \subseteq u.errors
      BY <2>4
    <3>3. /\ tree[r][n] = <<"broken">> => <<r, n>> \in u.errors
          /\ fresh(n) /\ tree[r][n][2] = {} => <<r, n>> \in u.errors
      BY <2>2, <3>2
    <3> DEFINE New(m) == IF fresh(m) THEN Listed(r, m, tree[r][m]) ELSE {}
    <3>4. \A m : \A e \in New(m) : e[2] = m
      BY DEF Listed
    <3>5. \A m \in SkillNames : one(m).entries = acc.entries \cup New(m)
      BY <2>2, Zenon
    <3> HIDE DEF New
    <3>6. \A e : e \in u.entries <=> e \in acc.entries \/ \E m \in SkillNames : e \in New(m)
      <4>1. \A e : e \in u.entries <=> e \in acc.entries \/ \E m \in SkillNames : e \in one(m).entries
        BY <2>4
      <4>2. QED
        BY <3>5, <4>1
    <3>7. {e \in u.entries : e[2] = n} = {e \in acc.entries : e[2] = n} \cup New(n)
      BY <3>4, <3>6
    <3>8. QED
      BY <3>1, <3>3, <3>7, Zenon DEF New
  <2>9. QED
    BY <1>2, <2>6, <2>7, <2>8, Zenon DEF u
<1>3. QED
  BY <1>1, <1>2

(* The scan, one root after the other.                                      *)
LEMMA RootsStep ==
    ASSUME NEW roots \in Seq(RootNames), NEW tree \in Trees
    PROVE  /\ RootsScanned(roots, tree, 0) = NothingScanned
           /\ \A n \in 1 .. Len(roots) : RootsScanned(roots, tree, n) =
                ScanRoot(RootsScanned(roots, tree, n - 1), roots[n], tree)
           /\ \A n \in 0 .. Len(roots) : RootsScanned(roots, tree, n) \in ScanStates
<1> DEFINE len == Len(roots)
           base == NothingScanned
           Meant(f) == f = [i \in 0 .. len |-> IF i = 0 THEN base ELSE ScanRoot(f[i - 1], roots[i], tree)]
<1>1. len \in Nat /\ \A i \in 1 .. len : roots[i] \in RootNames
  BY LenProperties, ElementOfSeq
<1>2. base \in ScanStates
  BY DEF NothingScanned, ScanStates
<1>3. ASSUME NEW i \in 1 .. len, NEW acc \in ScanStates PROVE ScanRoot(acc, roots[i], tree) \in ScanStates
  BY <1>1, ScanRootIs, Zenon
<1> HIDE DEF base
<1>4. \E f : Meant(f)
  <2> DEFINE g == [p \in (1 .. len) \X ScanStates |-> ScanRoot(p[2], roots[p[1]], tree)]
  <2>1. g \in [(1 .. len) \X ScanStates -> ScanStates]
    <3>1. \A p \in (1 .. len) \X ScanStates : p[1] \in 1 .. len /\ p[2] \in ScanStates
      OBVIOUS
    <3>2. \A p \in (1 .. len) \X ScanStates : ScanRoot(p[2], roots[p[1]], tree) \in ScanStates
      BY <1>3, <3>1, Zenon
    <3>3. QED
      BY <3>2
  <2> HIDE DEF g
  <2>2. PICK f \in [0 .. len -> ScanStates] : Steps(f, len, base, g)
    BY <1>1, <1>2, <2>1, Recursion
  <2>3. ASSUME NEW i \in 1 .. len PROVE f[i] = ScanRoot(f[i - 1], roots[i], tree)
    <3>1. i - 1 \in 0 .. len
      BY <1>1
    <3>2. <<i, f[i - 1]>> \in (1 .. len) \X ScanStates
      BY <3>1
    <3>3. g[<<i, f[i - 1]>>] = ScanRoot(f[i - 1], roots[i], tree)
      BY <3>2 DEF g
    <3>4. QED
      BY <2>2, <3>3, Zenon DEF Steps
  <2>4. f = [i \in 0 .. len |-> f[i]]
    OBVIOUS
  <2>5. \A i \in 0 .. len : i = 0 \/ i \in 1 .. len
    BY <1>1
  <2>6. \A i \in 0 .. len : f[i] = IF i = 0 THEN base ELSE ScanRoot(f[i - 1], roots[i], tree)
    BY <2>2, <2>3, <2>5, Zenon DEF Steps
  <2>7. QED
    BY <2>4, <2>6, Zenon
<1>5. PICK f : Meant(f) /\ \A n : RootsScanned(roots, tree, n) = f[n]
  <2> DEFINE f == CHOOSE f : Meant(f)
  <2>1. Meant(f)
    BY <1>4, Zenon
  <2>2. \A n : RootsScanned(roots, tree, n) = f[n]
    BY Zenon DEF RootsScanned, base
  <2> HIDE DEF f
  <2>3. QED
    BY <2>1, <2>2, Zenon
<1>6. \A i \in 0 .. len : f[i] = IF i = 0 THEN base ELSE ScanRoot(f[i - 1], roots[i], tree)
  BY <1>5, Zenon
<1>7. 0 \in 0 .. len /\ \A i \in 1 .. len : i \in 0 .. len /\ i # 0
  BY <1>1
<1>8. f[0] = base /\ \A i \in 1 .. len : f[i] = ScanRoot(f[i - 1], roots[i], tree)
  BY <1>6, <1>7, Zenon
<1>9. \A i \in 0 .. len : f[i] \in ScanStates
  <2> HIDE DEF Meant
  <2> DEFINE S == {i \in 0 .. len : f[i] \in ScanStates}
  <2>1. 0 \in S
    BY <1>2, <1>7, <1>8, Zenon
  <2>2. ASSUME NEW i \in 1 .. len, i - 1 \in S PROVE i \in S
    <3>1. f[i - 1] \in ScanStates
      BY <2>2, Zenon
    <3>2. f[i] \in ScanStates
      BY <1>3, <1>8, <3>1, Zenon
    <3>3. QED
      BY <1>7, <3>2, Zenon
  <2> HIDE DEF S
  <2>3. 0 .. len \subseteq S
    BY <1>1, <2>1, <2>2, Induct
  <2>4. QED
    BY <2>3 DEF S
<1>10. QED
  BY <1>5, <1>8, <1>9, Zenon DEF base

\* The roots among the first i that have a readable file of a skill.
Readable(roots, tree, n, i) ==
    {j \in 1 .. i : roots[j] # "gone" /\ tree[roots[j]][n][1] = "parsed"}

\* What the scan of the first i roots says of every skill.
ScannedRight(roots, tree, i, acc) ==
    /\ acc \in ScanStates
    /\ \A n \in SkillNames :
         /\ n \in acc.seen <=> Readable(roots, tree, n, i) # {}
         /\ Readable(roots, tree, n, i) = {} => {e \in acc.entries : e[2] = n} = {}
         /\ \A j \in Readable(roots, tree, n, i) :
              (\A k \in Readable(roots, tree, n, i) : j <= k) =>
                /\ {e \in acc.entries : e[2] = n} = Listed(roots[j], n, tree[roots[j]][n])
                /\ tree[roots[j]][n][2] = {} => <<roots[j], n>> \in acc.errors
         /\ \A j \in 1 .. i : roots[j] # "gone" /\ tree[roots[j]][n] = <<"broken">> =>
              <<roots[j], n>> \in acc.errors

(* One more root keeps that: it adds what no earlier one could list.        *)
LEMMA ScannedNext ==
    ASSUME NEW roots \in Seq(RootNames), NEW tree \in Trees, NEW i \in 1 .. Len(roots), NEW acc,
           ScannedRight(roots, tree, i - 1, acc)
    PROVE  ScannedRight(roots, tree, i, ScanRoot(acc, roots[i], tree))
<1> DEFINE r == roots[i]
           u == ScanRoot(acc, r, tree)
           old(n) == Readable(roots, tree, n, i - 1)
           new(n) == Readable(roots, tree, n, i)
           fresh(n) == tree[r][n][1] = "parsed" /\ n \notin acc.seen
<1>1. Len(roots) \in Nat /\ r \in RootNames
  BY LenProperties, ElementOfSeq
<1>2. acc \in ScanStates
  BY Zenon DEF ScannedRight
<1>3. /\ u \in ScanStates /\ acc.errors \subseteq u.errors
      /\ r = "gone" => u.seen = acc.seen /\ u.entries = acc.entries
      /\ r # "gone" => \A n \in SkillNames :
           /\ n \in u.seen <=> n \in acc.seen \/ tree[r][n][1] = "parsed"
           /\ {e \in u.entries : e[2] = n} =
                {e \in acc.entries : e[2] = n}
                  \cup (IF fresh(n) THEN Listed(r, n, tree[r][n]) ELSE {})
           /\ tree[r][n] = <<"broken">> => <<r, n>> \in u.errors
           /\ fresh(n) /\ tree[r][n][2] = {} => <<r, n>> \in u.errors
  BY <1>1, <1>2, ScanRootIs, Zenon
<1>4. /\ \A j \in 1 .. i : j = i \/ j \in 1 .. i - 1
      /\ \A j \in 1 .. i - 1 : j \in 1 .. i /\ j <= i /\ j # i /\ ~(i <= j)
      /\ i \in 1 .. i /\ i <= i
  BY <1>1
<1> HIDE DEF u
<1>5. ASSUME NEW n \in SkillNames
      PROVE  /\ n \in u.seen <=> new(n) # {}
             /\ new(n) = {} => {e \in u.entries : e[2] = n} = {}
             /\ \A j \in new(n) : (\A k \in new(n) : j <= k) =>
                  /\ {e \in u.entries : e[2] = n} = Listed(roots[j], n, tree[roots[j]][n])
                  /\ tree[roots[j]][n][2] = {} => <<roots[j], n>> \in u.errors
             /\ \A j \in 1 .. i : roots[j] # "gone" /\ tree[roots[j]][n] = <<"broken">> =>
                  <<roots[j], n>> \in u.errors
  <2> DEFINE was == {e \in acc.entries : e[2] = n}
             now == {e \in u.entries : e[2] = n}
  <2>1. /\ n \in acc.seen <=> old(n) # {}
        /\ old(n) = {} => was = {}
        /\ \A j \in old(n) : (\A k \in old(n) : j <= k) =>
             /\ was = Listed(roots[j], n, tree[roots[j]][n])
             /\ tree[roots[j]][n][2] = {} => <<roots[j], n>> \in acc.errors
        /\ \A j \in 1 .. i - 1 : roots[j] # "gone" /\ tree[roots[j]][n] = <<"broken">> =>
             <<roots[j], n>> \in acc.errors
    BY Zenon DEF ScannedRight
  <2>2. /\ \A j : j \in old(n) => j \in new(n) /\ j <= i /\ ~(i <= j)
        /\ \A j : j \in new(n) => j \in old(n) \/ j = i
        /\ i \in new(n) <=> r # "gone" /\ tree[r][n][1] = "parsed"
    BY <1>4, Zenon DEF Readable
  <2>3. \A j \in 1 .. i : roots[j] # "gone" /\ tree[roots[j]][n] = <<"broken">> =>
          <<roots[j], n>> \in u.errors
    <3>1. ASSUME NEW j \in 1 .. i - 1, roots[j] # "gone" /\ tree[roots[j]][n] = <<"broken">>
          PROVE  <<roots[j], n>> \in u.errors
      <4>1. <<roots[j], n>> \in acc.errors
        BY <2>1, <3>1, Zenon
      <4>2. QED
        BY <1>3, <4>1
    <3>2. roots[i] # "gone" /\ tree[roots[i]][n] = <<"broken">> => <<roots[i], n>> \in u.errors
      BY <1>3, Zenon
    <3>3. QED
      BY <1>4, <3>1, <3>2, Zenon
  <2> HIDE DEF was, now, old, new
  \* The root adds nothing to the skill.
  <2>4. CASE i \notin new(n)
    <3>1. \A j : j \in new(n) <=> j \in old(n)
      BY <2>2, <2>4, Zenon
    <3>2. new(n) = old(n)
      BY <3>1
    <3>3. now = was
      BY <1>3, <2>2, <2>4 DEF now, was
    <3>4. n \in u.seen <=> n \in acc.seen
      BY <1>3, <2>2, <2>4, Zenon
    <3>5. \A j \in old(n) : <<roots[j], n>> \in acc.errors => <<roots[j], n>> \in u.errors
      BY <1>3
    <3>6. QED
      BY <2>1, <2>3, <3>2, <3>3, <3>4, <3>5, Zenon DEF now
  \* An earlier root has it already.
  <2>5. CASE i \in new(n) /\ old(n) # {}
    <3>1. r # "gone" /\ n \in acc.seen /\ n \in u.seen
      BY <1>3, <2>1, <2>2, <2>5, Zenon
    <3>2. now = was
      BY <1>3, <3>1 DEF now, was
    <3>3. \A j \in new(n) : (\A k \in new(n) : j <= k) =>
            j \in old(n) /\ \A k \in old(n) : j <= k
      <4>1. PICK k \in old(n) : TRUE
        BY <2>5
      <4>2. QED
        BY <2>2, <4>1, Zenon
    <3>4. \A j \in old(n) : <<roots[j], n>> \in acc.errors => <<roots[j], n>> \in u.errors
      BY <1>3
    <3>5. QED
      BY <2>1, <2>3, <2>5, <3>1, <3>2, <3>3, <3>4, Zenon DEF now
  \* The root is the first that has it.
  <2>6. CASE i \in new(n) /\ old(n) = {}
    <3>1. r # "gone" /\ fresh(n) /\ n \in u.seen
      BY <1>3, <2>1, <2>2, <2>6, Zenon
    <3>2. was = {}
      BY <2>1, <2>6
    <3>3. now = was \cup Listed(r, n, tree[r][n])
      BY <1>3, <3>1, Zenon DEF now, was
    <3>4. now = Listed(r, n, tree[r][n])
      BY <3>2, <3>3
    <3>5. \A j \in new(n) : j = i
      BY <2>2, <2>6, Zenon
    <3>6. tree[r][n][2] = {} => <<r, n>> \in u.errors
      BY <1>3, <3>1, Zenon
    <3>7. QED
      BY <2>3, <2>6, <3>1, <3>4, <3>5, <3>6, Zenon DEF now
  <2>7. QED
    BY <2>4, <2>5, <2>6
<1>6. ScannedRight(roots, tree, i, u)
  BY <1>3, <1>5, Zenon DEF ScannedRight
<1>7. QED
  BY <1>6 DEF u

(* So the whole scan says it of every root.                                 *)
LEMMA RootsRight ==
    ASSUME NEW roots \in Seq(RootNames), NEW tree \in Trees
    PROVE  ScannedRight(roots, tree, Len(roots), RootsScanned(roots, tree, Len(roots)))
<1> DEFINE S == {i \in 0 .. Len(roots) : ScannedRight(roots, tree, i, RootsScanned(roots, tree, i))}
<1>1. Len(roots) \in Nat /\ 0 \in 0 .. Len(roots) /\ Len(roots) \in 0 .. Len(roots)
  BY LenProperties
<1>2. 0 \in S
  <2>1. RootsScanned(roots, tree, 0) = NothingScanned
    BY RootsStep
  <2>2. /\ NothingScanned \in ScanStates /\ NothingScanned.seen = {}
        /\ NothingScanned.entries = {}
    BY DEF NothingScanned, ScanStates
  <2>3. 1 .. 0 = {}
    OBVIOUS
  <2>4. \A n : Readable(roots, tree, n, 0) = {}
    BY <2>3 DEF Readable
  <2>5. \A n : {e \in NothingScanned.entries : e[2] = n} = {}
    BY <2>2
  <2>6. ScannedRight(roots, tree, 0, NothingScanned)
    BY <2>2, <2>3, <2>4, <2>5 DEF ScannedRight
  <2>7. QED
    BY <1>1, <2>1, <2>6
<1>3. ASSUME NEW i \in 1 .. Len(roots), i - 1 \in S PROVE i \in S
  <2>1. i \in 0 .. Len(roots) /\ ScannedRight(roots, tree, i - 1, RootsScanned(roots, tree, i - 1))
    BY <1>1, <1>3
  <2>2. RootsScanned(roots, tree, i) = ScanRoot(RootsScanned(roots, tree, i - 1), roots[i], tree)
    BY RootsStep, Zenon
  <2>3. ScannedRight(roots, tree, i, ScanRoot(RootsScanned(roots, tree, i - 1), roots[i], tree))
    BY <2>1, ScannedNext
  <2>4. QED
    BY <2>1, <2>2, <2>3
<1> HIDE DEF S
<1>4. 0 .. Len(roots) \subseteq S
  BY <1>1, <1>2, <1>3, Induct
<1>5. QED
  BY <1>1, <1>4 DEF S

ScanTypes == skills \in [roots : Seq(RootNames), tree : Trees]

(* The first readable copy of every skill is listed, whatever the           *)
(* directories hold.                                                        *)
LEMMA FirstCopies == ScanTypes => FirstReadableWins
<1> SUFFICES ASSUME ScanTypes PROVE FirstReadableWins
  OBVIOUS
<1> DEFINE tree == skills.tree
           roots == ScannedRoots(skills.roots)
           found == ScanSkills(skills.roots, tree)
           readable(n) == {i \in DOMAIN roots : roots[i] # "gone" /\ tree[roots[i]][n][1] = "parsed"}
           first(n) == CHOOSE i \in readable(n) : \A j \in readable(n) : i <= j
<1>1. tree \in Trees /\ roots \in Seq(RootNames)
  <2>1. tree \in Trees /\ skills.roots \in Seq(RootNames)
    BY DEF ScanTypes
  <2>2. Len(skills.roots) \in 0 .. Len(skills.roots)
    BY <2>1, LenProperties
  <2>3. QED
    BY <2>1, <2>2, PlacesStep DEF ScannedRoots
<1>2. found = RootsScanned(roots, tree, Len(roots))
  BY Zenon DEF ScanSkills
<1> HIDE DEF tree, roots, found
<1>3. ScannedRight(roots, tree, Len(roots), found)
  BY <1>1, <1>2, RootsRight
<1>4. DOMAIN roots = 1 .. Len(roots) /\ Len(roots) \in Nat
  BY <1>1, LenProperties
<1>5. \A n : readable(n) = Readable(roots, tree, n, Len(roots))
  BY <1>4, Zenon DEF Readable
<1>6. ASSUME NEW n \in SkillNames, readable(n) = {}
      PROVE  /\ {e \in found.entries : e[2] = n} = {}
             /\ \A r \in {roots[i] : i \in DOMAIN roots} \ {"gone"} :
                  tree[r][n] = <<"broken">> => <<r, n>> \in found.errors
  <2>1. {e \in found.entries : e[2] = n} = {}
    BY <1>3, <1>5, <1>6, Zenon DEF ScannedRight
  <2>2. ASSUME NEW r \in {roots[i] : i \in DOMAIN roots} \ {"gone"}, tree[r][n] = <<"broken">>
        PROVE  <<r, n>> \in found.errors
    <3>1. PICK i \in DOMAIN roots : r = roots[i] /\ r # "gone"
      OBVIOUS
    <3>2. QED
      BY <1>3, <1>4, <2>2, <3>1, Zenon DEF ScannedRight
  <2>3. QED
    BY <2>1, <2>2
<1>7. ASSUME NEW n \in SkillNames, readable(n) # {}
      PROVE  LET r == roots[first(n)]
                 listed == {e \in found.entries : e[2] = n}
             IN  /\ listed = {<<r, n, s>> : s \in tree[r][n][2]}
                 /\ listed = {} => <<r, n>> \in found.errors
  <2> DEFINE i == first(n)
             r == roots[i]
             listed == {e \in found.entries : e[2] = n}
             surfaces == tree[r][n][2]
             entries == {<<r, n, s>> : s \in surfaces}
  <2>1. i \in readable(n) /\ \A j \in readable(n) : i <= j
    <3>1. readable(n) \subseteq Nat
      BY <1>4
    <3> HIDE DEF readable
    <3>2. \E j \in readable(n) : \A k \in readable(n) : j <= k
      BY <1>7, <3>1, LeastNat
    <3>3. QED
      BY <3>2
  <2> HIDE DEF readable, i
  <2>2. /\ listed = Listed(r, n, tree[r][n])
        /\ surfaces = {} => <<r, n>> \in found.errors
    BY <1>3, <1>5, <2>1, Zenon DEF ScannedRight
  <2>3. listed = entries
    BY <2>2, Zenon DEF Listed
  <2>4. entries = {} => surfaces = {}
    <3> HIDE DEF surfaces
    <3>1. \A s \in surfaces : <<r, n, s>> \in entries
      OBVIOUS
    <3> HIDE DEF entries
    <3>2. QED
      BY <3>1
  <2>5. QED
    BY <2>2, <2>3, <2>4, Zenon DEF i, readable
<1>8. QED
  BY <1>6, <1>7, Zenon DEF FirstReadableWins, tree, roots, found

(* Both surveys are complete, whatever files are listed and whatever the    *)
(* directories hold.                                                        *)
THEOREM SurveysCorrect == SourcesSpec /\ ScanSpec => []SurveysAreComplete
<1> DEFINE Types == sources \in Seq(Sources) /\ ScanTypes
           Nexts == [SourcesNext]_sourceVars /\ [ScanNext]_scanVars
<1>1. SourcesInit /\ ScanInit => Types
  <2> SUFFICES ASSUME SourcesInit, ScanInit PROVE Types
    OBVIOUS
  <2>1. sources \in Seq(Sources)
    BY EmptySeq DEF SourcesInit
  <2> DEFINE none == <<>>
             v == <<"none">>
             tree == [r \in ScanRoots |-> [n \in SkillNames |-> v]]
  <2>2. none \in Seq(RootNames) /\ v \in Version
    BY EmptySeq DEF Version
  <2>3. skills = [roots |-> none, tree |-> tree]
    BY Zenon DEF ScanInit
  <2> HIDE DEF none, v
  <2>4. tree \in Trees
    BY <2>2 DEF Trees
  <2>5. ScanTypes
    <3> HIDE DEF tree
    <3>1. QED
      BY <2>2, <2>3, <2>4 DEF ScanTypes
  <2>6. QED
    BY <2>1, <2>5
<1>2. Types /\ Nexts => Types'
  <2> SUFFICES ASSUME Types, Nexts PROVE Types'
    OBVIOUS
  <2>1. (sources \in Seq(Sources))'
    <3>1. \/ sources' = sources
          \/ \E f \in Sources : sources' = Append(sources, f)
      BY DEF SourcesNext, ListFile, sourceVars
    <3>2. QED
      BY <3>1, AppendProperties
  <2>2. ScanTypes'
    <3>1. CASE UNCHANGED scanVars
      BY <3>1 DEF scanVars, ScanTypes
    <3>2. ASSUME NEW r \in ScanRoots \cup {"gone"}, NameRoot(r) PROVE ScanTypes'
      <4> DEFINE more == Append(skills.roots, r)
      <4>1. skills' = [skills EXCEPT !.roots = more]
        BY <3>2, Zenon DEF NameRoot
      <4>2. more \in Seq(RootNames)
        BY AppendProperties DEF ScanTypes, RootNames
      <4> HIDE DEF more
      <4>3. QED
        BY <4>1, <4>2 DEF ScanTypes
    <3>3. ASSUME NEW r \in ScanRoots, NEW n \in SkillNames, NEW v \in Version, WriteSkill(r, n, v)
          PROVE  ScanTypes'
      <4>1. skills' = [skills EXCEPT !.tree[r][n] = v]
        BY <3>3, Zenon DEF WriteSkill
      <4> DEFINE grown == [skills.tree EXCEPT ![r][n] = v]
      <4>2. skills.tree \in Trees
        BY DEF ScanTypes
      <4>3. grown \in Trees
        BY <4>2 DEF Trees
      <4>4. skills' = [skills EXCEPT !.tree = grown]
        BY <4>1
      <4> HIDE DEF grown
      <4>5. QED
        BY <4>3, <4>4 DEF ScanTypes
    <3>4. QED
      BY <3>1, <3>2, <3>3, Zenon DEF ScanNext
  <2>3. QED
    BY <2>1, <2>2
<1>3. Types => SurveysAreComplete
  BY NamesOnce, FirstCopies, Zenon DEF SurveysAreComplete
<1>4. QED
  BY <1>1, <1>2, <1>3, PTL DEF SourcesSpec, ScanSpec

-----------------------------------------------------------------------------
(* Layers of configuration                                                  *)

\* r is s with x behind it, or in the place of an item with its key.
IsPut(s, x, f, r) ==
    \/ /\ \A m \in 1 .. Len(s) : s[m][f] # x[f]
       /\ Len(r) = Len(s) + 1 /\ r[Len(s) + 1] = x
       /\ \A m \in 1 .. Len(s) : r[m] = s[m]
    \/ \E p \in 1 .. Len(s) :
          /\ s[p][f] = x[f] /\ Len(r) = Len(s) /\ r[p] = x
          /\ \A m \in 1 .. Len(s) : m # p => r[m] = s[m]

(* An item is put in the place of the last one with its key, or behind all. *)
LEMMA PutIs ==
    ASSUME NEW I, NEW s \in Seq(I), NEW x \in I, NEW f
    PROVE  Put(s, x, f) \in Seq(I) /\ IsPut(s, x, f, Put(s, x, f))
<1> DEFINE same == {i \in DOMAIN s : s[i][f] = x[f]}
           p    == CHOOSE i \in same : \A j \in same : j <= i
           r    == Put(s, x, f)
<1>1. DOMAIN s = 1 .. Len(s) /\ Len(s) \in Nat
  BY LenProperties
<1>2. CASE same = {}
  <2>1. r = Append(s, x)
    BY <1>2, Zenon DEF Put
  <2>2. \A m \in 1 .. Len(s) : s[m][f] # x[f]
    BY <1>1, <1>2, Zenon
  <2> HIDE DEF r, same
  <2>3. r \in Seq(I) /\ Len(r) = Len(s) + 1 /\ r[Len(s) + 1] = x /\ \A m \in 1 .. Len(s) : r[m] = s[m]
    BY <2>1, AppendProperties
  <2>4. QED
    BY <2>2, <2>3, Zenon DEF r, IsPut
<1>3. CASE same # {}
  <2>1. same \subseteq 1 .. Len(s) /\ \A i \in same : i \in 1 .. Len(s) /\ s[i][f] = x[f]
    BY <1>1, Zenon
  <2>2. r = [s EXCEPT ![p] = x]
    BY <1>3, Zenon DEF Put
  <2> HIDE DEF same
  <2>3. \E i \in same : \A j \in same : j <= i
    BY <1>1, <1>3, <2>1, GreatestNat
  <2>4. p \in same
    BY <2>3, Zenon
  <2> HIDE DEF p, r
  <2>5. p \in 1 .. Len(s) /\ s[p][f] = x[f]
    BY <2>1, <2>4, Zenon
  <2>6. r \in Seq(I) /\ Len(r) = Len(s) /\ \A m \in 1 .. Len(s) : r[m] = IF m = p THEN x ELSE s[m]
    BY <1>1, <2>2, <2>5, ExceptSeq
  <2>7. r[p] = x /\ \A m \in 1 .. Len(s) : m # p => r[m] = s[m]
    BY <2>5, <2>6, Zenon
  <2>8. QED
    BY <2>5, <2>6, <2>7, Zenon DEF r, IsPut
<1>4. QED
  BY <1>2, <1>3, Zenon

(* The items, one put after the other.                                      *)
LEMMA PutsStep ==
    ASSUME NEW I, NEW old \in Seq(I), NEW over \in Seq(I), NEW f
    PROVE  /\ PutFirst(old, over, f, 0) = old
           /\ \A n \in 1 .. Len(over) : PutFirst(old, over, f, n) =
                Put(PutFirst(old, over, f, n - 1), over[n], f)
           /\ \A n \in 0 .. Len(over) : PutFirst(old, over, f, n) \in Seq(I)
<1> DEFINE len == Len(over)
           base == old
           Meant(h) == h = [i \in 0 .. len |-> IF i = 0 THEN base ELSE Put(h[i - 1], over[i], f)]
<1>1. len \in Nat /\ \A i \in 1 .. len : over[i] \in I
  BY LenProperties, ElementOfSeq
<1>2. base \in Seq(I)
  OBVIOUS
<1>3. ASSUME NEW i \in 1 .. len, NEW s \in Seq(I) PROVE Put(s, over[i], f) \in Seq(I)
  BY <1>1, PutIs, Zenon
<1> HIDE DEF base
<1>4. \E h : Meant(h)
  <2> DEFINE g == [p \in (1 .. len) \X Seq(I) |-> Put(p[2], over[p[1]], f)]
  <2>1. g \in [(1 .. len) \X Seq(I) -> Seq(I)]
    <3>1. \A p \in (1 .. len) \X Seq(I) : p[1] \in 1 .. len /\ p[2] \in Seq(I)
      OBVIOUS
    <3>2. \A p \in (1 .. len) \X Seq(I) : Put(p[2], over[p[1]], f) \in Seq(I)
      BY <1>3, <3>1, Zenon
    <3>3. QED
      BY <3>2
  <2> HIDE DEF g
  <2>2. PICK h \in [0 .. len -> Seq(I)] : Steps(h, len, base, g)
    BY <1>1, <1>2, <2>1, Recursion
  <2>3. ASSUME NEW i \in 1 .. len PROVE h[i] = Put(h[i - 1], over[i], f)
    <3>1. i - 1 \in 0 .. len
      BY <1>1
    <3>2. <<i, h[i - 1]>> \in (1 .. len) \X Seq(I)
      BY <3>1
    <3>3. g[<<i, h[i - 1]>>] = Put(h[i - 1], over[i], f)
      BY <3>2 DEF g
    <3>4. QED
      BY <2>2, <3>3, Zenon DEF Steps
  <2>4. h = [i \in 0 .. len |-> h[i]]
    OBVIOUS
  <2>5. \A i \in 0 .. len : i = 0 \/ i \in 1 .. len
    BY <1>1
  <2>6. \A i \in 0 .. len : h[i] = IF i = 0 THEN base ELSE Put(h[i - 1], over[i], f)
    BY <2>2, <2>3, <2>5, Zenon DEF Steps
  <2>7. QED
    BY <2>4, <2>6, Zenon
<1>5. PICK h : Meant(h) /\ \A n : PutFirst(old, over, f, n) = h[n]
  <2> DEFINE h == CHOOSE h : Meant(h)
  <2>1. Meant(h)
    BY <1>4, Zenon
  <2>2. \A n : PutFirst(old, over, f, n) = h[n]
    BY Zenon DEF PutFirst, base
  <2> HIDE DEF h
  <2>3. QED
    BY <2>1, <2>2, Zenon
<1>6. \A i \in 0 .. len : h[i] = IF i = 0 THEN base ELSE Put(h[i - 1], over[i], f)
  BY <1>5, Zenon
<1>7. 0 \in 0 .. len /\ \A i \in 1 .. len : i \in 0 .. len /\ i # 0
  BY <1>1
<1>8. h[0] = base /\ \A i \in 1 .. len : h[i] = Put(h[i - 1], over[i], f)
  BY <1>6, <1>7, Zenon
<1>9. \A i \in 0 .. len : h[i] \in Seq(I)
  <2> HIDE DEF Meant
  <2> DEFINE S == {i \in 0 .. len : h[i] \in Seq(I)}
  <2>1. 0 \in S
    BY <1>2, <1>7, <1>8, Zenon
  <2>2. ASSUME NEW i \in 1 .. len, i - 1 \in S PROVE i \in S
    <3>1. h[i - 1] \in Seq(I)
      BY <2>2, Zenon
    <3>2. h[i] \in Seq(I)
      BY <1>3, <1>8, <3>1, Zenon
    <3>3. QED
      BY <1>7, <3>2, Zenon
  <2> HIDE DEF S
  <2>3. 0 .. len \subseteq S
    BY <1>1, <2>1, <2>2, Induct
  <2>4. QED
    BY <2>3 DEF S
<1>10. QED
  BY <1>5, <1>8, <1>9, Zenon DEF base

\* A sequence of items has no key twice.
OneEach(s, f) == \A i, j \in 1 .. Len(s) : s[i][f] = s[j][f] => i = j

\* What some items are after the first n of others have been put over them: the
\* same keys in the same places, nothing else than the items of both, of the
\* others each or one of them with its key, no key twice if there was none, and
\* the others themselves if there was nothing.
Joined(old, over, r, f, n) ==
    /\ Len(old) <= Len(r)
    /\ \A m \in 1 .. Len(old) : r[m][f] = old[m][f]
    /\ \A m \in 1 .. Len(r) : (m \in 1 .. Len(old) /\ r[m] = old[m]) \/ \E j \in 1 .. n : r[m] = over[j]
    /\ \A k \in 1 .. n : \E m \in 1 .. Len(r) : r[m][f] = over[k][f] /\ \E j \in 1 .. n : r[m] = over[j]
    /\ OneEach(old, f) => OneEach(r, f)
    /\ Len(old) = 0 /\ OneEach(over, f) => Len(r) = n /\ \A k \in 1 .. n : r[k] = over[k]

(* One more item keeps it so.                                               *)
LEMMA JoinedGoesOn ==
    ASSUME NEW I, NEW old \in Seq(I), NEW over \in Seq(I), NEW f, NEW s \in Seq(I),
           NEW n \in 1 .. Len(over), Joined(old, over, s, f, n - 1)
    PROVE  Joined(old, over, Put(s, over[n], f), f, n)
<1> DEFINE x == over[n]
           r == Put(s, x, f)
<1>1. /\ Len(old) \in Nat /\ Len(over) \in Nat /\ Len(s) \in Nat /\ n \in Nat
      /\ x \in I /\ n \in 1 .. n /\ \A j \in 1 .. n - 1 : j \in 1 .. n
      /\ \A j \in 1 .. n : j = n \/ j \in 1 .. n - 1
      /\ \A j \in 1 .. n : j \in 1 .. Len(over)
  BY LenProperties, ElementOfSeq
<1>2. /\ Len(old) <= Len(s)
      /\ \A m \in 1 .. Len(old) : s[m][f] = old[m][f]
      /\ \A m \in 1 .. Len(s) : (m \in 1 .. Len(old) /\ s[m] = old[m]) \/ \E j \in 1 .. n - 1 : s[m] = over[j]
      /\ \A k \in 1 .. n - 1 : \E m \in 1 .. Len(s) : s[m][f] = over[k][f] /\ \E j \in 1 .. n - 1 : s[m] = over[j]
      /\ OneEach(old, f) => OneEach(s, f)
      /\ Len(old) = 0 /\ OneEach(over, f) => Len(s) = n - 1 /\ \A k \in 1 .. n - 1 : s[k] = over[k]
  BY Zenon DEF Joined
<1> HIDE DEF x
<1>3. IsPut(s, x, f, r)
  BY <1>1, PutIs, Zenon
<1>4. ASSUME \A m \in 1 .. Len(s) : s[m][f] # x[f], Len(r) = Len(s) + 1, r[Len(s) + 1] = x,
             \A m \in 1 .. Len(s) : r[m] = s[m]
      PROVE  Joined(old, over, r, f, n)
  <2> DEFINE e == Len(s) + 1
  <2>1. /\ Len(old) <= Len(r) /\ e \in 1 .. Len(r)
        /\ \A m \in 1 .. Len(old) : m \in 1 .. Len(s)
        /\ \A m \in 1 .. Len(s) : m \in 1 .. Len(r)
        /\ \A m \in 1 .. Len(r) : m = e \/ m \in 1 .. Len(s)
    <3>1. Len(r) = e
      BY <1>4, Zenon
    <3> HIDE DEF r
    <3>2. Len(old) \in Nat /\ Len(s) \in Nat /\ Len(old) <= Len(s)
      BY <1>1, <1>2, Zenon
    <3>3. QED
      BY <3>1, <3>2
  <2>2. r[e] = x /\ \A m \in 1 .. Len(s) : r[m] = s[m] /\ s[m][f] # x[f]
    BY <1>4, Zenon
  <2> HIDE DEF r, e
  <2>3. \A m \in 1 .. Len(old) : r[m][f] = old[m][f]
    BY <1>2, <2>1, <2>2, Zenon
  <2>4. ASSUME NEW m \in 1 .. Len(r)
        PROVE (m \in 1 .. Len(old) /\ r[m] = old[m]) \/ \E j \in 1 .. n : r[m] = over[j]
    <3>1. CASE m = e
      BY <1>1, <2>2, <3>1, Zenon DEF x
    <3>2. CASE m \in 1 .. Len(s)
      <4>1. (m \in 1 .. Len(old) /\ s[m] = old[m]) \/ \E j \in 1 .. n - 1 : s[m] = over[j]
        BY <1>2, <3>2, Zenon
      <4>2. r[m] = s[m]
        BY <2>2, <3>2, Zenon
      <4>3. QED
        BY <1>1, <4>1, <4>2, Zenon
    <3>3. QED
      BY <2>1, <3>1, <3>2, Zenon
  <2>5. ASSUME NEW k \in 1 .. n
        PROVE \E m \in 1 .. Len(r) : r[m][f] = over[k][f] /\ \E j \in 1 .. n : r[m] = over[j]
    <3>1. CASE k = n
      BY <1>1, <2>1, <2>2, <3>1, Zenon DEF x
    <3>2. CASE k \in 1 .. n - 1
      <4>1. PICK m \in 1 .. Len(s) : s[m][f] = over[k][f] /\ \E j \in 1 .. n - 1 : s[m] = over[j]
        BY <1>2, <3>2, Zenon
      <4>2. m \in 1 .. Len(r) /\ r[m] = s[m]
        BY <2>1, <2>2, Zenon
      <4>3. QED
        BY <1>1, <4>1, <4>2, Zenon
    <3>3. QED
      BY <1>1, <3>1, <3>2, Zenon
  <2>6. OneEach(s, f) => OneEach(r, f)
    <3> SUFFICES ASSUME OneEach(s, f), NEW i \in 1 .. Len(r), NEW j \in 1 .. Len(r), r[i][f] = r[j][f]
                 PROVE  i = j
      BY Zenon DEF OneEach
    <3>1. (i = e \/ i \in 1 .. Len(s)) /\ (j = e \/ j \in 1 .. Len(s))
      BY <2>1, Zenon
    <3>2. QED
      BY <2>2, <3>1, Zenon DEF OneEach
  <2>7. Len(old) = 0 /\ OneEach(over, f) => Len(r) = n /\ \A k \in 1 .. n : r[k] = over[k]
    <3> SUFFICES ASSUME Len(old) = 0, OneEach(over, f) PROVE Len(r) = n /\ \A k \in 1 .. n : r[k] = over[k]
      OBVIOUS
    <3>1. Len(s) = n - 1 /\ \A k \in 1 .. n - 1 : s[k] = over[k]
      BY <1>2, Zenon
    <3>2. e = n /\ Len(r) = n
      BY <1>1, <1>4, <3>1 DEF e, r
    <3>3. \A k \in 1 .. n : r[k] = over[k]
      BY <1>1, <2>2, <3>1, <3>2, Zenon DEF x
    <3>4. QED
      BY <3>2, <3>3
  <2>8. QED
    BY <1>2, <2>1, <2>3, <2>4, <2>5, <2>6, <2>7, Zenon DEF Joined
<1>5. ASSUME NEW p \in 1 .. Len(s), s[p][f] = x[f], Len(r) = Len(s), r[p] = x,
             \A m \in 1 .. Len(s) : m # p => r[m] = s[m]
      PROVE  Joined(old, over, r, f, n)
  <2> HIDE DEF r
  <2>1. /\ \A m \in 1 .. Len(old) : m \in 1 .. Len(s)
        /\ Len(old) <= Len(r)
    BY <1>1, <1>2, <1>5
  <2>2. \A m \in 1 .. Len(s) : r[m][f] = s[m][f]
    BY <1>5, Zenon
  <2>3. \A m \in 1 .. Len(old) : r[m][f] = old[m][f]
    BY <1>2, <2>1, <2>2, Zenon
  <2>4. ASSUME NEW m \in 1 .. Len(r)
        PROVE (m \in 1 .. Len(old) /\ r[m] = old[m]) \/ \E j \in 1 .. n : r[m] = over[j]
    <3>1. CASE m = p
      BY <1>1, <1>5, <3>1, Zenon DEF x
    <3>2. CASE m # p
      <4>1. m \in 1 .. Len(s) /\ r[m] = s[m]
        BY <1>5, <3>2, Zenon
      <4>2. QED
        BY <1>1, <1>2, <4>1, Zenon
    <3>3. QED
      BY <3>1, <3>2
  <2>5. ASSUME NEW k \in 1 .. n
        PROVE \E m \in 1 .. Len(r) : r[m][f] = over[k][f] /\ \E j \in 1 .. n : r[m] = over[j]
    <3>1. p \in 1 .. Len(r) /\ n \in 1 .. n /\ r[p] = over[n]
      BY <1>1, <1>5, Zenon DEF x
    <3>2. CASE k = n
      BY <3>1, <3>2, Zenon
    <3>3. CASE k \in 1 .. n - 1
      <4>1. PICK m \in 1 .. Len(s) : s[m][f] = over[k][f] /\ \E j \in 1 .. n - 1 : s[m] = over[j]
        BY <1>2, <3>3, Zenon
      <4>2. m \in 1 .. Len(r) /\ r[m][f] = over[k][f]
        BY <1>5, <2>2, <4>1, Zenon
      <4>3. CASE m = p
        BY <3>1, <4>2, <4>3, Zenon
      <4>4. CASE m # p
        BY <1>1, <1>5, <4>1, <4>2, <4>4, Zenon
      <4>5. QED
        BY <4>3, <4>4
    <3>4. QED
      BY <1>1, <3>2, <3>3, Zenon
  <2>6. OneEach(s, f) => OneEach(r, f)
    BY <1>5, <2>2, Zenon DEF OneEach
  <2>7. Len(old) = 0 /\ OneEach(over, f) => FALSE
    <3> SUFFICES ASSUME Len(old) = 0, OneEach(over, f) PROVE FALSE
      OBVIOUS
    <3>1. Len(s) = n - 1 /\ s[p] = over[p]
      BY <1>2, <1>5, Zenon
    <3>2. p \in 1 .. Len(over) /\ n \in 1 .. Len(over) /\ p # n
      BY <1>1, <3>1
    <3>3. over[p][f] = over[n][f]
      BY <1>5, <3>1, Zenon DEF x
    <3>4. QED
      BY <3>2, <3>3, Zenon DEF OneEach
  <2>8. QED
    BY <1>2, <2>1, <2>3, <2>4, <2>5, <2>6, <2>7, Zenon DEF Joined
<1> HIDE DEF r
<1>6. Joined(old, over, r, f, n)
  BY <1>3, <1>4, <1>5, Zenon DEF IsPut
<1>7. QED
  BY <1>6, Zenon DEF r, x

(* Merging by key joins.                                                    *)
LEMMA ByKeyJoins ==
    ASSUME NEW I, NEW old \in Seq(I), NEW over \in Seq(I), NEW f
    PROVE  /\ MergeByKey(old, over, f) \in Seq(I)
           /\ Joined(old, over, MergeByKey(old, over, f), f, Len(over))
<1> DEFINE At(n) == PutFirst(old, over, f, n)
           Good == {n \in 0 .. Len(over) : Joined(old, over, At(n), f, n)}
<1>1. Len(over) \in Nat /\ Len(old) \in Nat
  BY LenProperties
<1>2. /\ At(0) = old
      /\ \A n \in 1 .. Len(over) : At(n) = Put(At(n - 1), over[n], f)
      /\ \A n \in 0 .. Len(over) : At(n) \in Seq(I)
  BY PutsStep, Zenon
<1> HIDE DEF At
<1>3. Joined(old, over, old, f, 0)
  <2>1. \A k : k \notin 1 .. 0
    OBVIOUS
  <2>2. Len(old) <= Len(old)
    BY <1>1
  <2>3. QED
    BY <2>1, <2>2, Zenon DEF Joined
<1>4. 0 \in Good
  BY <1>1, <1>2, <1>3
<1>5. ASSUME NEW n \in 1 .. Len(over), n - 1 \in Good PROVE n \in Good
  <2>1. n - 1 \in 0 .. Len(over) /\ n \in 0 .. Len(over)
    BY <1>1
  <2>2. Joined(old, over, At(n - 1), f, n - 1)
    BY <1>5, Zenon
  <2>3. Joined(old, over, Put(At(n - 1), over[n], f), f, n)
    BY <1>2, <2>1, <2>2, JoinedGoesOn, Zenon
  <2>4. QED
    BY <1>2, <2>1, <2>3, Zenon
<1>6. Len(over) \in Good
  <2> HIDE DEF Good
  <2>1. 0 .. Len(over) \subseteq Good
    BY <1>1, <1>4, <1>5, Induct
  <2>2. QED
    BY <1>1, <2>1
<1>7. QED
  BY <1>2, <1>6, Zenon DEF MergeByKey, At

\* The items of all layers.
AnyItem == UNION {Item(i) : i \in Nat}

(* What an item is.                                                         *)
LEMMA ItemIs ==
    /\ \A n \in Nat : \A x \in Item(n) : x \in AnyItem /\ x.from = n
    /\ \A x \in AnyItem : x.from \in Nat /\ (x.code # Unset => ~x.plain)
<1>1. ASSUME NEW n \in Nat, NEW x \in Item(n) PROVE x.from = n /\ (x.code # Unset => ~x.plain)
  <2>1. CASE x \in [plain : {FALSE}, code : Codes, id : TomlIds, from : {n}]
    <3>1. x.plain = FALSE /\ x.from = n
      BY <2>1
    <3>2. QED
      BY <3>1
  <2>2. CASE x \in [plain : {TRUE}, code : {Unset}, id : {Unset}, from : {n}]
    <3>1. x.code = Unset /\ x.from = n
      BY <2>2
    <3>2. QED
      BY <3>1
  <2>3. QED
    BY <2>1, <2>2, Zenon DEF Item
<1>2. ASSUME NEW n \in Nat, NEW x \in Item(n) PROVE x \in AnyItem
  BY Zenon DEF AnyItem
<1>3. ASSUME NEW x \in AnyItem PROVE \E n \in Nat : x \in Item(n)
  BY Zenon DEF AnyItem
<1>4. QED
  BY <1>1, <1>2, <1>3, Zenon

(* Items are merged by a field they all have, and by their codes if they    *)
(* all have one.                                                            *)
LEMMA DetectIs ==
    ASSUME NEW s \in Seq(AnyItem)
    PROVE  /\ \/ DetectKeyedMergeField(s) = "none"
              \/ DetectKeyedMergeField(s) = "code" /\ \A i \in 1 .. Len(s) : s[i].code # Unset
              \/ DetectKeyedMergeField(s) = "id" /\ \A i \in 1 .. Len(s) : s[i].id # Unset
           /\ Len(s) # 0 /\ (\A i \in 1 .. Len(s) : s[i].code # Unset) => DetectKeyedMergeField(s) = "code"
<1> DEFINE plain == \E i \in DOMAIN s : s[i].plain
           codes == \A i \in DOMAIN s : s[i].code # Unset
           ids   == \A i \in DOMAIN s : s[i].id # Unset
           empty == s = <<>>
<1>1. DOMAIN s = 1 .. Len(s) /\ (empty <=> Len(s) = 0)
  BY LenProperties, EmptySeq, Zenon
<1>2. DetectKeyedMergeField(s) =
        IF empty \/ plain THEN "none" ELSE IF codes THEN "code" ELSE IF ids THEN "id" ELSE "none"
  BY Zenon DEF DetectKeyedMergeField, All
<1>3. codes => ~plain
  BY <1>1, ItemIs, ElementOfSeq, Zenon
<1> HIDE DEF empty, plain
<1>4. QED
  BY <1>1, <1>2, <1>3, Zenon

\* x says what y says about itself.
SameItem(x, y) == (x.code # Unset /\ x.code = y.code) \/ (x.id # Unset /\ x.id = y.id)

\* r has the items of old in their places, or those of layer n that replace
\* them, and each item over it or one of layer n that replaces it.
Adds(old, over, r, n) ==
    /\ \A m \in 1 .. Len(old) : m \in 1 .. Len(r) /\ \/ r[m] = old[m]
                                                     \/ r[m].from = n /\ SameItem(r[m], old[m])
    /\ \A k \in 1 .. Len(over) : \E m \in 1 .. Len(r) :
         r[m] = over[k] \/ (r[m].from = n /\ SameItem(r[m], over[k]))

(* What is appended is added.                                               *)
LEMMA AppendedAdds ==
    ASSUME NEW old \in Seq(AnyItem), NEW over \in Seq(AnyItem), NEW n
    PROVE  Adds(old, over, old \o over, n)
<1> DEFINE r == old \o over
<1>1. /\ Len(old) \in Nat /\ Len(over) \in Nat /\ Len(r) = Len(old) + Len(over)
      /\ \A m \in 1 .. Len(old) + Len(over) : r[m] = IF m <= Len(old) THEN old[m] ELSE over[m - Len(old)]
  BY ConcatProperties, LenProperties
<1> HIDE DEF r
<1>2. ASSUME NEW m \in 1 .. Len(old) PROVE m \in 1 .. Len(r) /\ r[m] = old[m]
  BY <1>1
<1>3. ASSUME NEW k \in 1 .. Len(over) PROVE Len(old) + k \in 1 .. Len(r) /\ r[Len(old) + k] = over[k]
  <2>1. Len(old) + k \in 1 .. Len(r) /\ ~(Len(old) + k <= Len(old)) /\ (Len(old) + k) - Len(old) = k
    BY <1>1
  <2>2. QED
    BY <1>1, <2>1
<1>4. QED
  BY <1>2, <1>3, Zenon DEF Adds, r

(* What is merged by a field that all items have is added.                  *)
LEMMA JoinedAdds ==
    ASSUME NEW n \in Nat, NEW old \in Seq(AnyItem), NEW over \in Seq(Item(n)), NEW r \in Seq(AnyItem),
           NEW f \in {"code", "id"}, Joined(old, over, r, f, Len(over)),
           \A m \in 1 .. Len(old) : old[m][f] # Unset, \A k \in 1 .. Len(over) : over[k][f] # Unset
    PROVE  Adds(old, over, r, n)
<1>1. Len(old) \in Nat /\ Len(r) \in Nat /\ Len(old) <= Len(r)
  BY LenProperties DEF Joined
<1>2. \A m \in 1 .. Len(old) : m \in 1 .. Len(r)
  BY <1>1
<1>3. \A j \in 1 .. Len(over) : over[j].from = n
  BY ElementOfSeq, ItemIs, Zenon
<1>4. \A x, y : x[f] = y[f] /\ y[f] # Unset => SameItem(x, y)
  <2>1. CASE f = "code"
    BY <2>1, Zenon DEF SameItem
  <2>2. CASE f = "id"
    BY <2>2, Zenon DEF SameItem
  <2>3. QED
    BY <2>1, <2>2
<1>5. ASSUME NEW m \in 1 .. Len(old)
      PROVE  r[m] = old[m] \/ (r[m].from = n /\ SameItem(r[m], old[m]))
  <2>1. r[m][f] = old[m][f] /\ old[m][f] # Unset
    BY Zenon DEF Joined
  <2>2. r[m] = old[m] \/ \E j \in 1 .. Len(over) : r[m] = over[j]
    BY <1>2, Zenon DEF Joined
  <2>3. QED
    BY <1>3, <1>4, <2>1, <2>2, Zenon
<1>6. ASSUME NEW k \in 1 .. Len(over)
      PROVE  \E m \in 1 .. Len(r) : r[m].from = n /\ SameItem(r[m], over[k])
  <2>1. PICK m \in 1 .. Len(r) : r[m][f] = over[k][f] /\ \E j \in 1 .. Len(over) : r[m] = over[j]
    BY Zenon DEF Joined
  <2>2. SameItem(r[m], over[k]) /\ r[m].from = n
    BY <1>3, <1>4, <2>1, Zenon
  <2>3. QED
    BY <2>2
<1>7. QED
  BY <1>2, <1>5, <1>6, Zenon DEF Adds

(* Two arrays are merged by a field all their items have, or the one is     *)
(* appended to the other; by their codes if all have one.                   *)
LEMMA ArraysMerged ==
    ASSUME NEW n \in Nat, NEW old \in Seq(AnyItem), NEW over \in Seq(Item(n))
    PROVE  LET r == MergeArrays(old, over)
           IN  /\ r \in Seq(AnyItem) /\ Adds(old, over, r, n)
               /\ /\ \A m \in 1 .. Len(old) : old[m].code # Unset
                  /\ \A k \in 1 .. Len(over) : over[k].code # Unset
                  => Joined(old, over, r, "code", Len(over))
<1> DEFINE r == MergeArrays(old, over)
           both == old \o over
           f == DetectKeyedMergeField(both)
<1>1. Len(old) \in Nat /\ Len(over) \in Nat /\ over \in Seq(AnyItem)
  <2>1. \A k \in 1 .. Len(over) : over[k] \in AnyItem
    BY ItemIs, ElementOfSeq, Zenon
  <2>2. over \in Seq(AnyItem)
    BY <2>1, SeqDef, LenProperties
  <2>3. QED
    BY <2>2, LenProperties
<1>2. /\ both \in Seq(AnyItem) /\ Len(both) = Len(old) + Len(over)
      /\ \A m \in 1 .. Len(old) + Len(over) : both[m] = IF m <= Len(old) THEN old[m] ELSE over[m - Len(old)]
  BY <1>1, ConcatProperties
<1> HIDE DEF both
<1>3. /\ \A m \in 1 .. Len(old) : m \in 1 .. Len(both) /\ both[m] = old[m]
      /\ \A k \in 1 .. Len(over) : Len(old) + k \in 1 .. Len(both) /\ both[Len(old) + k] = over[k]
  <2>1. ASSUME NEW m \in 1 .. Len(old) PROVE m \in 1 .. Len(both) /\ both[m] = old[m]
    BY <1>1, <1>2
  <2>2. ASSUME NEW k \in 1 .. Len(over) PROVE Len(old) + k \in 1 .. Len(both) /\ both[Len(old) + k] = over[k]
    <3>1. Len(old) + k \in 1 .. Len(both) /\ ~(Len(old) + k <= Len(old)) /\ (Len(old) + k) - Len(old) = k
      BY <1>1, <1>2
    <3>2. QED
      BY <1>2, <3>1
  <2>3. QED
    BY <2>1, <2>2, Zenon
<1>4. ASSUME \A m \in 1 .. Len(old) : old[m].code # Unset, \A k \in 1 .. Len(over) : over[k].code # Unset,
             NEW i \in 1 .. Len(both)
      PROVE  both[i].code # Unset
  <2>1. CASE i <= Len(old)
    <3>1. i \in 1 .. Len(old)
      BY <1>1, <1>2, <2>1
    <3>2. QED
      BY <1>3, <1>4, <3>1, Zenon
  <2>2. CASE ~(i <= Len(old))
    <3>1. i - Len(old) \in 1 .. Len(over) /\ both[i] = over[i - Len(old)]
      BY <1>1, <1>2, <2>2
    <3>2. QED
      BY <1>4, <3>1, Zenon
  <2>3. QED
    BY <2>1, <2>2
<1>5. /\ \/ f = "none"
         \/ f = "code" /\ \A i \in 1 .. Len(both) : both[i].code # Unset
         \/ f = "id" /\ \A i \in 1 .. Len(both) : both[i].id # Unset
      /\ Len(both) # 0 /\ (\A i \in 1 .. Len(both) : both[i].code # Unset) => f = "code"
  BY <1>2, DetectIs, Zenon
<1>6. r = IF f = "none" THEN both ELSE MergeByKey(old, over, f)
  BY Zenon DEF MergeArrays, both
<1> HIDE DEF f, r
<1>7. CASE f = "none"
  <2>1. r \in Seq(AnyItem) /\ Adds(old, over, r, n)
    BY <1>1, <1>2, <1>6, <1>7, AppendedAdds, Zenon DEF both
  <2>2. ASSUME \A m \in 1 .. Len(old) : old[m].code # Unset, \A k \in 1 .. Len(over) : over[k].code # Unset
        PROVE  Joined(old, over, r, "code", Len(over))
    <3>1. \A i \in 1 .. Len(both) : both[i].code # Unset
      BY <1>4, <2>2, Zenon
    <3>2. Len(both) = 0
      <4>1. f # "code"
        BY <1>7
      <4>2. QED
        BY <1>5, <3>1, <4>1, Zenon
    <3>3. Len(old) = 0 /\ Len(over) = 0 /\ Len(old) <= Len(both)
      BY <1>1, <1>2, <3>2
    <3>4. r = both
      BY <1>6, <1>7, Zenon
    <3>5. \A k : k \notin 1 .. 0
      OBVIOUS
    <3>6. QED
      BY <3>2, <3>3, <3>4, <3>5, Zenon DEF Joined, OneEach
  <2>3. QED
    BY <2>1, <2>2, Zenon DEF r
<1>8. CASE f # "none"
  <2>1. f \in {"code", "id"} /\ r = MergeByKey(old, over, f)
    BY <1>5, <1>6, <1>8, Zenon
  <2>2. r \in Seq(AnyItem) /\ Joined(old, over, r, f, Len(over))
    BY <1>1, <2>1, ByKeyJoins, Zenon
  <2>3. \A i \in 1 .. Len(both) : both[i][f] # Unset
    <3>1. CASE f = "code"
      BY <1>5, <3>1, Zenon
    <3>2. CASE f = "id"
      BY <1>5, <3>2, Zenon
    <3>3. QED
      BY <2>1, <3>1, <3>2, Zenon
  <2>4. (\A m \in 1 .. Len(old) : old[m][f] # Unset) /\ \A k \in 1 .. Len(over) : over[k][f] # Unset
    BY <1>3, <2>3, Zenon
  <2>5. Adds(old, over, r, n)
    BY <2>1, <2>2, <2>4, JoinedAdds, Zenon
  <2>6. ASSUME \A m \in 1 .. Len(old) : old[m].code # Unset, \A k \in 1 .. Len(over) : over[k].code # Unset
        PROVE  Joined(old, over, r, "code", Len(over))
    <3>1. \A i \in 1 .. Len(both) : both[i].code # Unset
      BY <1>4, <2>6, Zenon
    <3>2. CASE Len(both) # 0
      BY <1>5, <2>2, <3>1, <3>2, Zenon
    <3>3. CASE Len(both) = 0
      <4>1. Len(old) = 0 /\ Len(over) = 0
        BY <1>1, <1>2, <3>3
      <4>2. \A k : k \notin 1 .. 0
        OBVIOUS
      <4>3. Len(r) = 0
        <5>1. Len(r) \in Nat
          BY <2>2, LenProperties
        <5>2. 1 \notin 1 .. Len(r)
          BY <2>2, <4>1, <4>2, Zenon DEF Joined
        <5>3. QED
          BY <5>1, <5>2
      <4>4. Len(old) <= Len(r)
        BY <2>2, Zenon DEF Joined
      <4>5. QED
        BY <4>1, <4>2, <4>3, <4>4, Zenon DEF Joined, OneEach
    <3>4. QED
      BY <3>2, <3>3
  <2>7. QED
    BY <2>2, <2>5, <2>6, Zenon DEF r
<1>9. QED
  BY <1>7, <1>8

\* A table whose agent, if it has one, is a table; its menu.
Shaped(t)  == t.is = "table" /\ ("agent" \in DOMAIN t.keys => t.keys["agent"].is = "table")
HasMenu(t) == "agent" \in DOMAIN t.keys /\ "menu" \in DOMAIN t.keys["agent"].keys
MenuOf(t)  == t.keys["agent"].keys["menu"]

(* What is read of a table.                                                 *)
LEMMA MenuRead ==
    ASSUME NEW t, Shaped(t)
    PROVE  /\ ExtractMenu(t) = IF HasMenu(t) THEN <<MenuOf(t)>> ELSE <<>>
           /\ HasMenu(t) /\ MenuOf(t).is = "array" => ItemsIn(t) = MenuOf(t).items
           /\ ~(HasMenu(t) /\ MenuOf(t).is = "array") => ItemsIn(t) = <<>>
<1> DEFINE empty == <<>>
           one   == <<MenuOf(t)>>
           m     == ExtractMenu(t)
<1>1. m = IF HasMenu(t) THEN one ELSE empty
  BY Zenon DEF ExtractMenu, HasMenu, MenuOf, Shaped
<1>2. one # empty /\ one[1] = MenuOf(t)
  <2>1. Len(one) = 1 /\ one \in Seq({MenuOf(t)}) /\ one[1] = MenuOf(t)
    OBVIOUS
  <2>2. one # empty
    BY <2>1, EmptySeq
  <2>3. QED
    BY <2>1, <2>2
<1>3. ItemsIn(t) = IF m # empty /\ m[1].is = "array" THEN m[1].items ELSE empty
  BY Zenon DEF ItemsIn
<1> HIDE DEF empty, one, m
<1>4. /\ HasMenu(t) /\ MenuOf(t).is = "array" => ItemsIn(t) = MenuOf(t).items
      /\ ~(HasMenu(t) /\ MenuOf(t).is = "array") => ItemsIn(t) = empty
  BY <1>1, <1>2, <1>3, Zenon
<1>5. QED
  BY <1>1, <1>4, Zenon DEF m, empty, one

(* Two tables are merged key by key: those of the agents,                   *)
LEMMA AgentsMerged ==
    ASSUME NEW a, NEW b, a.is = "table", b.is = "table"
    PROVE  LET r == MergeAgents(a, b)
           IN  /\ r.is = "table" /\ DOMAIN r.keys = (DOMAIN a.keys) \cup (DOMAIN b.keys)
               /\ \A k \in DOMAIN r.keys :
                    r.keys[k] = IF k \notin DOMAIN b.keys THEN a.keys[k]
                                ELSE IF k \notin DOMAIN a.keys THEN b.keys[k]
                                ELSE MergeValues(a.keys[k], b.keys[k])
<1> DEFINE ks == [k \in (DOMAIN a.keys) \cup (DOMAIN b.keys) |->
                    CASE k \notin DOMAIN b.keys -> a.keys[k]
                      [] k \notin DOMAIN a.keys -> b.keys[k]
                      [] OTHER -> MergeValues(a.keys[k], b.keys[k])]
           r == MergeAgents(a, b)
<1>1. r = TomlTable(ks)
  BY Zenon DEF MergeAgents, MergeLevel
<1>2. r.is = "table" /\ r.keys = ks
  <2> HIDE DEF ks, r
  <2>1. QED
    BY <1>1 DEF TomlTable
<1>3. DOMAIN ks = (DOMAIN a.keys) \cup (DOMAIN b.keys)
  OBVIOUS
<1>4. ASSUME NEW k \in DOMAIN ks
      PROVE  ks[k] = IF k \notin DOMAIN b.keys THEN a.keys[k]
                     ELSE IF k \notin DOMAIN a.keys THEN b.keys[k]
                     ELSE MergeValues(a.keys[k], b.keys[k])
  <2>1. ks[k] = CASE k \notin DOMAIN b.keys -> a.keys[k]
                  [] k \notin DOMAIN a.keys -> b.keys[k]
                  [] OTHER -> MergeValues(a.keys[k], b.keys[k])
    BY <1>4
  <2>2. k \in DOMAIN a.keys \/ k \in DOMAIN b.keys
    BY <1>3, <1>4
  <2> HIDE DEF ks
  <2>3. QED
    BY <2>1, <2>2
<1> HIDE DEF ks, r
<1>5. QED
  BY <1>2, <1>3, <1>4, Zenon DEF r

(* and those around them.                                                   *)
LEMMA TopMerged ==
    ASSUME NEW a, NEW b, a.is = "table", b.is = "table"
    PROVE  LET r == DeepMerge(a, b)
           IN  /\ r.is = "table" /\ DOMAIN r.keys = (DOMAIN a.keys) \cup (DOMAIN b.keys)
               /\ \A k \in DOMAIN r.keys :
                    r.keys[k] = IF k \notin DOMAIN b.keys THEN a.keys[k]
                                ELSE IF k \notin DOMAIN a.keys THEN b.keys[k]
                                ELSE MergeAgents(a.keys[k], b.keys[k])
<1> DEFINE ks == [k \in (DOMAIN a.keys) \cup (DOMAIN b.keys) |->
                    CASE k \notin DOMAIN b.keys -> a.keys[k]
                      [] k \notin DOMAIN a.keys -> b.keys[k]
                      [] OTHER -> MergeAgents(a.keys[k], b.keys[k])]
           r == DeepMerge(a, b)
<1>1. r = TomlTable(ks)
  BY Zenon DEF DeepMerge, MergeLevel
<1>2. r.is = "table" /\ r.keys = ks
  <2> HIDE DEF ks, r
  <2>1. QED
    BY <1>1 DEF TomlTable
<1>3. DOMAIN ks = (DOMAIN a.keys) \cup (DOMAIN b.keys)
  OBVIOUS
<1>4. ASSUME NEW k \in DOMAIN ks
      PROVE  ks[k] = IF k \notin DOMAIN b.keys THEN a.keys[k]
                     ELSE IF k \notin DOMAIN a.keys THEN b.keys[k]
                     ELSE MergeAgents(a.keys[k], b.keys[k])
  <2>1. ks[k] = CASE k \notin DOMAIN b.keys -> a.keys[k]
                  [] k \notin DOMAIN a.keys -> b.keys[k]
                  [] OTHER -> MergeAgents(a.keys[k], b.keys[k])
    BY <1>4
  <2>2. k \in DOMAIN a.keys \/ k \in DOMAIN b.keys
    BY <1>3, <1>4
  <2> HIDE DEF ks
  <2>3. QED
    BY <2>1, <2>2
<1> HIDE DEF ks, r
<1>5. QED
  BY <1>2, <1>3, <1>4, Zenon DEF r

(* Two such tables make one; its menu is the menu of one of them, or theirs *)
(* merged.                                                                  *)
LEMMA TablesMerged ==
    ASSUME NEW a, NEW b, Shaped(a), Shaped(b)
    PROVE  LET r == DeepMerge(a, b)
           IN  /\ Shaped(r) /\ (HasMenu(r) <=> HasMenu(a) \/ HasMenu(b))
               /\ HasMenu(a) /\ ~HasMenu(b) => MenuOf(r) = MenuOf(a)
               /\ ~HasMenu(a) /\ HasMenu(b) => MenuOf(r) = MenuOf(b)
               /\ HasMenu(a) /\ HasMenu(b) => MenuOf(r) = MergeValues(MenuOf(a), MenuOf(b))
<1> DEFINE r == DeepMerge(a, b)
           agent == "agent"
           menu == "menu"
           A == a.keys[agent]
           B == b.keys[agent]
           R == r.keys[agent]
           inA == agent \in DOMAIN a.keys
           inB == agent \in DOMAIN b.keys
           inR == agent \in DOMAIN r.keys
<1>1. /\ r.is = "table" /\ DOMAIN r.keys = (DOMAIN a.keys) \cup (DOMAIN b.keys)
      /\ \A k \in DOMAIN r.keys :
           r.keys[k] = IF k \notin DOMAIN b.keys THEN a.keys[k]
                       ELSE IF k \notin DOMAIN a.keys THEN b.keys[k]
                       ELSE MergeAgents(a.keys[k], b.keys[k])
  BY TopMerged, Zenon DEF Shaped
<1> HIDE DEF r, agent, menu
<1>2. /\ (inR <=> inA \/ inB)
      /\ inA /\ ~inB => R = A
      /\ inB /\ ~inA => R = B
      /\ inA /\ inB => R = MergeAgents(A, B)
  BY <1>1
<1>3. (inA => A.is = "table") /\ (inB => B.is = "table")
  BY Zenon DEF Shaped, agent
<1> HIDE DEF A, B, R, inA, inB, inR
<1>4. ASSUME inA, inB
      PROVE  /\ R.is = "table" /\ (menu \in DOMAIN R.keys <=> menu \in DOMAIN A.keys \/ menu \in DOMAIN B.keys)
             /\ menu \in DOMAIN A.keys /\ menu \notin DOMAIN B.keys => R.keys[menu] = A.keys[menu]
             /\ menu \notin DOMAIN A.keys /\ menu \in DOMAIN B.keys => R.keys[menu] = B.keys[menu]
             /\ menu \in DOMAIN A.keys /\ menu \in DOMAIN B.keys =>
                  R.keys[menu] = MergeValues(A.keys[menu], B.keys[menu])
  <2> DEFINE ra == MergeAgents(A, B)
  <2>1. /\ ra.is = "table" /\ DOMAIN ra.keys = (DOMAIN A.keys) \cup (DOMAIN B.keys)
        /\ \A k \in DOMAIN ra.keys :
             ra.keys[k] = IF k \notin DOMAIN B.keys THEN A.keys[k]
                          ELSE IF k \notin DOMAIN A.keys THEN B.keys[k]
                          ELSE MergeValues(A.keys[k], B.keys[k])
    BY <1>3, <1>4, AgentsMerged, Zenon
  <2>2. ra = R
    BY <1>2, <1>4
  <2> HIDE DEF ra
  <2>3. QED
    BY <2>1, <2>2
<1>5. /\ (HasMenu(a) <=> inA /\ menu \in DOMAIN A.keys) /\ MenuOf(a) = A.keys[menu]
      /\ (HasMenu(b) <=> inB /\ menu \in DOMAIN B.keys) /\ MenuOf(b) = B.keys[menu]
      /\ (HasMenu(r) <=> inR /\ menu \in DOMAIN R.keys) /\ MenuOf(r) = R.keys[menu]
  BY Zenon DEF HasMenu, MenuOf, A, B, R, inA, inB, inR, agent, menu
<1>6. Shaped(r)
  <2>1. inR => R.is = "table"
    BY <1>2, <1>3, <1>4, Zenon
  <2>2. QED
    BY <1>1, <2>1, Zenon DEF Shaped, inR, R, agent
<1>7. /\ HasMenu(r) <=> HasMenu(a) \/ HasMenu(b)
      /\ HasMenu(a) /\ ~HasMenu(b) => MenuOf(r) = MenuOf(a)
      /\ ~HasMenu(a) /\ HasMenu(b) => MenuOf(r) = MenuOf(b)
      /\ HasMenu(a) /\ HasMenu(b) => MenuOf(r) = MergeValues(MenuOf(a), MenuOf(b))
  <2>1. CASE inA /\ inB
    BY <1>2, <1>4, <1>5, <2>1, Zenon
  <2>2. CASE ~(inA /\ inB)
    BY <1>2, <1>5, <2>2, Zenon
  <2>3. QED
    BY <2>1, <2>2
<1>8. QED
  BY <1>6, <1>7, Zenon DEF r

\* A layer has no menu, some value that is none, or a menu of its own items.
NoMenu(c)      == ~HasMenu(c) /\ ItemsIn(c) = <<>>
ScalarMenu(c)  == HasMenu(c) /\ MenuOf(c).is = "scalar" /\ ItemsIn(c) = <<>>
ArrayMenu(c)   == HasMenu(c) /\ MenuOf(c).is = "array" /\ MenuOf(c).items = ItemsIn(c)
IsScalar(c, n) == ExtractMenu(c) = <<Scalar(n)>>

(* A layer is one of these.                                                 *)
LEMMA LayerIs ==
    ASSUME NEW n \in Nat, NEW c \in LayerContents(n)
    PROVE  /\ Shaped(c) /\ ItemsIn(c) \in Seq(Item(n))
           /\ \/ NoMenu(c) /\ ~IsScalar(c, n)
              \/ ScalarMenu(c) /\ IsScalar(c, n)
              \/ ArrayMenu(c) /\ ~IsScalar(c, n)
<1> DEFINE empty == <<>>
<1>1. empty \in Seq(Item(n)) /\ DOMAIN empty = {}
  BY EmptySeq, LenProperties
<1>2. CASE c = Empty
  <2>1. c.is = "table" /\ c.keys = empty
    BY <1>2 DEF Empty, TomlTable
  <2> HIDE DEF empty
  <2>2. "agent" \notin DOMAIN c.keys
    BY <1>1, <2>1
  <2>3. Shaped(c) /\ ~HasMenu(c)
    BY <2>1, <2>2, Zenon DEF Shaped, HasMenu
  <2>4. ItemsIn(c) = empty
    BY <2>3, MenuRead, Zenon DEF empty
  <2>5. ExtractMenu(c) = empty
    BY <2>3, MenuRead, Zenon DEF empty
  <2>6. empty # <<Scalar(n)>>
    <3>1. <<Scalar(n)>> \in Seq({Scalar(n)}) /\ Len(<<Scalar(n)>>) = 1
      OBVIOUS
    <3>2. QED
      BY <3>1, EmptySeq DEF empty
  <2>7. QED
    BY <1>1, <2>3, <2>4, <2>5, <2>6, Zenon DEF NoMenu, IsScalar, empty
<1>3. ASSUME NEW v, c = Menu(v)
      PROVE  Shaped(c) /\ HasMenu(c) /\ MenuOf(c) = v /\ (IsScalar(c, n) <=> v = Scalar(n))
  <2> DEFINE keys == [menu |-> v]
             agent == TomlTable(keys)
             outer == [agent |-> agent]
  <2>1. c = TomlTable(outer)
    BY <1>3, Zenon DEF Menu
  <2>2. DOMAIN keys = {"menu"} /\ keys["menu"] = v /\ DOMAIN outer = {"agent"} /\ outer["agent"] = agent
    OBVIOUS
  <2> HIDE DEF keys, outer
  <2>3. agent.is = "table" /\ agent.keys = keys
    BY DEF TomlTable
  <2> HIDE DEF agent
  <2>4. c.is = "table" /\ c.keys = outer
    BY <2>1 DEF TomlTable
  <2>5. Shaped(c) /\ HasMenu(c) /\ MenuOf(c) = v
    BY <2>2, <2>3, <2>4 DEF Shaped, HasMenu, MenuOf
  <2>6. ExtractMenu(c) = <<v>>
    BY <2>5, MenuRead, Zenon
  <2>7. <<v>> = <<Scalar(n)>> <=> v = Scalar(n)
    <3>1. <<v>>[1] = v /\ <<Scalar(n)>>[1] = Scalar(n)
      OBVIOUS
    <3>2. QED
      BY <3>1, Zenon
  <2>8. QED
    BY <2>5, <2>6, <2>7, Zenon DEF IsScalar
<1>4. CASE c = Menu(Scalar(n))
  <2>1. Shaped(c) /\ HasMenu(c) /\ MenuOf(c) = Scalar(n) /\ IsScalar(c, n)
    BY <1>3, <1>4, Zenon
  <2>2. Scalar(n).is = "scalar"
    BY DEF Scalar
  <2>3. MenuOf(c).is = "scalar" /\ MenuOf(c).is # "array"
    BY <2>1, <2>2
  <2>4. ItemsIn(c) = empty
    BY <2>1, <2>3, MenuRead, Zenon
  <2>5. QED
    BY <1>1, <2>1, <2>3, <2>4, Zenon DEF ScalarMenu
<1>5. CASE c \in {Menu(Array(s)) : s \in Lists(n)}
  <2>1. PICK s \in Lists(n) : c = Menu(Array(s))
    BY <1>5, Zenon
  <2>2. s \in Seq(Item(n))
    <3>1. PICK k \in 0 .. MaxItems : s \in [1 .. k -> Item(n)]
      BY Zenon DEF Lists
    <3>2. k \in Nat
      BY LayersAssumption
    <3>3. QED
      BY <3>1, <3>2, SeqDef
  <2>3. /\ Shaped(c) /\ HasMenu(c) /\ MenuOf(c) = Array(s)
        /\ IsScalar(c, n) <=> Array(s) = Scalar(n)
    BY <1>3, <2>1, Zenon
  <2>4. Array(s).is = "array" /\ Array(s).items = s /\ Scalar(n).is = "scalar"
    BY DEF Array, Scalar
  <2>5. ~IsScalar(c, n)
    BY <2>3, <2>4
  <2>6. MenuOf(c).is = "array" /\ MenuOf(c).items = s
    BY <2>3, <2>4, Zenon
  <2>7. ItemsIn(c) = s
    BY <2>3, <2>6, MenuRead, Zenon
  <2>8. QED
    BY <2>2, <2>3, <2>5, <2>6, <2>7, Zenon DEF ArrayMenu
<1>6. QED
  BY <1>2, <1>4, <1>5, Zenon DEF LayerContents

\* The items over others: none, over none, or merged with them.
Taken(old, over, r) == \/ over = <<>> /\ r = old
                       \/ old = <<>> /\ r = over
                       \/ r = MergeArrays(old, over)

(* A layer's scalar leaves no items; otherwise its items are taken.         *)
LEMMA LayerTaken ==
    ASSUME NEW n \in Nat, NEW c \in LayerContents(n), NEW out, Shaped(out)
    PROVE  LET r == DeepMerge(out, c)
           IN  /\ Shaped(r)
               /\ IsScalar(c, n) => ItemsIn(r) = <<>> /\ ItemsIn(c) = <<>>
               /\ ~IsScalar(c, n) => Taken(ItemsIn(out), ItemsIn(c), ItemsIn(r))
<1> DEFINE r == DeepMerge(out, c)
           empty == <<>>
<1>1. /\ Shaped(c)
      /\ \/ NoMenu(c) /\ ~IsScalar(c, n)
         \/ ScalarMenu(c) /\ IsScalar(c, n)
         \/ ArrayMenu(c) /\ ~IsScalar(c, n)
  BY LayerIs, Zenon
<1>2. /\ Shaped(r) /\ (HasMenu(r) <=> HasMenu(out) \/ HasMenu(c))
      /\ HasMenu(out) /\ ~HasMenu(c) => MenuOf(r) = MenuOf(out)
      /\ ~HasMenu(out) /\ HasMenu(c) => MenuOf(r) = MenuOf(c)
      /\ HasMenu(out) /\ HasMenu(c) => MenuOf(r) = MergeValues(MenuOf(out), MenuOf(c))
  BY <1>1, TablesMerged, Zenon
<1> HIDE DEF r
<1>3. \A t : Shaped(t) =>
        /\ HasMenu(t) /\ MenuOf(t).is = "array" => ItemsIn(t) = MenuOf(t).items
        /\ ~(HasMenu(t) /\ MenuOf(t).is = "array") => ItemsIn(t) = empty
  BY MenuRead, Zenon
<1>4. \A a, b : /\ b.is # "array" => MergeValues(a, b) = b
                /\ a.is # "array" => MergeValues(a, b) = b
                /\ a.is = "array" /\ b.is = "array" =>
                     MergeValues(a, b).is = "array" /\ MergeValues(a, b).items = MergeArrays(a.items, b.items)
  <2>1. \A s : Array(s).is = "array" /\ Array(s).items = s
    BY DEF Array
  <2>2. QED
    BY <2>1, Zenon DEF MergeValues
<1>5. CASE NoMenu(c) /\ ~IsScalar(c, n)
  <2>1. ~HasMenu(c) /\ ItemsIn(c) = empty
    BY <1>5, Zenon DEF NoMenu
  <2>2. ItemsIn(r) = ItemsIn(out)
    <3>1. CASE HasMenu(out)
      <4>1. HasMenu(r) /\ MenuOf(r) = MenuOf(out)
        BY <1>2, <2>1, <3>1, Zenon
      <4>2. QED
        BY <1>2, <1>3, <3>1, <4>1, Zenon
    <3>2. CASE ~HasMenu(out)
      BY <1>2, <1>3, <2>1, <3>2, Zenon
    <3>3. QED
      BY <3>1, <3>2
  <2>3. QED
    BY <1>2, <1>5, <2>1, <2>2, Zenon DEF Taken, r
<1>6. CASE ScalarMenu(c) /\ IsScalar(c, n)
  <2>1. HasMenu(c) /\ MenuOf(c).is # "array" /\ ItemsIn(c) = empty
    BY <1>6 DEF ScalarMenu
  <2>2. MenuOf(r) = MenuOf(c)
    BY <1>2, <1>4, <2>1, Zenon
  <2>3. ItemsIn(r) = empty
    BY <1>2, <1>3, <2>1, <2>2, Zenon
  <2>4. QED
    BY <1>2, <1>6, <2>1, <2>3, Zenon DEF r
<1>7. CASE ArrayMenu(c) /\ ~IsScalar(c, n)
  <2>1. HasMenu(c) /\ MenuOf(c).is = "array" /\ MenuOf(c).items = ItemsIn(c) /\ HasMenu(r)
    BY <1>2, <1>7, Zenon DEF ArrayMenu
  <2>2. CASE HasMenu(out) /\ MenuOf(out).is = "array"
    <3>1. MenuOf(out).items = ItemsIn(out) /\ MenuOf(r) = MergeValues(MenuOf(out), MenuOf(c))
      BY <1>2, <1>3, <2>1, <2>2, Zenon
    <3>2. MenuOf(r).is = "array" /\ MenuOf(r).items = MergeArrays(ItemsIn(out), ItemsIn(c))
      BY <1>4, <2>1, <2>2, <3>1, ZenonT(60)
    <3>3. ItemsIn(r) = MergeArrays(ItemsIn(out), ItemsIn(c))
      BY <1>2, <1>3, <2>1, <3>2, Zenon
    <3>4. QED
      BY <1>2, <1>7, <3>3, Zenon DEF Taken, r
  <2>3. CASE ~(HasMenu(out) /\ MenuOf(out).is = "array")
    <3>1. ItemsIn(out) = empty
      BY <1>3, <2>3, Zenon
    <3>2. MenuOf(r) = MenuOf(c)
      BY <1>2, <1>4, <2>1, <2>3, Zenon
    <3>3. ItemsIn(r) = ItemsIn(c)
      BY <1>2, <1>3, <2>1, <3>2, Zenon
    <3>4. QED
      BY <1>2, <1>7, <3>1, <3>3, Zenon DEF Taken, r
  <2>4. QED
    BY <2>2, <2>3
<1>8. QED
  BY <1>1, <1>5, <1>6, <1>7

(* Taken items are added; where every item has a code, and the new ones     *)
(* none twice, they are joined.                                             *)
LEMMA TakenIs ==
    ASSUME NEW n \in Nat, NEW old \in Seq(AnyItem), NEW over \in Seq(Item(n)), NEW r, Taken(old, over, r)
    PROVE  /\ r \in Seq(AnyItem) /\ Adds(old, over, r, n)
           /\ /\ \A m \in 1 .. Len(old) : old[m].code # Unset
              /\ \A k \in 1 .. Len(over) : over[k].code # Unset
              /\ OneEach(over, "code")
              => Joined(old, over, r, "code", Len(over))
<1> DEFINE empty == <<>>
<1>1. /\ Len(old) \in Nat /\ Len(over) \in Nat
      /\ (over = empty <=> Len(over) = 0) /\ (old = empty <=> Len(old) = 0)
  BY LenProperties, EmptySeq, Zenon
<1>2. over \in Seq(AnyItem)
  <2>1. \A k \in 1 .. Len(over) : over[k] \in AnyItem
    BY ItemIs, ElementOfSeq, Zenon
  <2>2. QED
    BY <2>1, SeqDef, LenProperties
<1> HIDE DEF empty
<1>3. \A k : k \notin 1 .. 0
  OBVIOUS
<1>4. CASE over = empty /\ r = old
  <2>1. Len(over) = 0 /\ Len(old) <= Len(old)
    BY <1>1, <1>4
  <2>2. Adds(old, over, r, n)
    BY <1>3, <1>4, <2>1, Zenon DEF Adds
  <2>3. Joined(old, over, r, "code", Len(over))
    BY <1>3, <1>4, <2>1, Zenon DEF Joined
  <2>4. QED
    BY <1>4, <2>2, <2>3, Zenon
<1>5. CASE old = empty /\ r = over
  <2>1. Len(old) = 0 /\ 0 <= Len(over)
    BY <1>1, <1>5
  <2>2. Adds(old, over, r, n)
    BY <1>3, <1>5, <2>1, Zenon DEF Adds
  <2>3. OneEach(over, "code") => Joined(old, over, r, "code", Len(over))
    BY <1>3, <1>5, <2>1, Zenon DEF Joined
  <2>4. QED
    BY <1>2, <1>5, <2>2, <2>3, Zenon
<1>6. CASE r = MergeArrays(old, over)
  BY <1>6, ArraysMerged, Zenon
<1>7. QED
  BY <1>4, <1>5, <1>6, Zenon DEF Taken, empty

\* The scalars among some layers, and the layers above the last of them.
ScalarsOf(read) == {i \in 1 .. Len(read) : IsScalar(read[i], i)}
AboveOf(read) == {i \in 1 .. Len(read) : \A j \in ScalarsOf(read) : j < i}
\* Every item of every layer has a code, and no layer one twice.
Coded(read) == \A i \in 1 .. Len(read) :
    OneEach(ItemsIn(read[i]), "code") /\ \A k \in 1 .. Len(ItemsIn(read[i])) : ItemsIn(read[i])[k].code # Unset

\* What their merge is then: no code twice; every code of a layer above the last
\* scalar, from this layer or a later one; nothing if these have nothing; and the
\* codes of the first of them that has any, first and in its order.
Won(read, merged) == Coded(read) =>
    /\ OneEach(merged, "code") /\ \A m \in 1 .. Len(merged) : merged[m].code # Unset
    /\ \A i \in AboveOf(read) : \A k \in 1 .. Len(ItemsIn(read[i])) :
         \E m \in 1 .. Len(merged) : merged[m].code = ItemsIn(read[i])[k].code /\ merged[m].from >= i
    /\ Len(merged) # 0 => \E i \in AboveOf(read) : Len(ItemsIn(read[i])) # 0
    /\ \A i \in AboveOf(read) : (\A j \in AboveOf(read) : j < i => Len(ItemsIn(read[j])) = 0) =>
         /\ Len(ItemsIn(read[i])) <= Len(merged)
         /\ \A k \in 1 .. Len(ItemsIn(read[i])) : merged[k].code = ItemsIn(read[i])[k].code

\* One layer more.
OneMore(read, more, c) == /\ Len(more) = Len(read) + 1 /\ more[Len(read) + 1] = c
                          /\ \A i \in 1 .. Len(read) : more[i] = read[i]

(* A scalar starts anew.                                                    *)
LEMMA ScalarWins ==
    ASSUME NEW read, NEW more, NEW c, NEW r, Len(read) \in Nat, OneMore(read, more, c),
           IsScalar(c, Len(read) + 1), Len(r) = 0
    PROVE  Won(more, r)
<1>1. Len(read) + 1 \in ScalarsOf(more) /\ Len(more) = Len(read) + 1
  <2>1. Len(read) + 1 \in 1 .. Len(more) /\ Len(more) = Len(read) + 1 /\ more[Len(read) + 1] = c
    BY DEF OneMore
  <2>2. QED
    BY <2>1, Zenon DEF ScalarsOf
<1>2. ASSUME NEW i \in AboveOf(more) PROVE FALSE
  <2>1. i \in 1 .. Len(more) /\ Len(read) + 1 < i
    BY <1>1, Zenon DEF AboveOf
  <2>2. QED
    BY <1>1, <2>1
<1>3. \A m : m \notin 1 .. Len(r)
  OBVIOUS
<1>4. QED
  BY <1>2, <1>3, Zenon DEF Won, OneEach

(* A layer whose items are taken decides.                                   *)
LEMMA TakenWins ==
    ASSUME NEW read, NEW more, NEW c, NEW old \in Seq(AnyItem), NEW r \in Seq(AnyItem), Len(read) \in Nat,
           OneMore(read, more, c), c \in LayerContents(Len(read) + 1), ~IsScalar(c, Len(read) + 1),
           \A i \in 1 .. Len(read) : ItemsIn(read[i]) \in Seq(AnyItem),
           Taken(old, ItemsIn(c), r), Won(read, old)
    PROVE  Won(more, r)
<1> DEFINE n == Len(read) + 1
           mine == ItemsIn(c)
           It(i) == ItemsIn(more[i])
<1> SUFFICES ASSUME Coded(more)
             PROVE  /\ OneEach(r, "code") /\ \A m \in 1 .. Len(r) : r[m].code # Unset
                    /\ \A i \in AboveOf(more) : \A k \in 1 .. Len(It(i)) :
                         \E m \in 1 .. Len(r) : r[m].code = It(i)[k].code /\ r[m].from >= i
                    /\ Len(r) # 0 => \E i \in AboveOf(more) : Len(It(i)) # 0
                    /\ \A i \in AboveOf(more) : (\A j \in AboveOf(more) : j < i => Len(It(j)) = 0) =>
                         /\ Len(It(i)) <= Len(r)
                         /\ \A k \in 1 .. Len(It(i)) : r[k].code = It(i)[k].code
  BY Zenon DEF Won
<1>1. /\ n \in Nat /\ Len(more) = n /\ more[n] = c /\ n \in 1 .. Len(more)
      /\ \A i \in 1 .. Len(read) :
           more[i] = read[i] /\ i \in 1 .. Len(more) /\ i \in Nat /\ i < n /\ ~(n < i) /\ i # n
      /\ \A i \in 1 .. Len(more) : i = n \/ i \in 1 .. Len(read)
      /\ ~(n < n)
  BY DEF OneMore
<1>2. mine \in Seq(Item(n))
  BY <1>1, LayerIs, Zenon
<1>3. Len(old) \in Nat /\ Len(r) \in Nat /\ Len(mine) \in Nat
  BY <1>2, LenProperties
<1> HIDE DEF mine, n
<1>4. \A i \in 1 .. Len(read) : It(i) = ItemsIn(read[i]) /\ Len(It(i)) \in Nat
  <2>1. \A i \in 1 .. Len(read) : Len(ItemsIn(read[i])) \in Nat
    BY LenProperties
  <2>2. QED
    BY <1>1, <2>1, Zenon
<1>5. It(n) = mine
  BY <1>1, Zenon DEF mine
<1> HIDE DEF It
<1>6. /\ OneEach(mine, "code") /\ \A k \in 1 .. Len(mine) : mine[k].code # Unset
      /\ Coded(read)
  <2>1. \A i \in 1 .. Len(more) : OneEach(It(i), "code") /\ \A k \in 1 .. Len(It(i)) : It(i)[k].code # Unset
    BY Zenon DEF Coded, It
  <2>2. Coded(read)
    BY <1>1, <1>4, <2>1, Zenon DEF Coded
  <2>3. QED
    BY <1>1, <1>5, <2>1, <2>2, Zenon
<1>7. /\ OneEach(old, "code") /\ \A m \in 1 .. Len(old) : old[m].code # Unset
      /\ \A i \in AboveOf(read) : \A k \in 1 .. Len(ItemsIn(read[i])) :
           \E m \in 1 .. Len(old) : old[m].code = ItemsIn(read[i])[k].code /\ old[m].from >= i
      /\ Len(old) # 0 => \E i \in AboveOf(read) : Len(ItemsIn(read[i])) # 0
      /\ \A i \in AboveOf(read) : (\A j \in AboveOf(read) : j < i => Len(ItemsIn(read[j])) = 0) =>
           /\ Len(ItemsIn(read[i])) <= Len(old)
           /\ \A k \in 1 .. Len(ItemsIn(read[i])) : old[k].code = ItemsIn(read[i])[k].code
  BY <1>6, Zenon DEF Won
<1>8. \A i \in AboveOf(read) : i \in 1 .. Len(read) /\ It(i) = ItemsIn(read[i])
  BY <1>4, Zenon DEF AboveOf
<1>9. ASSUME NEW i \in AboveOf(read), NEW k \in 1 .. Len(It(i))
      PROVE  \E m \in 1 .. Len(old) : old[m].code = It(i)[k].code /\ old[m].from >= i
  <2> DEFINE s == ItemsIn(read[i])
  <2>1. /\ It(i) = s
        /\ \A l \in 1 .. Len(s) : \E m \in 1 .. Len(old) : old[m].code = s[l].code /\ old[m].from >= i
    BY <1>7, <1>8, Zenon
  <2> HIDE DEF s
  <2>2. QED
    BY <2>1
<1>10. Len(old) # 0 => \E i \in AboveOf(read) : Len(It(i)) # 0
  BY <1>7, <1>8
<1>11. ASSUME NEW i \in AboveOf(read), \A j \in AboveOf(read) : j < i => Len(It(j)) = 0
       PROVE  Len(It(i)) <= Len(old) /\ \A k \in 1 .. Len(It(i)) : old[k].code = It(i)[k].code
  <2> DEFINE s == ItemsIn(read[i])
  <2>1. \A j \in AboveOf(read) : j < i => Len(ItemsIn(read[j])) = 0
    BY <1>8, <1>11
  <2>2. It(i) = s /\ Len(s) <= Len(old) /\ \A k \in 1 .. Len(s) : old[k].code = s[k].code
    BY <1>7, <1>8, <2>1, Zenon
  <2> HIDE DEF s
  <2>3. QED
    BY <2>2
<1>12. Joined(old, mine, r, "code", Len(mine))
  BY <1>1, <1>2, <1>6, <1>7, TakenIs, Zenon DEF mine
<1>13. /\ Len(old) <= Len(r)
       /\ \A m \in 1 .. Len(old) : r[m].code = old[m].code
       /\ \A m \in 1 .. Len(r) :
            (m \in 1 .. Len(old) /\ r[m] = old[m]) \/ \E j \in 1 .. Len(mine) : r[m] = mine[j]
       /\ \A k \in 1 .. Len(mine) : \E m \in 1 .. Len(r) :
            r[m].code = mine[k].code /\ \E j \in 1 .. Len(mine) : r[m] = mine[j]
       /\ OneEach(old, "code") => OneEach(r, "code")
       /\ Len(old) = 0 /\ OneEach(mine, "code") => Len(r) = Len(mine) /\ \A k \in 1 .. Len(mine) : r[k] = mine[k]
  BY <1>12, Zenon DEF Joined
<1>14. /\ n \in AboveOf(more)
       /\ \A i \in AboveOf(more) : i = n \/ (i \in AboveOf(read) /\ i \in 1 .. Len(read))
       /\ \A i \in AboveOf(read) : i \in AboveOf(more) /\ i \in 1 .. Len(read)
  <2>1. \A i : i \in ScalarsOf(more) <=> i \in ScalarsOf(read)
    <3>1. \A i \in 1 .. Len(read) : IsScalar(more[i], i) <=> IsScalar(read[i], i)
      BY <1>1, Zenon
    <3>2. ~IsScalar(more[n], n)
      BY <1>1, Zenon DEF n
    <3>3. QED
      BY <1>1, <3>1, <3>2, Zenon DEF ScalarsOf
  <2>2. \A i \in ScalarsOf(read) : i < n
    BY <1>1, Zenon DEF ScalarsOf
  <2>3. QED
    BY <1>1, <2>1, <2>2, Zenon DEF AboveOf
<1>15. \A k \in 1 .. Len(mine) : mine[k].from = n
  BY <1>1, <1>2, ElementOfSeq, ItemIs, Zenon
<1>16. ASSUME NEW m \in 1 .. Len(r) PROVE r[m].code # Unset
  <2>1. CASE m \in 1 .. Len(old) /\ r[m] = old[m]
    BY <1>7, <2>1
  <2>2. CASE \E j \in 1 .. Len(mine) : r[m] = mine[j]
    BY <1>6, <2>2
  <2>3. QED
    BY <1>13, <2>1, <2>2, Zenon
<1>17. ASSUME NEW i \in AboveOf(more), NEW k \in 1 .. Len(It(i))
       PROVE  \E m \in 1 .. Len(r) : r[m].code = It(i)[k].code /\ r[m].from >= i
  <2>1. CASE i = n
    <3>1. PICK m \in 1 .. Len(r) : r[m].code = mine[k].code /\ \E j \in 1 .. Len(mine) : r[m] = mine[j]
      BY <1>5, <1>13, <2>1, Zenon
    <3>2. r[m].from = n
      BY <1>15, <3>1, Zenon
    <3>3. r[m].from >= i
      BY <1>1, <2>1, <3>2
    <3>4. QED
      BY <1>5, <2>1, <3>1, <3>3, Zenon
  <2>2. CASE i \in AboveOf(read) /\ i \in 1 .. Len(read)
    <3>1. PICK m \in 1 .. Len(old) : old[m].code = It(i)[k].code /\ old[m].from >= i
      BY <1>9, <2>2, Zenon
    <3>2. m \in 1 .. Len(r)
      BY <1>3, <1>13
    <3>3. r[m].code = It(i)[k].code
      BY <1>13, <3>1, Zenon
    <3>4. r[m] = old[m] \/ r[m].from = n
      BY <1>13, <1>15, <3>2, Zenon
    <3>5. r[m].from >= i
      <4>1. CASE r[m] = old[m]
        BY <3>1, <4>1, Zenon
      <4>2. CASE r[m].from = n
        BY <1>1, <2>2, <4>2
      <4>3. QED
        BY <3>4, <4>1, <4>2
    <3>6. QED
      BY <3>2, <3>3, <3>5
  <2>3. QED
    BY <1>14, <2>1, <2>2, Zenon
<1>18. ASSUME Len(r) # 0 PROVE \E i \in AboveOf(more) : Len(It(i)) # 0
  <2>1. 1 \in 1 .. Len(r)
    BY <1>3, <1>18
  <2>2. CASE 1 \in 1 .. Len(old)
    <3>1. Len(old) # 0
      BY <1>3, <2>2
    <3>2. QED
      BY <1>14, <1>10, <3>1, Zenon
  <2>3. CASE \E j \in 1 .. Len(mine) : r[1] = mine[j]
    <3>1. Len(mine) # 0
      BY <1>3, <2>3
    <3>2. QED
      BY <1>5, <1>14, <3>1, Zenon
  <2>4. QED
    BY <1>13, <2>1, <2>2, <2>3, Zenon
<1>19. ASSUME NEW i \in AboveOf(more), \A j \in AboveOf(more) : j < i => Len(It(j)) = 0
       PROVE  /\ Len(It(i)) <= Len(r)
              /\ \A k \in 1 .. Len(It(i)) : r[k].code = It(i)[k].code
  <2>1. CASE i = n
    <3>1. \A j \in AboveOf(read) : Len(It(j)) = 0
      <4>1. \A j \in AboveOf(read) : j \in AboveOf(more) /\ j < i
        BY <1>1, <1>14, <2>1, Zenon
      <4>2. QED
        BY <1>19, <4>1, Zenon
    <3>2. Len(old) = 0
      BY <1>10, <3>1, Zenon
    <3>3. Len(r) = Len(mine) /\ \A k \in 1 .. Len(mine) : r[k] = mine[k]
      BY <1>6, <1>13, <3>2, Zenon
    <3>4. Len(mine) <= Len(r)
      BY <1>3, <3>3
    <3>5. QED
      BY <1>5, <2>1, <3>3, <3>4, Zenon
  <2>2. CASE i \in AboveOf(read) /\ i \in 1 .. Len(read)
    <3>1. \A j \in AboveOf(read) : j < i => Len(It(j)) = 0
      BY <1>14, <1>19, Zenon
    <3>2. /\ Len(It(i)) <= Len(old)
          /\ \A k \in 1 .. Len(It(i)) : old[k].code = It(i)[k].code
      BY <1>11, <2>2, <3>1, Zenon
    <3>3. Len(It(i)) \in Nat
      BY <1>4, <2>2, Zenon
    <3>4. Len(It(i)) <= Len(r) /\ \A k \in 1 .. Len(It(i)) : k \in 1 .. Len(old)
      <4>1. Len(It(i)) <= Len(old) /\ Len(old) <= Len(r)
        BY <1>13, <3>2, Zenon
      <4> DEFINE x == Len(It(i))
      <4>2. x \in Nat /\ x <= Len(old)
        BY <3>3, <4>1
      <4> HIDE DEF x
      <4>3. x <= Len(r) /\ \A k \in 1 .. x : k \in 1 .. Len(old)
        BY <1>3, <4>1, <4>2
      <4>4. QED
        BY <4>3 DEF x
    <3>5. QED
      BY <1>13, <3>2, <3>4, Zenon
  <2>3. QED
    BY <1>14, <2>1, <2>2, Zenon
<1>20. OneEach(r, "code")
  BY <1>7, <1>13, Zenon
<1>21. QED
  BY <1>16, <1>17, <1>18, <1>19, <1>20, Zenon

\* Between two layers: the layers read so far, each of them one, and a table of
\* tables whose items are the ones their merge should have.
LayersRead(read) == /\ read \in Seq(UNION {LayerContents(n) : n \in Nat})
                    /\ \A i \in 1 .. Len(read) : read[i] \in LayerContents(i)
LayersInv == /\ stack = [pc |-> stack.pc, read |-> stack.read, out |-> stack.out]
             /\ LayersRead(stack.read) /\ Shaped(stack.out)
             /\ ItemsIn(stack.out) \in Seq(AnyItem) /\ Won(stack.read, ItemsIn(stack.out))
             /\ stack.pc = "start" => stack.read = <<>> /\ ItemsIn(stack.out) = <<>>

(* What the merge should be says which layer wins.                          *)
LEMMA WonDecides ==
    ASSUME LayersRead(stack.read), ItemsIn(stack.out) \in Seq(AnyItem), Won(stack.read, Merged)
    PROVE  HighestLayerWins
<1> DEFINE read == stack.read
           It(i) == ItemsIn(read[i])
<1>1. DOMAIN read = 1 .. Len(read) /\ Len(read) \in Nat
  BY LenProperties DEF LayersRead
<1>2. DOMAIN Merged = 1 .. Len(Merged) /\ Len(Merged) \in Nat
  BY LenProperties DEF Merged
<1>3. ASSUME NEW i \in 1 .. Len(read)
      PROVE  DOMAIN It(i) = 1 .. Len(It(i)) /\ Len(It(i)) \in Nat /\ (It(i) = <<>> <=> Len(It(i)) = 0)
  <2>1. i \in Nat /\ read[i] \in LayerContents(i)
    <3>1. i \in Nat
      BY <1>1
    <3>2. QED
      BY <3>1, Zenon DEF LayersRead
  <2>2. It(i) \in Seq(Item(i))
    BY <2>1, LayerIs, Zenon
  <2>3. QED
    BY <2>2, LenProperties, EmptySeq, Zenon
<1>4. Scalars = ScalarsOf(read) /\ Above = AboveOf(read)
  <2>1. Scalars = ScalarsOf(read)
    BY <1>1, Zenon DEF Scalars, ScalarsOf, IsScalar
  <2>2. QED
    BY <1>1, <2>1, Zenon DEF Above, AboveOf
<1> SUFFICES ASSUME \A i \in DOMAIN read : \A k, l \in DOMAIN It(i) :
                      It(i)[k].code # Unset /\ (It(i)[k].code = It(i)[l].code => k = l)
             PROVE  /\ \A m, n \in DOMAIN Merged : Merged[m].code = Merged[n].code => m = n
                    /\ \A i \in Above : \A k \in DOMAIN It(i) :
                         \E m \in DOMAIN Merged : Merged[m].code = It(i)[k].code /\ Merged[m].from >= i
                    /\ \A i \in Above : \A k, l \in DOMAIN It(i) :
                         k < l /\ (\A j \in Above : j < i => It(j) = <<>>) =>
                            \E m, n \in DOMAIN Merged : /\ m < n /\ Merged[m].code = It(i)[k].code
                                                        /\ Merged[n].code = It(i)[l].code
  BY Zenon DEF HighestLayerWins, Arrays
<1> HIDE DEF read, It
<1>5. Coded(read)
  BY <1>1, <1>3, Zenon DEF Coded, OneEach, It
<1>6. /\ OneEach(Merged, "code")
      /\ \A i \in Above : \A k \in 1 .. Len(It(i)) :
           \E m \in 1 .. Len(Merged) : Merged[m].code = It(i)[k].code /\ Merged[m].from >= i
      /\ \A i \in Above : (\A j \in Above : j < i => Len(It(j)) = 0) =>
           /\ Len(It(i)) <= Len(Merged)
           /\ \A k \in 1 .. Len(It(i)) : Merged[k].code = It(i)[k].code
  BY <1>4, <1>5, Zenon DEF Won, read, It
<1>7. \A i \in Above : i \in 1 .. Len(read)
  BY <1>4, Zenon DEF AboveOf
<1>8. ASSUME NEW i \in Above, NEW k \in DOMAIN It(i), NEW l \in DOMAIN It(i), k < l,
             \A j \in Above : j < i => It(j) = <<>>
      PROVE  \E m, n \in DOMAIN Merged : /\ m < n /\ Merged[m].code = It(i)[k].code
                                         /\ Merged[n].code = It(i)[l].code
  <2>1. \A j \in Above : j < i => Len(It(j)) = 0
    BY <1>3, <1>7, <1>8, Zenon
  <2>2. Len(It(i)) <= Len(Merged) /\ \A x \in 1 .. Len(It(i)) : Merged[x].code = It(i)[x].code
    BY <1>6, <2>1, Zenon
  <2>3. k \in 1 .. Len(It(i)) /\ l \in 1 .. Len(It(i)) /\ Len(It(i)) \in Nat
    BY <1>3, <1>7, <1>8, Zenon
  <2>4. k \in 1 .. Len(Merged) /\ l \in 1 .. Len(Merged)
    <3> DEFINE x == Len(It(i))
    <3>1. x \in Nat /\ k \in 1 .. x /\ l \in 1 .. x /\ x <= Len(Merged)
      BY <2>2, <2>3
    <3> HIDE DEF x
    <3>2. QED
      BY <1>2, <3>1
  <2>5. QED
    BY <1>2, <1>8, <2>2, <2>3, <2>4, Zenon
<1>9. \A m, n \in DOMAIN Merged : Merged[m].code = Merged[n].code => m = n
  BY <1>2, <1>6, Zenon DEF OneEach
<1>10. \A i \in Above : \A k \in DOMAIN It(i) :
          \E m \in DOMAIN Merged : Merged[m].code = It(i)[k].code /\ Merged[m].from >= i
  BY <1>2, <1>3, <1>6, <1>7, Zenon
<1>11. \A i \in Above : \A k, l \in DOMAIN It(i) :
          k < l /\ (\A j \in Above : j < i => It(j) = <<>>) =>
             \E m, n \in DOMAIN Merged : /\ m < n /\ Merged[m].code = It(i)[k].code
                                         /\ Merged[n].code = It(i)[l].code
  BY <1>8, Zenon
<1>12. QED
  BY <1>9, <1>10, <1>11, Zenon DEF It, read

(* A layer's step: its scalar starts anew, or its items are taken.          *)
LEMMA LayerStep ==
    ASSUME LayersInv, NEW c \in LayerContents(Len(stack.read) + 1),
           stack' = [pc |-> stack'.pc, read |-> stack'.read, out |-> stack'.out], stack'.pc # "start",
           stack'.read = Append(stack.read, c), Shaped(stack'.out),
           IsScalar(c, Len(stack.read) + 1) => ItemsIn(stack'.out) = <<>> /\ ItemsIn(c) = <<>>,
           ~IsScalar(c, Len(stack.read) + 1) => Taken(ItemsIn(stack.out), ItemsIn(c), ItemsIn(stack'.out))
    PROVE  LayersInv' /\ NothingRemoved
<1> DEFINE read == stack.read
           more == Append(read, c)
           n    == Len(read) + 1
           old  == ItemsIn(stack.out)
           r    == ItemsIn(stack'.out)
           mine == ItemsIn(c)
           empty == <<>>
<1>1. /\ read \in Seq(UNION {LayerContents(k) : k \in Nat}) /\ Len(read) \in Nat /\ n \in Nat
      /\ \A i \in 1 .. Len(read) : read[i] \in LayerContents(i)
      /\ old \in Seq(AnyItem) /\ Won(read, old)
  <2>1. /\ read \in Seq(UNION {LayerContents(k) : k \in Nat})
        /\ \A i \in 1 .. Len(read) : read[i] \in LayerContents(i)
        /\ old \in Seq(AnyItem) /\ Won(read, old)
    BY Zenon DEF LayersInv, LayersRead
  <2>2. Len(read) \in Nat
    BY <2>1, LenProperties, Zenon
  <2>3. Len(read) + 1 \in Nat
    BY <2>2
  <2>4. QED
    BY <2>1, <2>2, <2>3, Zenon
<1>2. Shaped(c) /\ mine \in Seq(Item(n))
  BY <1>1, LayerIs, Zenon
<1>3. /\ more \in Seq(UNION {LayerContents(k) : k \in Nat}) /\ OneMore(read, more, c)
      /\ Len(more) = n /\ more[n] = c /\ n \in 1 .. n /\ DOMAIN more = 1 .. n
      /\ \A i \in 1 .. n : i = n \/ i \in 1 .. Len(read)
  <2>1. c \in UNION {LayerContents(k) : k \in Nat}
    BY <1>1, Zenon
  <2> HIDE DEF more
  <2>2. /\ more \in Seq(UNION {LayerContents(k) : k \in Nat}) /\ Len(more) = Len(read) + 1
        /\ more[Len(read) + 1] = c /\ \A i \in 1 .. Len(read) : more[i] = read[i]
    BY <1>1, <2>1, AppendProperties DEF more
  <2>3. DOMAIN more = 1 .. Len(more)
    BY <2>2, LenProperties
  <2>4. QED
    BY <1>1, <2>2, <2>3 DEF OneMore
<1>4. empty \in Seq(AnyItem) /\ Len(empty) = 0
  BY EmptySeq
<1>5. \A i \in 1 .. Len(read) : ItemsIn(read[i]) \in Seq(AnyItem)
  <2> SUFFICES ASSUME NEW i \in 1 .. Len(read) PROVE ItemsIn(read[i]) \in Seq(AnyItem)
    OBVIOUS
  <2> DEFINE s == ItemsIn(read[i])
  <2>1. i \in Nat /\ read[i] \in LayerContents(i)
    BY <1>1
  <2>2. s \in Seq(Item(i))
    BY <2>1, LayerIs, Zenon
  <2> HIDE DEF s
  <2>3. \A k \in 1 .. Len(s) : s[k] \in AnyItem
    BY <2>1, <2>2, ItemIs, ElementOfSeq, Zenon
  <2>4. s \in Seq(AnyItem)
    BY <2>2, <2>3, SeqDef, LenProperties
  <2>5. QED
    BY <2>4 DEF s
<1> HIDE DEF more, old, r, mine, empty
<1>6. r \in Seq(AnyItem) /\ Won(more, r) /\ (~IsScalar(c, n) => Adds(old, mine, r, n))
      /\ (IsScalar(c, n) => mine = empty)
  <2>1. CASE IsScalar(c, n)
    <3>1. r = empty /\ mine = empty
      BY <2>1, Zenon DEF r, mine, empty
    <3>2. Won(more, r)
      BY <1>1, <1>3, <1>4, <2>1, <3>1, ScalarWins, Zenon
    <3>3. QED
      BY <1>4, <2>1, <3>1, <3>2, Zenon
  <2>2. CASE ~IsScalar(c, n)
    <3>1. Taken(old, mine, r)
      BY <2>2, Zenon DEF old, mine, r
    <3>2. r \in Seq(AnyItem) /\ Adds(old, mine, r, n)
      BY <1>1, <1>2, <3>1, TakenIs, Zenon
    <3>3. Won(more, r)
      BY <1>1, <1>3, <1>5, <2>2, <3>1, <3>2, TakenWins, Zenon DEF mine
    <3>4. QED
      BY <2>2, <3>2, <3>3, Zenon
  <2>3. QED
    BY <2>1, <2>2
<1>7. stack'.read = more /\ ItemsIn(stack'.out) = r
  BY Zenon DEF more, r
<1>8. LayersRead(more)
  <2>1. \A i \in 1 .. n : more[i] \in LayerContents(i)
    BY <1>1, <1>3, Zenon DEF OneMore
  <2>2. QED
    BY <1>3, <2>1, Zenon DEF LayersRead
<1>9. LayersInv'
  BY <1>6, <1>7, <1>8, Zenon DEF LayersInv
<1>10. NothingRemoved
  <2>1. Merged = old /\ Merged' = r
    BY Zenon DEF Merged, old, r
  <2>2. DOMAIN old = 1 .. Len(old) /\ DOMAIN r = 1 .. Len(r) /\ DOMAIN mine = 1 .. Len(mine)
    BY <1>1, <1>2, <1>6, LenProperties, Zenon
  <2>3. n \in Scalars' <=> IsScalar(c, n)
    <3>1. Scalars' = {i \in DOMAIN more : ExtractMenu(more[i]) = <<Scalar(i)>>}
      BY <1>7, Zenon DEF Scalars
    <3>2. QED
      BY <1>3, <3>1, Zenon DEF IsScalar
  <2>4. Len(stack'.read) = n /\ ItemsIn(stack'.read[n]) = mine
    BY <1>3, <1>7, Zenon DEF mine
  <2>5. n \notin Scalars' => \A m \in DOMAIN old :
           m \in DOMAIN r /\ (r[m] = old[m] \/ (r[m].from = n /\ SameItem(r[m], old[m])))
    BY <1>6, <2>2, <2>3, Zenon DEF Adds
  <2>6. \A k \in DOMAIN mine : \E m \in DOMAIN r :
           r[m] = mine[k] \/ (r[m].from = n /\ SameItem(r[m], mine[k]))
    <3>1. CASE IsScalar(c, n)
      <4>1. Len(mine) = 0
        BY <1>4, <1>6, <3>1, Zenon
      <4>2. \A k : k \notin 1 .. 0
        OBVIOUS
      <4>3. QED
        BY <2>2, <4>1, <4>2, Zenon
    <3>2. CASE ~IsScalar(c, n)
      BY <1>6, <2>2, <3>2, Zenon DEF Adds
    <3>3. QED
      BY <3>1, <3>2
  <2>7. QED
    BY <2>1, <2>4, <2>5, <2>6, ZenonT(60) DEF NothingRemoved, SameItem
<1>11. QED
  BY <1>9, <1>10

(* However many layers and whatever their items: a layer removes nothing of *)
(* the layers below unless it replaces the whole array, its own items are   *)
(* in the result, and where every item has a code the highest layer that    *)
(* has it decides, in the order in which the layers brought them            *)
(* (deep_merge, _merge_arrays, _merge_by_key).                              *)
THEOREM LayersCorrect == LayersSpec => LayersMerge
<1> DEFINE empty == <<>>
<1>1. LayersInit => LayersInv
  <2> SUFFICES ASSUME LayersInit PROVE LayersInv
    OBVIOUS
  <2>1. stack.pc = "start" /\ stack.read = empty /\ stack.out = Empty
        /\ stack = [pc |-> stack.pc, read |-> stack.read, out |-> stack.out]
    BY DEF LayersInit
  <2>2. empty \in Seq(UNION {LayerContents(n) : n \in Nat}) /\ empty \in Seq(AnyItem) /\ Len(empty) = 0
    BY EmptySeq
  <2>3. Empty \in LayerContents(0)
    BY DEF LayerContents
  <2>4. Empty.is = "table" /\ Empty.keys = empty
    BY DEF Empty, TomlTable
  <2>5. DOMAIN empty = {}
    BY EmptySeq, LenProperties
  <2> HIDE DEF empty
  <2>6. Shaped(Empty) /\ ~HasMenu(Empty)
    BY <2>4, <2>5 DEF Shaped, HasMenu
  <2>7. ItemsIn(Empty) = empty
    BY <2>6, MenuRead, Zenon DEF empty
  <2>8. \A k : k \notin 1 .. 0
    OBVIOUS
  <2>9. LayersRead(empty)
    BY <2>2, <2>8, Zenon DEF LayersRead
  <2>10. Won(empty, empty)
    <3>1. \A i : i \notin AboveOf(empty)
      BY <2>2, <2>8, Zenon DEF AboveOf
    <3>2. QED
      BY <2>2, <2>8, <3>1, Zenon DEF Won, OneEach
  <2>11. QED
    BY <2>1, <2>2, <2>6, <2>7, <2>9, <2>10, Zenon DEF LayersInv, empty
<1>2. LayersInv => HighestLayerWins
  BY WonDecides, Zenon DEF LayersInv, Merged
<1>3. ASSUME LayersInv, LayersNext PROVE LayersInv' /\ (NothingRemoved \/ UNCHANGED layerVars)
  <2>1. stack = [pc |-> stack.pc, read |-> stack.read, out |-> stack.out] /\ Shaped(stack.out)
    BY <1>3, Zenon DEF LayersInv
  <2>2. CASE LoadRequired
    <3>1. stack.pc = "start" /\ stack.read = empty /\ ItemsIn(stack.out) = empty
      BY <1>3, <2>2, Zenon DEF LoadRequired, LayersInv
    <3>2. CASE stack' = [stack EXCEPT !.pc = "exit 1"]
      <4> HIDE DEF empty
      <4>1. /\ stack' = [pc |-> stack'.pc, read |-> stack'.read, out |-> stack'.out]
            /\ stack'.pc = "exit 1" /\ stack'.read = stack.read /\ stack'.out = stack.out
        <5> DEFINE p == stack.pc
                   q == stack.read
                   o == stack.out
        <5>1. stack = [pc |-> p, read |-> q, out |-> o]
          BY <2>1
        <5> HIDE DEF p, q, o
        <5>2. stack' = [pc |-> "exit 1", read |-> q, out |-> o]
          BY <3>2, <5>1
        <5>3. QED
          BY <5>2 DEF q, o
      <4>2. LayersInv'
        <5>1. stack'.pc # "start"
          BY <4>1
        <5>2. QED
          BY <1>3, <4>1, <5>1, Zenon DEF LayersInv
      <4>3. NothingRemoved
        <5>1. stack'.read = empty
          BY <3>1, <4>1, Zenon
        <5>2. QED
          BY <5>1, Zenon DEF NothingRemoved, empty
      <4>4. QED
        BY <4>2, <4>3
    <3>3. ASSUME NEW c \in LayerContents(1), stack' = [pc |-> "load", read |-> <<c>>, out |-> c]
          PROVE  LayersInv' /\ NothingRemoved
      <4>1. /\ stack' = [pc |-> stack'.pc, read |-> stack'.read, out |-> stack'.out]
            /\ stack'.pc # "start" /\ stack'.out = c /\ stack'.read = <<c>>
        BY <3>3
      <4>2. <<c>> = Append(stack.read, c)
        BY <3>1
      <4>3. Len(stack.read) + 1 = 1
        BY <3>1
      <4>4. /\ Shaped(c)
            /\ \/ NoMenu(c) /\ ~IsScalar(c, 1)
               \/ ScalarMenu(c) /\ IsScalar(c, 1)
               \/ ArrayMenu(c) /\ ~IsScalar(c, 1)
        BY LayerIs, 1 \in Nat
      <4> HIDE DEF empty
      <4>5. IsScalar(c, 1) => ItemsIn(c) = empty
        BY <4>4, Zenon DEF ScalarMenu, empty
      <4>6. ~IsScalar(c, 1) => Taken(ItemsIn(stack.out), ItemsIn(c), ItemsIn(c))
        BY <3>1, Zenon DEF Taken, empty
      <4>7. QED
        BY <1>3, <4>1, <4>2, <4>3, <4>4, <4>5, <4>6, LayerStep, Zenon DEF empty
    <3>4. QED
      BY <2>2, <3>2, <3>3, Zenon DEF LoadRequired
  <2>3. CASE LoadLayer
    <3>1. PICK c \in LayerContents(Len(stack.read) + 1) :
            stack' = [stack EXCEPT !.read = Append(@, c), !.out = DeepMerge(@, c)]
      BY <2>3, Zenon DEF LoadLayer
    <3>2. stack.pc = "load"
      BY <2>3, Zenon DEF LoadLayer
    <3> DEFINE p == stack.pc
               q == stack.read
               o == stack.out
               q2 == Append(q, c)
               o2 == DeepMerge(o, c)
    <3>3. /\ stack' = [pc |-> stack'.pc, read |-> stack'.read, out |-> stack'.out]
          /\ stack'.pc = p /\ stack'.read = q2 /\ stack'.out = o2
      <4>1. stack = [pc |-> p, read |-> q, out |-> o]
        BY <2>1
      <4>2. stack' = [stack EXCEPT !.read = q2, !.out = o2]
        BY <3>1
      <4> HIDE DEF p, q, o, q2, o2
      <4>3. stack' = [pc |-> p, read |-> q2, out |-> o2]
        BY <4>1, <4>2
      <4>4. QED
        BY <4>3
    <3>4. Len(stack.read) + 1 \in Nat
      BY <1>3, LenProperties DEF LayersInv, LayersRead
    <3>5. /\ Shaped(o2)
          /\ IsScalar(c, Len(stack.read) + 1) => ItemsIn(o2) = empty /\ ItemsIn(c) = empty
          /\ ~IsScalar(c, Len(stack.read) + 1) => Taken(ItemsIn(stack.out), ItemsIn(c), ItemsIn(o2))
      BY <2>1, <3>4, LayerTaken, Zenon
    <3> HIDE DEF o2
    <3>6. stack'.pc # "start"
      BY <3>2, <3>3
    <3>7. LayersInv' /\ NothingRemoved
      BY <1>3, <3>3, <3>5, <3>6, LayerStep, Zenon
    <3>8. QED
      BY <3>7
  <2>4. QED
    BY <1>3, <2>2, <2>3, Zenon DEF LayersNext
<1>4. LayersInv /\ UNCHANGED layerVars => LayersInv'
  <2> SUFFICES ASSUME LayersInv, UNCHANGED layerVars PROVE LayersInv'
    OBVIOUS
  <2>1. stack' = stack
    BY Zenon DEF layerVars
  <2>2. QED
    BY <2>1, Zenon DEF LayersInv
<1>5. LayersInv /\ [LayersNext]_layerVars => LayersInv' /\ [HighestLayerWins' /\ NothingRemoved]_layerVars
  <2>1. (LayersInv => HighestLayerWins)'
    BY <1>2, PTL
  <2>2. QED
    BY <1>3, <1>4, <2>1, Zenon
<1>6. QED
  BY <1>1, <1>5, PTL DEF LayersSpec, LayersMerge
=============================================================================
