----------------------------- MODULE Firmware_proofs ----------------------------
(***************************************************************************)
(* Proofs about the programs of QarDemos on the peripherals: that the      *)
(* handler of uart_rs485_isr.c counts no gap twice, that firmware_delay is *)
(* never short, that qar_sdk_init hands quiet peripherals to main(), that  *)
(* i2c_loopback's commands are served in order, and that the programs read *)
(* back what they sent: for every width of the timer, every delay and      *)
(* every pace of the bit clocks, and whatever happens on the line and the  *)
(* pins.                                                                   *)
(***************************************************************************)
EXTENDS Firmware, SequenceTheorems, TLAPS

--------------------------------------------------------------------------------
(* The text of a program *)

\* The flags of a unit whose masks qar_sdk_init clears bit by bit, the channels of a capture:
\* what a program may write there.
Within(at, reg, value) ==
  /\ at = "uart" /\ reg = "IRQ_EN" => value \subseteq UartIrqAll
  /\ at = "can" /\ reg = "IRQ_EN" => value \subseteq CanIrqAll
  /\ at = "timer" /\ reg = "CAPTURE_CTRL" => value \subseteq TimerChannels

\* A step that neither counts nor writes the timer's counter.
Plain(r) ==
  /\ r.step \notin {"count", "mret"}
  /\ r.step = "put" => r.op.reg # "COUNTER" /\ Within(r.at, r.op.reg, r.op.value)
  /\ r.step = "load" => r.reg = "IRQ_EN"
  /\ r.step = "store" => r.reg = "IRQ_EN" /\ Within(r.at, r.reg, r.set)
  /\ r.step = "elapse" => r.ticks \in Nat
  /\ r.step \in {"jump", "unless"} => r.by \in Int

\* The step after r, when r is at i, other than i + 1
Targets(r, i) == IF r.step \in {"jump", "unless"} THEN {i + r.by} ELSE {}

\* A step that relies on the one before it, and that one
Leans(r) == r.step \in {"elapse", "store"}
Readies(q, r) ==
  IF r.step = "elapse" THEN q.step = "mark" ELSE q.step = "load" /\ q.at = r.at

\* The steps that not every text has.
Allowed(r, may) == r.step \in {"elapse", "jump", "unless"} => r.step \in may

\* A text of plain steps that comes to a step that leans on another only from that one: no
\* jump leads there, nor out of the text.
Fit(s, may) ==
  /\ \E S : s \in Seq(S)
  /\ \A i \in 1 .. Len(s) :
       /\ Plain(s[i]) /\ Allowed(s[i], may)
       /\ Leans(s[i]) => i > 1 /\ Readies(s[i - 1], s[i])
       /\ \A j \in Targets(s[i], i) :
            j \in 1 .. Len(s) + 1 /\ (j <= Len(s) => ~Leans(s[j]))

LEMMA ConcatFit ==
  \A s, t, may : Fit(s, may) /\ Fit(t, may) => Fit(s \o t, may)
<1> SUFFICES ASSUME NEW s, NEW t, NEW may, Fit(s, may), Fit(t, may)
             PROVE  Fit(s \o t, may)
  OBVIOUS
<1>1. PICK S : s \in Seq(S)
  BY DEF Fit
<1>2. PICK T : t \in Seq(T)
  BY DEF Fit
<1>3. s \in Seq(S \cup T) /\ t \in Seq(S \cup T)
  BY <1>1, <1>2
<1> DEFINE u == s \o t
           m == Len(s)
           n == Len(t)
<1>4. /\ u \in Seq(S \cup T) /\ Len(u) = m + n /\ m \in Nat /\ n \in Nat
      /\ \A i \in 1 .. m + n : u[i] = IF i <= m THEN s[i] ELSE t[i - m]
  BY <1>3, ConcatProperties, LenProperties
<1> HIDE DEF u, m, n
<1>5. ASSUME NEW i \in 1 .. m + n
      PROVE  /\ Plain(u[i]) /\ Allowed(u[i], may)
             /\ Leans(u[i]) => i > 1 /\ Readies(u[i - 1], u[i])
             /\ \A j \in Targets(u[i], i) :
                  j \in 1 .. m + n + 1 /\ (j <= m + n => ~Leans(u[j]))
  <2>1. CASE i <= m
    <3>1. i \in 1 .. m /\ u[i] = s[i]
      BY <1>4, <2>1
    <3>2. /\ Plain(s[i]) /\ Allowed(s[i], may)
          /\ Leans(s[i]) => i > 1 /\ Readies(s[i - 1], s[i])
          /\ \A j \in Targets(s[i], i) :
               j \in 1 .. m + 1 /\ (j <= m => ~Leans(s[j]))
      BY <3>1 DEF Fit, m
    <3>3. i > 1 => u[i - 1] = s[i - 1]
      BY <1>4, <3>1
    <3>4. ASSUME NEW j \in Targets(s[i], i)
          PROVE  j \in 1 .. m + n + 1 /\ (j <= m + n => ~Leans(u[j]))
      <4>1. j \in 1 .. m + 1 /\ (j <= m => ~Leans(s[j]))
        BY <3>2
      <4>2. j = m + 1 /\ j <= m + n => u[j] = t[1] /\ 1 \in 1 .. n
        BY <1>4
      <4>3. 1 \in 1 .. n => ~Leans(t[1])
        BY DEF Fit, n
      <4>4. j <= m => u[j] = s[j]
        BY <1>4, <4>1
      <4> QED BY <1>4, <4>1, <4>2, <4>3, <4>4
    <3> QED BY <3>1, <3>2, <3>3, <3>4
  <2>2. CASE ~(i <= m)
    <3> DEFINE k == i - m
    <3>1. k \in 1 .. n /\ u[i] = t[k] /\ k + m = i
      BY <1>4, <2>2
    <3>2. /\ Plain(t[k]) /\ Allowed(t[k], may)
          /\ Leans(t[k]) => k > 1 /\ Readies(t[k - 1], t[k])
          /\ \A j \in Targets(t[k], k) :
               j \in 1 .. n + 1 /\ (j <= n => ~Leans(t[j]))
      BY <3>1 DEF Fit, n
    <3>3. k > 1 => u[i - 1] = t[k - 1] /\ i > 1
      BY <1>4, <2>2
    <3>4. ASSUME NEW j \in Targets(u[i], i)
          PROVE  j \in 1 .. m + n + 1 /\ (j <= m + n => ~Leans(u[j]))
      <4>1. t[k].step \in {"jump", "unless"} /\ j = i + t[k].by
        BY <3>1 DEF Targets
      <4>2. k + t[k].by \in 1 .. n + 1 /\ (k + t[k].by <= n => ~Leans(t[k + t[k].by]))
        BY <3>2, <4>1 DEF Targets
      <4>3. t[k].by \in Int
        BY <3>2, <4>1 DEF Plain
      <4> DEFINE by == t[k].by
      <4>4. j = i + by /\ by \in Int
        BY <4>1, <4>3
      <4>5. k + by \in 1 .. n + 1 /\ (k + by <= n => ~Leans(t[k + by]))
        BY <4>2
      <4> HIDE DEF by
      <4>6. j - m = k + by /\ j \in 1 .. m + n + 1 /\ j > m
        BY <1>4, <3>1, <4>4, <4>5
      <4>7. j <= m + n => u[j] = t[k + by]
        BY <1>4, <4>4, <4>6
      <4> QED BY <1>4, <4>4, <4>5, <4>6, <4>7
    <3> QED BY <3>1, <3>2, <3>3, <3>4
  <2> QED BY <2>1, <2>2
<1> QED BY <1>4, <1>5 DEF Fit, u

LEMMA EmptyFit == \A may : Fit(<<>>, may)
  BY DEF Fit

\* A step that goes on to the next one.
Simple(r) == Plain(r) /\ r.step \notin {"elapse", "store", "jump", "unless"}

LEMMA StepFit == \A r, may : Simple(r) => Fit(<<r>>, may)
<1> SUFFICES ASSUME NEW r, NEW may, Simple(r) PROVE Fit(<<r>>, may)
  OBVIOUS
<1>1. <<r>> \in Seq({r}) /\ Len(<<r>>) = 1 /\ <<r>>[1] = r
  OBVIOUS
<1> DEFINE s == <<r>>
<1> HIDE DEF s
<1>2. s \in Seq({r}) /\ Len(s) = 1 /\ \A i \in 1 .. 1 : s[i] = r
  BY <1>1 DEF s
<1>3. \A i : Targets(r, i) = {} /\ Plain(r) /\ Allowed(r, may) /\ ~Leans(r)
  BY DEF Simple, Targets, Allowed, Leans
<1> QED BY <1>2, <1>3 DEF Fit, s

LEMMA PutFit ==
  \A at, reg, value, may : reg \notin {"COUNTER", "IRQ_EN", "CAPTURE_CTRL"} => Fit(Put(at, reg, value), may)
  BY StepFit DEF Simple, Plain, Within, Put

\* A write that Within is about
LEMMA WithinFit ==
  \A at, reg, value, may :
    reg # "COUNTER" /\ Within(at, reg, value) => Fit(Put(at, reg, value), may)
  BY StepFit DEF Simple, Plain, Put

LEMMA PutToFit ==
  \A reg, ch, value, may : reg \notin {"COUNTER", "CAPTURE_CTRL"} => Fit(PutTo(reg, ch, value), may)
  BY StepFit DEF Simple, Plain, Within, PutTo

LEMMA GlanceFit ==
  \A at, reg, may : reg \notin {"COUNTER", "IRQ_EN", "CAPTURE_CTRL"} => Fit(Glance(at, reg), may)
  BY StepFit DEF Simple, Plain, Within, Glance

LEMMA ReadFit ==
  /\ \A at, reg, may : Fit(Get(at, reg), may)
  /\ \A at, reg, flags, may : Fit(Until(at, reg, flags), may)
  /\ \A at, reg, flags, may : Fit(While(at, reg, flags), may)
  /\ \A at, reg, n, may : Fit(AtLeast(at, reg, n), may)
  BY StepFit DEF Simple, Plain, Get, Until, While, AtLeast

LEMMA Pair == \A a, b : <<a>> \o <<b>> = <<a, b>>
<1> TAKE a, b
<1> DEFINE S == {a, b}
           s == <<a>>
           t == <<b>>
           u == <<a, b>>
<1>1. /\ s \in Seq(S) /\ t \in Seq(S) /\ u \in Seq(S)
      /\ Len(s) = 1 /\ Len(t) = 1 /\ Len(u) = 2
      /\ s[1] = a /\ t[1] = b /\ u[1] = a /\ u[2] = b
  OBVIOUS
<1> HIDE DEF S, s, t, u
<1>2. /\ s \o t \in Seq(S) /\ Len(s \o t) = 2
      /\ \A i \in 1 .. 2 : (s \o t)[i] = IF i <= 1 THEN s[i] ELSE t[i - 1]
  <2>1. /\ s \o t \in Seq(S) /\ Len(s \o t) = Len(s) + Len(t)
        /\ \A i \in 1 .. Len(s) + Len(t) :
             (s \o t)[i] = IF i <= Len(s) THEN s[i] ELSE t[i - Len(s)]
    BY <1>1, ConcatProperties
  <2> QED BY <1>1, <2>1
<1>3. \A i \in 1 .. 2 : (s \o t)[i] = u[i]
  <2>1. (s \o t)[1] = s[1]
    BY <1>2
  <2>2. (s \o t)[2] = t[1]
    BY <1>2
  <2>3. \A i \in 1 .. 2 : i = 1 \/ i = 2
    OBVIOUS
  <2> QED BY <1>1, <2>1, <2>2, <2>3
<1>4. s \o t = u
  BY <1>1, <1>2, <1>3, SeqEqual
<1> QED BY <1>4 DEF s, t, u

LEMMA ModifyFit ==
  \A at, set, clear, may : Within(at, "IRQ_EN", set) => Fit(Modify(at, "IRQ_EN", set, clear), may)
<1> SUFFICES ASSUME NEW at, NEW set, NEW clear, NEW may, Within(at, "IRQ_EN", set)
             PROVE  Fit(Modify(at, "IRQ_EN", set, clear), may)
  OBVIOUS
<1> DEFINE a == [step |-> "load", at |-> at, reg |-> "IRQ_EN"]
           b == [step |-> "store", at |-> at, reg |-> "IRQ_EN", set |-> set, clear |-> clear]
           s == <<a, b>>
<1>1. /\ Plain(a) /\ Plain(b) /\ Readies(a, b) /\ ~Leans(a)
      /\ Allowed(a, may) /\ Allowed(b, may)
  BY DEF Plain, Readies, Leans, Allowed
<1>2. /\ s \in Seq({a, b}) /\ Len(s) = 2 /\ s[1] = a /\ s[2] = b
      /\ Modify(at, "IRQ_EN", set, clear) = s
  BY DEF Modify
<1>3. \A i : Targets(a, i) = {} /\ Targets(b, i) = {}
  BY DEF Targets
<1> HIDE DEF a, b, s
<1>4. ASSUME NEW i \in 1 .. 2
      PROVE  /\ Plain(s[i]) /\ Allowed(s[i], may)
             /\ Leans(s[i]) => i > 1 /\ Readies(s[i - 1], s[i])
             /\ Targets(s[i], i) = {}
  BY <1>1, <1>2, <1>3
<1> QED BY <1>2, <1>4 DEF Fit

\* What the only text that waits contains besides, and the only other one with a loop.
Waits == {"elapse", "jump", "unless"}
Loops == {"jump"}

LEMMA DelayFit == \A ticks \in Nat : Fit(firmware_delay(ticks), Waits)
<1> TAKE ticks \in Nat
<1> DEFINE a == [step |-> "mark", at |-> "timer"]
           b == [step |-> "elapse", at |-> "timer", ticks |-> ticks]
           s == <<a, b>>
<1>1. /\ Plain(a) /\ Plain(b) /\ a.step = "mark" /\ b.step = "elapse"
      /\ Allowed(a, Waits) /\ Allowed(b, Waits) /\ ~Leans(a) /\ Readies(a, b)
  BY DEF Plain, Allowed, Waits, Leans, Readies
<1>2. /\ s \in Seq({a, b}) /\ Len(s) = 2 /\ s[1] = a /\ s[2] = b
      /\ firmware_delay(ticks) = s
  BY DEF firmware_delay
<1> HIDE DEF a, b, s
<1>3. \A i : Targets(a, i) = {} /\ Targets(b, i) = {}
  BY <1>1 DEF Targets
<1>4. ASSUME NEW i \in 1 .. 2
      PROVE  /\ Plain(s[i]) /\ Allowed(s[i], Waits)
             /\ Leans(s[i]) => i > 1 /\ Readies(s[i - 1], s[i])
             /\ Targets(s[i], i) = {}
  BY <1>1, <1>2, <1>3
<1> QED BY <1>2, <1>4 DEF Fit

\* A step that goes back to the first of the text before it or skips the text after it.
LEMMA JumpFit == \A s, may : Fit(s, may) /\ "jump" \in may => Fit(Forever(s), may)
<1> SUFFICES ASSUME NEW s, NEW may, Fit(s, may), "jump" \in may PROVE Fit(Forever(s), may)
  OBVIOUS
<1> DEFINE n == Len(s)
           r == [step |-> "jump", at |-> "none", by |-> -n]
           t == <<r>>
           u == s \o t
<1>1. PICK S : s \in Seq(S)
  BY DEF Fit
<1>2. /\ t \in Seq(S \cup {r}) /\ s \in Seq(S \cup {r}) /\ Len(t) = 1 /\ t[1] = r /\ n \in Nat
  BY <1>1
<1>3. Plain(r) /\ r.step = "jump" /\ r.by = -n /\ Allowed(r, may) /\ ~Leans(r)
  BY <1>2 DEF Plain, Allowed, Leans
<1>4. Forever(s) = u
  BY DEF Forever, Jump
<1> HIDE DEF t, r, n
<1>5. /\ u \in Seq(S \cup {r}) /\ Len(u) = n + 1
      /\ \A i \in 1 .. n + 1 : u[i] = IF i <= n THEN s[i] ELSE t[i - n]
  <2>1. /\ s \o t \in Seq(S \cup {r}) /\ Len(s \o t) = n + 1
        /\ \A i \in 1 .. n + 1 : (s \o t)[i] = IF i <= n THEN s[i] ELSE t[i - n]
    <3>1. /\ s \o t \in Seq(S \cup {r}) /\ Len(s \o t) = Len(s) + Len(t)
          /\ \A i \in 1 .. Len(s) + Len(t) :
               (s \o t)[i] = IF i <= Len(s) THEN s[i] ELSE t[i - Len(s)]
      BY <1>2, ConcatProperties
    <3> QED BY <1>2, <3>1 DEF n
  <2> QED BY <2>1
<1> HIDE DEF u
<1>6. ASSUME NEW i \in 1 .. n
      PROVE  /\ Plain(s[i]) /\ Allowed(s[i], may)
             /\ Leans(s[i]) => i > 1 /\ Readies(s[i - 1], s[i])
             /\ \A j \in Targets(s[i], i) :
                  j \in 1 .. n + 1 /\ (j <= n => ~Leans(s[j]))
  BY DEF Fit, n
<1>7. u[n + 1] = r /\ \A i \in 1 .. n : u[i] = s[i]
  BY <1>2, <1>5
<1>8. ASSUME NEW i \in 1 .. n + 1
      PROVE  /\ Plain(u[i]) /\ Allowed(u[i], may)
             /\ Leans(u[i]) => i > 1 /\ Readies(u[i - 1], u[i])
             /\ \A j \in Targets(u[i], i) :
                  j \in 1 .. n + 1 + 1 /\ (j <= n + 1 => ~Leans(u[j]))
  <2>1. CASE i = n + 1
    <3>1. Targets(u[i], i) = {1}
      BY <1>2, <1>3, <1>7, <2>1 DEF Targets
    <3>2. ~Leans(u[1])
      BY <1>2, <1>3, <1>6, <1>7
    <3> QED BY <1>2, <1>3, <1>7, <2>1, <3>1, <3>2
  <2>2. CASE i # n + 1
    <3>1. i \in 1 .. n /\ u[i] = s[i] /\ (i > 1 => u[i - 1] = s[i - 1])
      BY <1>2, <1>7, <2>2
    <3>2. ASSUME NEW j \in Targets(s[i], i)
          PROVE  j \in 1 .. n + 2 /\ (j <= n + 1 => ~Leans(u[j]))
      <4>1. j \in 1 .. n + 1 /\ (j <= n => ~Leans(s[j]))
        BY <1>6, <3>1
      <4> QED BY <1>2, <1>3, <1>7, <4>1
    <3> QED BY <1>2, <1>6, <3>1, <3>2
  <2> QED BY <2>1, <2>2
<1> QED BY <1>2, <1>4, <1>5, <1>8 DEF Fit

LEMMA WhenFit ==
  \A at, reg, flags, s, may :
    Fit(s, may) /\ "unless" \in may => Fit(When(at, reg, flags, s), may)
<1> SUFFICES ASSUME NEW at, NEW reg, NEW flags, NEW s, NEW may, Fit(s, may), "unless" \in may
             PROVE  Fit(When(at, reg, flags, s), may)
  OBVIOUS
<1> DEFINE n == Len(s)
           r == [step |-> "unless", at |-> at, reg |-> reg, flags |-> flags, by |-> n + 1]
           t == <<r>>
           u == t \o s
<1>1. PICK S : s \in Seq(S)
  BY DEF Fit
<1>2. /\ t \in Seq(S \cup {r}) /\ s \in Seq(S \cup {r}) /\ Len(t) = 1 /\ t[1] = r /\ n \in Nat
  BY <1>1
<1>3. Plain(r) /\ r.step = "unless" /\ r.by = n + 1 /\ Allowed(r, may) /\ ~Leans(r)
  BY <1>2 DEF Plain, Allowed, Leans
<1>4. When(at, reg, flags, s) = u
  BY DEF When
<1> HIDE DEF t, r, n
<1>5. /\ u \in Seq(S \cup {r}) /\ Len(u) = n + 1
      /\ \A i \in 1 .. n + 1 : u[i] = IF i <= 1 THEN t[i] ELSE s[i - 1]
  <2>1. /\ t \o s \in Seq(S \cup {r}) /\ Len(t \o s) = 1 + n
        /\ \A i \in 1 .. 1 + n : (t \o s)[i] = IF i <= 1 THEN t[i] ELSE s[i - 1]
    <3>1. /\ t \o s \in Seq(S \cup {r}) /\ Len(t \o s) = Len(t) + Len(s)
          /\ \A i \in 1 .. Len(t) + Len(s) :
               (t \o s)[i] = IF i <= Len(t) THEN t[i] ELSE s[i - Len(t)]
      BY <1>2, ConcatProperties
    <3> QED BY <1>2, <3>1 DEF n
  <2> QED BY <1>2, <2>1
<1> HIDE DEF u
<1>6. ASSUME NEW i \in 1 .. n
      PROVE  /\ Plain(s[i]) /\ Allowed(s[i], may)
             /\ Leans(s[i]) => i > 1 /\ Readies(s[i - 1], s[i])
             /\ \A j \in Targets(s[i], i) :
                  j \in 1 .. n + 1 /\ (j <= n => ~Leans(s[j]))
  BY DEF Fit, n
<1>7. u[1] = r /\ \A i \in 1 .. n : u[i + 1] = s[i]
  BY <1>2, <1>5
<1>8. ASSUME NEW i \in 1 .. n + 1
      PROVE  /\ Plain(u[i]) /\ Allowed(u[i], may)
             /\ Leans(u[i]) => i > 1 /\ Readies(u[i - 1], u[i])
             /\ \A j \in Targets(u[i], i) :
                  j \in 1 .. n + 1 + 1 /\ (j <= n + 1 => ~Leans(u[j]))
  <2>1. CASE i = 1
    <3>1. Targets(u[i], i) = {n + 2}
      BY <1>2, <1>3, <1>7, <2>1 DEF Targets
    <3> QED BY <1>2, <1>3, <1>7, <2>1, <3>1
  <2>2. CASE i # 1
    <3> DEFINE k == i - 1
    <3>1. k \in 1 .. n /\ u[i] = s[k] /\ (k > 1 => u[i - 1] = s[k - 1] /\ i > 1) /\ i = k + 1
      <4>1. k \in 1 .. n /\ i = k + 1
        BY <1>2, <2>2
      <4>2. k > 1 => k - 1 \in 1 .. n /\ i - 1 = (k - 1) + 1 /\ i > 1
        BY <1>2, <4>1
      <4> QED BY <1>7, <4>1, <4>2
    <3>2. ASSUME NEW j \in Targets(u[i], i)
          PROVE  j \in 1 .. n + 2 /\ (j <= n + 1 => ~Leans(u[j]))
      <4> DEFINE by == s[k].by
      <4>1. s[k].step \in {"jump", "unless"} /\ j = i + by
        BY <3>1 DEF Targets
      <4>2. by \in Int
        BY <1>6, <3>1, <4>1 DEF Plain
      <4>3. k + by \in 1 .. n + 1 /\ (k + by <= n => ~Leans(s[k + by]))
        BY <1>6, <3>1, <4>1 DEF Targets
      <4> HIDE DEF by
      <4>4. j = (k + by) + 1
        BY <3>1, <4>1, <4>2
      <4>5. k + by <= n => u[j] = s[k + by]
        BY <1>2, <1>7, <4>3, <4>4
      <4> QED BY <1>2, <4>2, <4>3, <4>4, <4>5
    <3> QED BY <1>2, <1>6, <3>1, <3>2
  <2> QED BY <2>1, <2>2
<1> QED BY <1>2, <1>4, <1>5, <1>8 DEF Fit

--------------------------------------------------------------------------------
(* The texts of qar_sdk_init and of the programs *)

\* The writes of masks
LEMMA MaskFit ==
  /\ \A at, value, may :
       at \in {"timer", "gpio", "spi", "i2c", "adc"} => Fit(Put(at, "IRQ_EN", value), may)
  /\ \A at, set, clear, may :
       at \in {"timer", "gpio", "spi", "i2c", "adc"} =>
         Fit(Modify(at, "IRQ_EN", set, clear), may)
  /\ \A at, may : Fit(Put(at, "IRQ_EN", {}), may)
  /\ \A at, clear, may : Fit(Modify(at, "IRQ_EN", {}, clear), may)
  /\ \A set, clear, may :
       set \subseteq UartIrqAll => Fit(Modify("uart", "IRQ_EN", set, clear), may)
  /\ \A set, clear, may :
       set \subseteq CanIrqAll => Fit(Modify("can", "IRQ_EN", set, clear), may)
  /\ \A at, may : Fit(Put(at, "CAPTURE_CTRL", {}), may)
<1>1. \A at, value :
        at \in {"timer", "gpio", "spi", "i2c", "adc"} => Within(at, "IRQ_EN", value)
  BY DEF Within
<1>2. \A at : Within(at, "IRQ_EN", {}) /\ Within(at, "CAPTURE_CTRL", {})
  BY DEF Within
<1>3. \A set : set \subseteq UartIrqAll => Within("uart", "IRQ_EN", set)
  BY DEF Within
<1>4. \A set : set \subseteq CanIrqAll => Within("can", "IRQ_EN", set)
  BY DEF Within
<1> QED BY <1>1, <1>2, <1>3, <1>4, WithinFit, ModifyFit

LEMMA TimerHelpersFit ==
  /\ \A scale, auto, may : Fit(qar_timer_init(scale, auto), may)
  /\ \A ch, value, period, may : Fit(qar_timer_set_compare(ch, value, period), may)
  /\ \A ch, period, duty, may : Fit(qar_timer_config_pwm(ch, period, duty), may)
  /\ \A mask, may : Fit(qar_timer_enable_irq(mask), may)
  /\ \A matched, wdt, cap, may : Fit(qar_timer_clear_status(matched, wdt, cap), may)
  /\ \A load, now, may : Fit(qar_timer_config_wdt(load, now), may)
  BY PutFit, PutToFit, MaskFit, ConcatFit
  DEF qar_timer_init, qar_timer_set_compare, qar_timer_config_pwm, qar_timer_enable_irq,
      qar_timer_clear_status, qar_timer_config_wdt

LEMMA GpioHelpersFit ==
  /\ \A mask, may : Fit(qar_gpio_config_dir(mask), may)
  /\ \A value, may : Fit(qar_gpio_write(value), may)
  /\ \A mask, may : Fit(qar_gpio_set(mask), may)
  /\ \A mask, may : Fit(qar_gpio_clear(mask), may)
  /\ \A mask, may : Fit(qar_gpio_clear_irq(mask), may)
  /\ \A enable, rise, fall, may : Fit(qar_gpio_config_irq(enable, rise, fall), may)
  /\ \A mask, cycles, may : Fit(qar_gpio_config_debounce(mask, cycles), may)
  BY PutFit, MaskFit, ConcatFit
  DEF qar_gpio_config_dir, qar_gpio_write, qar_gpio_set, qar_gpio_clear,
      qar_gpio_clear_irq, qar_gpio_config_irq, qar_gpio_config_debounce

LEMMA UartHelpersFit ==
  /\ \A cycles, may : Fit(qar_uart_set_idle_cycles(cycles), may)
  /\ \A mask, may : mask \subseteq UartIrqAll => Fit(qar_uart_enable_irq(mask), may)
  /\ \A mask, may : Fit(qar_uart_disable_irq(mask), may)
  /\ \A mask, may : Fit(qar_uart_clear_irq(mask), may)
  /\ \A value, may : Fit(qar_uart_config_rs485(value), may)
  /\ \A periods, may : Fit(qar_uart_lin_set_break(periods), may)
  /\ \A id, may : Fit(qar_uart_lin_set_tx_id(id), may)
  /\ \A id, length, enable, may : Fit(qar_uart_lin_config_slave(id, length, enable), may)
  /\ \A may : Fit(qar_uart_lin_request_break, may)
  /\ \A may : Fit(qar_uart_lin_clear_break, may)
  /\ \A may : Fit(qar_uart_lin_start_auto_header, may)
  /\ \A may : Fit(qar_uart_lin_arm_slave, may)
  /\ \A may : Fit(qar_uart_lin_header, may)
  /\ \A byte, may : Fit(qar_uart_write(byte), may)
  BY PutFit, ReadFit, MaskFit, ConcatFit
  DEF qar_uart_set_idle_cycles, qar_uart_enable_irq, qar_uart_disable_irq,
      qar_uart_clear_irq, qar_uart_config_rs485, qar_uart_lin_set_break,
      qar_uart_lin_set_tx_id, qar_uart_lin_config_slave, qar_uart_lin_request_break,
      qar_uart_lin_clear_break, qar_uart_lin_start_auto_header, qar_uart_lin_arm_slave,
      qar_uart_lin_header, qar_uart_write

LEMMA CanHelpersFit ==
  /\ \A flags, may : Fit(qar_can_init(flags), may)
  /\ \A flags, may : Fit(qar_can_set_ctrl(flags), may)
  /\ \A mask, may : mask \subseteq CanIrqAll => Fit(qar_can_enable_irq(mask), may)
  /\ \A mask, may : Fit(qar_can_disable_irq(mask), may)
  /\ \A mask, may : Fit(qar_can_clear_irq(mask), may)
  /\ \A n, may : Fit(AwaitRxCount(n), may)
  /\ \A may : Fit(qar_can_read_payload, may)
  /\ \A may : Fit(qar_can_pop_rx, may)
  /\ \A may : Fit(qar_can_flush_rx, may)
  /\ \A id, data0, data1, dlc, may : Fit(qar_can_send_word(id, data0, data1, dlc), may)
  BY PutFit, ReadFit, MaskFit, ConcatFit
  DEF qar_can_init, qar_can_set_ctrl, qar_can_enable_irq, qar_can_disable_irq,
      qar_can_clear_irq, AwaitRxCount, qar_can_read_payload, qar_can_pop_rx,
      qar_can_flush_rx, qar_can_send_word

LEMMA SpiHelpersFit ==
  /\ \A loopback, may : Fit(qar_spi_init(loopback), may)
  /\ \A mask, may : Fit(qar_spi_set_cs(mask), may)
  /\ \A value, may : Fit(qar_spi_write(value), may)
  BY PutFit, ReadFit, ConcatFit
  DEF qar_spi_init, qar_spi_set_cs, qar_spi_write

LEMMA I2cHelpersFit ==
  /\ \A may : Fit(qar_i2c_init, may)
  /\ \A byte, may : Fit(qar_i2c_stage_tx(byte), may)
  /\ \A cmd, may : Fit(qar_i2c_issue_cmd(cmd), may)
  BY PutFit, ConcatFit
  DEF qar_i2c_init, qar_i2c_stage_tx, qar_i2c_issue_cmd

LEMMA AdcHelpersFit ==
  /\ \A continuous, now, channel, may : Fit(AdcCommand(continuous, now, channel), may)
  /\ \A mask, div, may : Fit(qar_adc_set_sequence(mask, div), may)
  /\ \A mask, may : Fit(qar_adc_enable_irq(mask), may)
  /\ \A mask, may : Fit(qar_adc_clear_irq(mask), may)
  /\ \A may : Fit(qar_adc_read, may)
  BY PutFit, ReadFit, MaskFit, ConcatFit
  DEF AdcCommand, qar_adc_set_sequence, qar_adc_enable_irq, qar_adc_clear_irq, qar_adc_read

LEMMA UartInitFit == \A may : Fit(qar_uart_init, may)
<1> TAKE may
<1>1. /\ Fit(Put("uart", "BAUD", 0), may)
      /\ Fit(Put("uart", "CTRL", [enable |-> TRUE, lin |-> FALSE]), may)
      /\ Fit(Put("uart", "IRQ_EN", {}), may) /\ Fit(Put("uart", "LIN_CTRL", 13), may)
  BY PutFit, MaskFit
<1>2. Fit(Put("uart", "IDLE_CFG", FALSE), may)
  <2>1. \A b : Fit(Put("uart", "IDLE_CFG", b), may)
    BY PutFit
  <2> QED BY <2>1, Zenon
<1> QED BY <1>1, <1>2, ConcatFit DEF qar_uart_init

LEMMA SdkFit == \A may : Fit(qar_sdk_init, may)
<1> TAKE may
<1>1. Fit(init_gpio_block, may)
  BY GpioHelpersFit, PutFit, ConcatFit DEF init_gpio_block
<1>2. Fit(init_timer_block, may)
  <2>1. /\ Fit(Put("timer", "CTRL", [enable |-> FALSE, auto |-> {}]), may)
        /\ Fit(Put("timer", "IRQ_EN", {}), may) /\ Fit(Put("timer", "PRESCALE", 0), may)
        /\ Fit(Put("timer", "CAPTURE_CTRL", {}), may)
    BY PutFit, MaskFit
  <2>2. /\ Fit(qar_timer_clear_status(TimerChannels, TRUE, TimerChannels), may)
        /\ Fit(qar_timer_set_compare(0, 0, 0), may) /\ Fit(qar_timer_set_compare(1, 0, 0), may)
        /\ Fit(qar_timer_config_pwm(0, 0, 0), may) /\ Fit(qar_timer_config_pwm(1, 0, 0), may)
        /\ Fit(qar_timer_config_wdt(0, FALSE), may)
    BY TimerHelpersFit
  <2> QED BY <2>1, <2>2, ConcatFit DEF init_timer_block
<1>3. Fit(init_uart_block, may)
  <2>1. /\ Fit(Put("uart", "CTRL", [enable |-> FALSE, lin |-> FALSE]), may)
        /\ Fit(Put("uart", "BAUD", 500), may)
    BY PutFit
  <2>2. /\ Fit(qar_uart_config_rs485(0), may) /\ Fit(qar_uart_set_idle_cycles(0), may)
        /\ Fit(qar_uart_lin_set_break(13), may)
        /\ Fit(qar_uart_lin_config_slave("00", 0, FALSE), may)
        /\ Fit(qar_uart_disable_irq(UartIrqAll), may) /\ Fit(qar_uart_clear_irq(UartIrqAll), may)
        /\ Fit(qar_uart_lin_clear_break, may)
    BY UartHelpersFit
  <2> DEFINE front == Put("uart", "CTRL", [enable |-> FALSE, lin |-> FALSE])
                        \o Put("uart", "BAUD", 500)
                        \o qar_uart_config_rs485(0) \o qar_uart_set_idle_cycles(0)
                        \o qar_uart_lin_set_break(13)
  <2>3. Fit(front, may)
    BY <2>1, <2>2, ConcatFit
  <2>4. init_uart_block = front \o qar_uart_lin_config_slave("00", 0, FALSE)
                            \o qar_uart_disable_irq(UartIrqAll) \o qar_uart_clear_irq(UartIrqAll)
                            \o qar_uart_lin_clear_break
    BY DEF init_uart_block
  <2> HIDE DEF front
  <2> QED BY <2>2, <2>3, <2>4, ConcatFit
<1>4. Fit(init_can_block, may)
  BY CanHelpersFit, PutFit, ConcatFit DEF init_can_block
<1>5. Fit(init_spi_block, may)
  BY SpiHelpersFit, PutFit, MaskFit, ConcatFit DEF init_spi_block
<1>6. Fit(init_i2c_block, may)
  BY PutFit, MaskFit, ConcatFit DEF init_i2c_block
<1>7. Fit(init_adc_block, may)
  BY AdcHelpersFit, PutFit, MaskFit, ConcatFit DEF init_adc_block
<1> QED
  BY <1>1, <1>2, <1>3, <1>4, <1>5, <1>6, <1>7, ConcatFit DEF qar_sdk_init

LEMMA CanDemoFit == \A may : Fit(can_loopback, may)
<1> TAKE may
<1>1. \A f : Fit(send_frame(f), may)
  BY CanHelpersFit DEF send_frame
<1>2. Fit(drain_rx, may)
  BY CanHelpersFit, ConcatFit DEF drain_rx
<1>3. /\ Fit(qar_can_init({"loopback", "bypass"}), may)
      /\ Fit(Put("can", "FILTER_ID", Frame1.id), may)
      /\ Fit(Put("can", "FILTER_MASK", 0 .. 10), may)
      /\ Fit(qar_can_enable_irq({"rx", "tx"}), may) /\ Fit(AwaitRxCount(2), may)
      /\ Fit(qar_can_set_ctrl({"loopback", "bypass", "quiet"}), may)
  <2>1. {"rx", "tx"} \subseteq CanIrqAll
    BY DEF CanIrqAll
  <2> QED BY <2>1, CanHelpersFit, PutFit
<1> DEFINE front == qar_can_init({"loopback", "bypass"})
                      \o Put("can", "FILTER_ID", Frame1.id) \o Put("can", "FILTER_MASK", 0 .. 10)
                      \o qar_can_enable_irq({"rx", "tx"})
                      \o send_frame(Frame1) \o send_frame(Frame2)
<1>4. Fit(front, may)
  BY <1>1, <1>3, ConcatFit
<1>5. can_loopback = front \o AwaitRxCount(2) \o drain_rx \o drain_rx
                       \o qar_can_set_ctrl({"loopback", "bypass", "quiet"}) \o send_frame(Frame3)
  BY DEF can_loopback
<1> HIDE DEF front
<1> QED BY <1>1, <1>2, <1>3, <1>4, <1>5, ConcatFit

LEMMA SpiDemoFit == \A may : Fit(spi_loopback, may)
<1> TAKE may
<1>1. \A v : Fit(spi_exchange(v), may)
  BY SpiHelpersFit, ReadFit, ConcatFit DEF spi_exchange
<1> QED BY <1>1, SpiHelpersFit, ConcatFit DEF spi_loopback

LEMMA I2cDemoFit == \A may : Fit(i2c_loopback, may)
<1> TAKE may
<1>1. \A cmd : Fit(Issue(cmd), may)
  BY I2cHelpersFit, ReadFit, ConcatFit DEF Issue, wait_cmd_clear
<1>2. /\ Fit(qar_i2c_init, may)
      /\ Fit(Put("i2c", "CTRL", [enable |-> TRUE, loopback |-> TRUE]), may)
      /\ Fit(qar_i2c_stage_tx(I2cAddress), may) /\ Fit(qar_i2c_stage_tx(I2cPayload), may)
      /\ Fit(wait_idle, may) /\ Fit(Get("i2c", "STATUS"), may)
  BY I2cHelpersFit, PutFit, ReadFit DEF wait_idle
<1> DEFINE front == qar_i2c_init \o Put("i2c", "CTRL", [enable |-> TRUE, loopback |-> TRUE])
                      \o qar_i2c_stage_tx(I2cAddress) \o qar_i2c_stage_tx(I2cPayload)
<1>3. Fit(front, may)
  BY <1>2, ConcatFit
<1>4. i2c_loopback = front \o Issue("START") \o Issue("WRITE") \o Issue("WRITE") \o Issue("STOP")
                       \o wait_idle \o Get("i2c", "STATUS")
  BY DEF i2c_loopback
<1> HIDE DEF front
<1> QED BY <1>1, <1>2, <1>3, <1>4, ConcatFit

LEMMA UartDemosFit ==
  \A may : /\ Fit(uart_rs485, may) /\ Fit(uart_rs485_isr, may)
             /\ Fit(lin_auto_header, may)
<1> TAKE may
<1>0. Fit(qar_uart_enable_irq({"idle"}), may)
  <2>1. {"idle"} \subseteq UartIrqAll
    BY DEF UartIrqAll
  <2> QED BY <2>1, UartHelpersFit
<1>1. Fit(uart_rs485, may)
  <2>1. \A b : Fit(send_byte(b), may)
    BY UartHelpersFit DEF send_byte
  <2> DEFINE front == qar_uart_init \o qar_uart_config_rs485(1)
                        \o qar_uart_enable_irq({"idle"}) \o qar_uart_set_idle_cycles(1000)
  <2>2. Fit(front, may)
    BY <1>0, UartInitFit, UartHelpersFit, ConcatFit
  <2>3. uart_rs485 = front \o send_byte("33") \o send_byte("55")
                       \o Until("uart", "STATUS", {"idle"}) \o qar_uart_clear_irq({"idle"})
    BY DEF uart_rs485
  <2> HIDE DEF front
  <2> QED BY <2>1, <2>2, <2>3, UartHelpersFit, ReadFit, ConcatFit
<1>2. Fit(uart_rs485_isr, may)
  BY <1>0, UartInitFit, UartHelpersFit, ConcatFit DEF uart_rs485_isr, send_byte
<1>3. Fit(lin_auto_header, may)
  <2> DEFINE front == qar_uart_init \o qar_uart_lin_set_break(16) \o qar_uart_lin_set_tx_id(LinId)
                        \o qar_uart_lin_config_slave(LinId, 2, TRUE) \o qar_uart_lin_arm_slave
             middle == front \o qar_uart_write("55") \o qar_uart_write("AA")
                         \o qar_uart_lin_request_break \o qar_uart_lin_start_auto_header
  <2>1. Fit(front, may)
    <3>1. \A e : Fit(qar_uart_lin_config_slave(LinId, 2, e), may)
      BY UartHelpersFit
    <3>2. Fit(qar_uart_lin_config_slave(LinId, 2, TRUE), may)
      BY <3>1, Zenon
    <3>3. /\ Fit(qar_uart_init, may) /\ Fit(qar_uart_lin_set_break(16), may)
          /\ Fit(qar_uart_lin_set_tx_id(LinId), may) /\ Fit(qar_uart_lin_arm_slave, may)
      BY UartInitFit, UartHelpersFit
    <3> QED BY <3>2, <3>3, ConcatFit, Zenon
  <2>2. lin_auto_header = middle \o Until("uart", "STATUS", {"header"})
                            \o qar_uart_clear_irq({"header"}) \o qar_uart_lin_header
    BY DEF lin_auto_header
  <2> HIDE DEF front
  <2>3. Fit(middle, may)
    BY <2>1, UartHelpersFit, ConcatFit
  <2> HIDE DEF middle
  <2> QED BY <2>2, <2>3, UartHelpersFit, ReadFit, ConcatFit
<1> QED BY <1>1, <1>2, <1>3

LEMMA GpioDemoFit == Fit(gpio_irq_demo, Waits)
<1>1. \A v : /\ Fit(qar_gpio_config_dir(v), Waits) /\ Fit(qar_gpio_write(v), Waits)
             /\ Fit(qar_gpio_set(v), Waits) /\ Fit(qar_gpio_clear(v), Waits)
             /\ Fit(qar_gpio_clear_irq(v), Waits)
  BY GpioHelpersFit
<1>2. Fit(firmware_delay(BlinkTicks), Waits) /\ Fit(firmware_delay(BeatTicks), Waits)
  BY DelayFit, DemoAssumption
<1>3. Fit(Beat, Waits)
  <2>1. Simple([step |-> "beat", at |-> "gpio"])
    BY DEF Simple, Plain
  <2> QED BY <2>1, StepFit, Zenon DEF Beat
<1> DEFINE body == qar_gpio_set({0}) \o firmware_delay(BlinkTicks) \o qar_gpio_clear({0})
                     \o qar_gpio_clear_irq({ButtonPin})
           loop == When("gpio", "IRQ_STATUS", {ButtonPin}, body)
                     \o Beat \o firmware_delay(BeatTicks)
           front == qar_gpio_config_dir(LedPins)
                      \o Put("gpio", "ALT_PWM", {0, 1}) \o qar_gpio_write({0, 2} \cap LedPins)
                      \o qar_gpio_config_irq({ButtonPin}, {ButtonPin}, {ButtonPin})
                      \o qar_gpio_config_debounce({ButtonPin}, Window64)
                      \o qar_timer_init(0, {})
<1>4. Fit(body, Waits)
  BY <1>1, <1>2, ConcatFit
<1>5. Fit(front, Waits)
  <2>1. /\ Fit(Put("gpio", "ALT_PWM", {0, 1}), Waits)
        /\ Fit(qar_gpio_config_irq({ButtonPin}, {ButtonPin}, {ButtonPin}), Waits)
        /\ Fit(qar_gpio_config_debounce({ButtonPin}, Window64), Waits)
        /\ Fit(qar_timer_init(0, {}), Waits)
    BY PutFit, GpioHelpersFit, TimerHelpersFit
  <2> QED BY <1>1, <2>1, ConcatFit
<1>6. gpio_irq_demo = front \o Forever(loop)
  BY DEF gpio_irq_demo
<1> HIDE DEF body, front
<1>7. Fit(loop, Waits)
  BY <1>2, <1>3, <1>4, WhenFit, ConcatFit DEF Waits
<1> HIDE DEF loop
<1>8. Fit(Forever(loop), Waits)
  BY <1>7, JumpFit DEF Waits
<1> QED BY <1>5, <1>6, <1>8, ConcatFit

LEMMA AdcDemoFit == \A may : Fit(adc_client, may)
<1> TAKE may
<1>1. /\ Fit(qar_adc_enable_continuous({0, 1}, 1), may)
      /\ Fit(qar_adc_disable_continuous, may) /\ Fit(qar_adc_start_single(2), may)
  <2>1. \A continuous, now, channel : Fit(AdcCommand(continuous, now, channel), may)
    BY AdcHelpersFit
  <2>2. /\ Fit(AdcCommand(TRUE, FALSE, 0), may) /\ Fit(AdcCommand(FALSE, FALSE, 0), may)
        /\ Fit(AdcCommand(FALSE, TRUE, 2), may)
    BY <2>1, Zenon
  <2>3. Fit(qar_adc_set_sequence({0, 1}, 1), may)
    BY AdcHelpersFit
  <2>4. Fit(qar_adc_enable_continuous({0, 1}, 1), may)
    BY <2>2, <2>3, ConcatFit, Zenon DEF qar_adc_enable_continuous
  <2> QED
    BY <2>2, <2>4, Zenon DEF qar_adc_disable_continuous, qar_adc_start_single
<1>2. Fit(AwaitSample, may)
  BY ReadFit DEF AwaitSample
<1>3. Fit(LeaveContinuous, may)
  BY <1>1, AdcHelpersFit, ReadFit, GlanceFit, ConcatFit DEF LeaveContinuous
<1>4. /\ Fit(qar_adc_enable_irq({"ready"}), may) /\ Fit(qar_adc_read, may)
  BY AdcHelpersFit
<1> QED BY <1>1, <1>2, <1>3, <1>4, ConcatFit DEF adc_client

LEMMA RoundFit == \A duty, may : Fit(Round(duty), may)
  BY PutToFit, GlanceFit, ConcatFit DEF Round, capture_read

\* A read of a register and a write of a duty, one after the other
LEMMA RoundSteps == \A duty : \A i \in 1 .. 4 : Simple(Round(duty)[i])
<1> TAKE duty
<1> DEFINE a == [step |-> "put", at |-> "timer",
                 op |-> [reg |-> "PWM_DUTY", ch |-> 0, value |-> duty]]
           b == [step |-> "put", at |-> "timer",
                 op |-> [reg |-> "PWM_DUTY", ch |-> 1, value |-> PwmTop - 1 - duty]]
           c == [step |-> "put", at |-> "timer", op |-> [reg |-> "CAPTURE_VALUE"]]
           S == {a, b, c}
<1>1. Simple(a) /\ Simple(b) /\ Simple(c)
  BY DEF Simple, Plain, Within
<1>2. Round(duty) = <<a>> \o <<b>> \o <<c>> \o <<c>>
  BY DEF Round, PutTo, capture_read, Glance
<1> HIDE DEF a, b, c
<1>3. <<a>> \o <<b>> \in Seq(S) /\ Len(<<a>> \o <<b>>) = 2
  BY Pair
<1>4. Round(duty) \in Seq(S) /\ Len(Round(duty)) = 4
  <2>1. <<a>> \o <<b>> \o <<c>> \in Seq(S) /\ Len(<<a>> \o <<b>> \o <<c>>) = 3
    BY <1>3, ConcatProperties
  <2> QED BY <1>2, <2>1, ConcatProperties
<1>5. \A i \in 1 .. 4 : Round(duty)[i] \in S
  BY <1>4
<1> QED BY <1>1, <1>5

LEMMA RampFit == \A may : Fit(Ramp, may)
<1> TAKE may
<1> DEFINE n == 4 * Rounds
           f(i) == Round(((i - 1) \div 4) * DutyStep)[((i - 1) % 4) + 1]
           S == {f(i) : i \in 1 .. n}
<1>1. n \in Nat
  <2>1. PwmTop + DutyStep - 1 \in Nat /\ DutyStep \in Nat \ {0}
    BY DemoAssumption
  <2>2. Rounds \in Nat
    BY <2>1 DEF Rounds
  <2> QED BY <2>2
<1>2. \A i \in 1 .. n : Simple(f(i))
  <2> TAKE i \in 1 .. n
  <2>1. ((i - 1) % 4) + 1 \in 1 .. 4
    BY <1>1
  <2> QED BY <2>1, RoundSteps
<1>3. Ramp = [i \in 1 .. n |-> f(i)]
  BY DEF Ramp
<1> HIDE DEF n, f
<1>4. /\ Ramp \in [1 .. n -> S]
      /\ \A i \in 1 .. n : Ramp[i] = f(i)
  BY <1>3
<1> HIDE DEF S
<1>5. Ramp \in Seq(S) /\ Len(Ramp) = n
  BY <1>1, <1>4
<1>6. \A i \in 1 .. n : /\ Plain(f(i)) /\ Allowed(f(i), may) /\ ~Leans(f(i))
                         /\ Targets(f(i), i) = {}
  BY <1>2 DEF Simple, Targets, Allowed, Leans
<1> QED BY <1>4, <1>5, <1>6 DEF Fit

LEMMA CaptureFit ==
  \A may : /\ Fit(Put("timer", "CAPTURE_CTRL", {0}), may)
           /\ Fit(Put("timer", "CAPTURE_CTRL", {1}), may)
           /\ Fit(Put("timer", "CAPTURE_CTRL", {0, 1}), may)
<1>1. \A value : value \subseteq TimerChannels => Within("timer", "CAPTURE_CTRL", value)
  BY DEF Within
<1>2. {0} \subseteq TimerChannels /\ {1} \subseteq TimerChannels /\ {0, 1} \subseteq TimerChannels
  BY DEF TimerChannels
<1> QED BY <1>1, <1>2, WithinFit

LEMMA TimerDemosFit == Fit(timer_pwm_demo, Loops) /\ \A may : Fit(timer_example, may)
<1>1. Fit(timer_pwm_demo, Loops)
  <2>1. Fit(pwm_config(PwmTop, PwmTop \div 4, 3 * (PwmTop \div 4)), Loops)
    BY TimerHelpersFit, ConcatFit DEF pwm_config
  <2>2. Fit(capture_start, Loops) /\ Fit(Put("gpio", "ALT_PWM", {0, 1}), Loops)
    BY PutFit, CaptureFit DEF capture_start
  <2>3. Fit(Forever(Ramp), Loops) /\ Fit(qar_timer_init(0, {0, 1}), Loops)
    BY RampFit, JumpFit, TimerHelpersFit DEF Loops
  <2> QED BY <2>1, <2>2, <2>3, ConcatFit DEF timer_pwm_demo
<1>2. ASSUME NEW may PROVE Fit(timer_example, may)
  <2>1. \A ch \in {0, 1} : Fit(qar_timer_manual_capture(ch), may)
    <3> TAKE ch \in {0, 1}
    <3> DEFINE r == [step |-> "get", at |-> "timer", reg |-> "CAPTURE_VALUE", ch |-> ch]
    <3>1. Simple(r)
      BY DEF Simple, Plain
    <3>2. Fit(<<r>>, may)
      BY <3>1, StepFit
    <3>3. Fit(Put("timer", "CAPTURE_CTRL", {ch}), may)
      BY CaptureFit
    <3> QED BY <3>2, <3>3, ConcatFit DEF qar_timer_manual_capture
  <2> DEFINE front == qar_timer_init(0, {0})
                        \o qar_timer_set_compare(0, 2, 2) \o qar_timer_enable_irq({"cmp0"})
                        \o qar_timer_config_pwm(0, PwmTop, PwmTop \div 2)
                        \o qar_timer_config_pwm(1, PwmTop, PwmTop \div 4)
  <2>2. Fit(front, may)
    BY TimerHelpersFit, ConcatFit
  <2>3. timer_example = front
                          \o qar_timer_config_wdt(PwmTop, TRUE)
                          \o qar_timer_manual_capture(0) \o qar_timer_manual_capture(1)
                          \o While("timer", "PWM_STATUS", {0, 1})
                          \o qar_timer_clear_status({0}, TRUE, {0, 1})
    BY DEF timer_example
  <2> HIDE DEF front
  <2>4. \A now : Fit(qar_timer_config_wdt(PwmTop, now), may)
    BY TimerHelpersFit
  <2>5. \A w : Fit(qar_timer_clear_status({0}, w, {0, 1}), may)
    BY TimerHelpersFit
  <2>6. /\ Fit(qar_timer_config_wdt(PwmTop, TRUE), may)
        /\ Fit(qar_timer_clear_status({0}, TRUE, {0, 1}), may)
    BY <2>4, <2>5, Zenon
  <2> DEFINE wdt == qar_timer_config_wdt(PwmTop, TRUE)
             first == qar_timer_manual_capture(0)
             second == qar_timer_manual_capture(1)
             poll == While("timer", "PWM_STATUS", {0, 1})
             clear == qar_timer_clear_status({0}, TRUE, {0, 1})
  <2>7. Fit(first, may) /\ Fit(second, may) /\ Fit(poll, may)
    BY <2>1, ReadFit
  <2>8. timer_example = front \o wdt \o first \o second \o poll \o clear
    BY <2>3
  <2>9. Fit(wdt, may) /\ Fit(clear, may)
    BY <2>6
  <2> HIDE DEF wdt, first, second, poll, clear
  <2>10. Fit(front \o wdt \o first \o second, may)
    BY <2>2, <2>7, <2>9, ConcatFit, Zenon
  <2>11. Fit(front \o wdt \o first \o second \o poll \o clear, may)
    BY <2>7, <2>9, <2>10, ConcatFit, Zenon
  <2> QED BY <2>1, <2>8, <2>11
<1> QED BY <1>1, <1>2

\* The steps that a program has besides
Besides(d) == CASE d = "gpio" -> Waits [] d = "pwm" -> Loops [] OTHER -> {}

\* A program is fit, after qar_sdk_init too.
LEMMA ProgramFit ==
  ASSUME NEW d \in DOMAIN Program
  PROVE  Fit(Program[d], Besides(d))
<1>1. d \in {"can", "spi", "i2c", "rs485", "isr", "lin", "gpio", "adc", "pwm", "timer"}
  BY DEF Program
<1>2. CASE d = "gpio"
  BY <1>2, GpioDemoFit DEF Program, Besides
<1>3. CASE d = "pwm"
  BY <1>3, TimerDemosFit DEF Program, Besides
<1>4. CASE d \notin {"gpio", "pwm"}
  <2>1. Besides(d) = {}
    BY <1>4 DEF Besides
  <2> QED
    BY <1>1, <1>4, <2>1, CanDemoFit, SpiDemoFit, I2cDemoFit, UartDemosFit, AdcDemoFit,
       TimerDemosFit
    DEF Program
<1> QED BY <1>2, <1>3, <1>4

\* What the text of a program consists of
LEMMA TextParts ==
  ASSUME NEW d \in DOMAIN Text
  PROVE  /\ d \in DOMAIN Program
         /\ MainAt \in Nat \ {0} /\ MainAt = Len(qar_sdk_init) + 1
         /\ Len(Program[d]) \in Nat /\ Len(Text[d]) = Len(qar_sdk_init) + Len(Program[d])
         /\ \A i \in 1 .. Len(Text[d]) :
              Text[d][i] = IF i < MainAt THEN qar_sdk_init[i] ELSE Program[d][i - MainAt + 1]
<1> DEFINE s == qar_sdk_init
           t == Program[d]
<1>1. d \in DOMAIN Program /\ Text[d] = s \o t
  BY DEF Text
<1>2. PICK S : s \in Seq(S)
  <2>1. Fit(s, {})
    BY SdkFit
  <2> QED BY <2>1 DEF Fit
<1>3. PICK T : t \in Seq(T)
  BY <1>1, ProgramFit DEF Fit
<1>4. s \in Seq(S \cup T) /\ t \in Seq(S \cup T)
  BY <1>2, <1>3
<1>5. MainAt = Len(s) + 1
  BY DEF MainAt
<1> HIDE DEF s, t
<1>6. /\ Len(s) \in Nat /\ Len(t) \in Nat /\ Len(s \o t) = Len(s) + Len(t)
      /\ \A i \in 1 .. Len(s) + Len(t) :
           (s \o t)[i] = IF i <= Len(s) THEN s[i] ELSE t[i - Len(s)]
  BY <1>4, ConcatProperties, LenProperties
<1>7. ASSUME NEW i \in 1 .. Len(Text[d])
      PROVE  Text[d][i] = IF i < MainAt THEN s[i] ELSE t[i - MainAt + 1]
  <2>1. i \in 1 .. Len(s) + Len(t) /\ (i <= Len(s) <=> i < MainAt) /\ i - MainAt + 1 = i - Len(s)
    BY <1>1, <1>5, <1>6
  <2> QED BY <1>1, <1>6, <2>1
<1> QED BY <1>1, <1>5, <1>6, <1>7 DEF s, t

LEMMA TextFit ==
  ASSUME NEW d \in DOMAIN Text
  PROVE  Fit(Text[d], Besides(d))
<1>1. d \in DOMAIN Program /\ Text[d] = qar_sdk_init \o Program[d]
  BY DEF Text
<1>2. Fit(qar_sdk_init, Besides(d)) /\ Fit(Program[d], Besides(d))
  BY <1>1, SdkFit, ProgramFit
<1> QED BY <1>1, <1>2, ConcatFit

\* The first step of main() leans on none before it, and main() comes after step 0.
LEMMA AtMain ==
  ASSUME NEW d \in DOMAIN Text
  PROVE  /\ MainAt \in Nat \ {0}
         /\ MainAt <= Len(Text[d]) => ~Leans(Text[d][MainAt])
<1>1. MainAt <= Len(Text[d]) => Text[d][MainAt] = Program[d][1] /\ 1 <= Len(Program[d])
  BY TextParts
<1>2. 1 <= Len(Program[d]) => ~Leans(Program[d][1])
  <2>1. Fit(Program[d], Besides(d)) /\ Len(Program[d]) \in Nat
    BY TextParts, ProgramFit
  <2> QED BY <2>1 DEF Fit
<1> QED BY <1>1, <1>2, TextParts

\* The handler: when the flag is up, count and acknowledge it.
LEMMA Handler ==
  /\ Len(uart_isr) = 4
  /\ uart_isr[1] = [step |-> "unless", at |-> "uart", reg |-> "STATUS", flags |-> {"idle"},
                    by |-> 3]
  /\ uart_isr[2] = [step |-> "count", at |-> "none"]
  /\ uart_isr[3] = [step |-> "put", at |-> "uart",
                    op |-> [reg |-> "IRQ_STATUS", value |-> {"idle"}]]
  /\ uart_isr[4] = [step |-> "mret", at |-> "none"]
<1> DEFINE count == [step |-> "count", at |-> "none"]
           put == [step |-> "put", at |-> "uart",
                   op |-> [reg |-> "IRQ_STATUS", value |-> {"idle"}]]
           mret == [step |-> "mret", at |-> "none"]
           unless == [step |-> "unless", at |-> "uart", reg |-> "STATUS", flags |-> {"idle"},
                      by |-> 3]
           S == {count, put, mret, unless}
           body == <<count, put>>
           first == <<unless>>
           last == <<mret>>
           front == first \o body
<1>1. Count \o qar_uart_clear_irq({"idle"}) = body
  <2>1. Count = <<count>> /\ qar_uart_clear_irq({"idle"}) = <<put>>
    BY DEF Count, qar_uart_clear_irq, Put
  <2> HIDE DEF count, put
  <2> QED BY <2>1, Pair
<1>2. body \in Seq(S) /\ Len(body) = 2 /\ body[1] = count /\ body[2] = put
  OBVIOUS
<1>3. When("uart", "STATUS", {"idle"}, body) = front
  BY <1>2 DEF When
<1>4. uart_isr = front \o last
  BY <1>1, <1>3 DEF uart_isr, Mret
<1>5. /\ first \in Seq(S) /\ Len(first) = 1 /\ first[1] = unless
      /\ last \in Seq(S) /\ Len(last) = 1 /\ last[1] = mret
  OBVIOUS
<1> HIDE DEF body, first, last, count, put, mret, unless, S
<1>6. /\ front \in Seq(S) /\ Len(front) = 3
      /\ \A i \in 1 .. 3 : front[i] = IF i <= 1 THEN first[i] ELSE body[i - 1]
  <2>1. /\ first \o body \in Seq(S) /\ Len(first \o body) = Len(first) + Len(body)
        /\ \A i \in 1 .. Len(first) + Len(body) :
             (first \o body)[i] = IF i <= Len(first) THEN first[i] ELSE body[i - Len(first)]
    BY <1>2, <1>5, ConcatProperties
  <2>2. Len(first) = 1 /\ Len(first) + Len(body) = 3
    BY <1>2, <1>5
  <2> QED BY <2>1, <2>2
<1>7. front[1] = unless /\ front[2] = count /\ front[3] = put
  BY <1>2, <1>5, <1>6
<1> HIDE DEF front
<1>8. /\ front \o last \in Seq(S) /\ Len(front \o last) = 4
      /\ \A i \in 1 .. 4 : (front \o last)[i] = IF i <= 3 THEN front[i] ELSE last[i - 3]
  <2>1. /\ front \o last \in Seq(S) /\ Len(front \o last) = Len(front) + Len(last)
        /\ \A i \in 1 .. Len(front) + Len(last) :
             (front \o last)[i] = IF i <= Len(front) THEN front[i] ELSE last[i - Len(front)]
    BY <1>5, <1>6, ConcatProperties
  <2>2. Len(front) = 3 /\ Len(front) + Len(last) = 4
    BY <1>5, <1>6
  <2> QED BY <2>1, <2>2
<1>9. /\ Len(uart_isr) = 4
      /\ uart_isr[1] = unless /\ uart_isr[2] = count /\ uart_isr[3] = put /\ uart_isr[4] = mret
  BY <1>4, <1>5, <1>7, <1>8
<1> QED BY <1>9 DEF count, put, mret, unless

--------------------------------------------------------------------------------
(* Control *)

LEMMA FirmwareSteps ==
  ASSUME [FirmwareNext]_firmwareVars
  PROVE  \/ \E fast, rx, in : Execute(fast, rx, in)
         \/ \E fast, rx, in : Interrupt(fast, rx, in)
         \/ \E fast, rx, in : Boot(fast, rx, in)
         \/ \E fast, rx, in : Compute(fast, rx, in)
         \/ \E fast, rx, in : Restart(fast, rx, in)
         \/ \E fast : Echo(fast)
         \/ UNCHANGED firmwareVars
  BY DEF FirmwareNext, Processor

\* What a step of main() or of qar_sdk_init can be
LEMMA MainStep ==
  ASSUME ControlInv, Running, mepc = 0
  PROVE  /\ Now = Text[demo][pc] /\ pc \in 1 .. Len(Text[demo])
         /\ Plain(Now) /\ Allowed(Now, Besides(demo))
         /\ Now.step = "elapse" => demo # "isr"
         /\ NextPc(Now) \in Nat
         /\ NextPc(Now) <= Len(Text[demo]) /\ Leans(Text[demo][NextPc(Now)]) =>
              NextPc(Now) = pc + 1 /\ Readies(Now, Text[demo][NextPc(Now)])
<1> DEFINE s == Text[demo]
           may == Besides(demo)
           r == s[pc]
<1>1. demo \in DOMAIN Text /\ Now = r /\ pc \in 1 .. Len(s)
  <2>1. PICK S : s \in Seq(S)
    BY TextFit DEF Running, Fit
  <2>2. Len(s) \in Nat
    BY <2>1, LenProperties
  <2> QED BY <2>2 DEF Running, Now, Code, ControlInv
<1>2. Fit(s, may)
  BY <1>1, TextFit
<1>3. demo = "isr" => "elapse" \notin may
  BY DEF Besides
<1> HIDE DEF may, s
<1>4. /\ Plain(r) /\ Allowed(r, may)
      /\ \A j \in Targets(r, pc) :
           j \in 1 .. Len(s) + 1 /\ (j <= Len(s) => ~Leans(s[j]))
  BY <1>1, <1>2 DEF Fit
<1>5. pc + 1 \in Nat /\ (pc + 1 <= Len(s) => pc + 1 \in 1 .. Len(s) /\ (pc + 1) - 1 = pc)
  <2>1. PICK S : s \in Seq(S)
    BY <1>2 DEF Fit
  <2>2. Len(s) \in Nat
    BY <2>1, LenProperties
  <2> QED BY <1>1, <2>2
<1>6. pc + 1 <= Len(s) /\ Leans(s[pc + 1]) => Readies(r, s[pc + 1])
  BY <1>2, <1>5 DEF Fit
<1>7. r.step = "elapse" => demo # "isr"
  BY <1>3, <1>4 DEF Allowed
<1>8. CASE NextPc(r) = pc + 1
  BY <1>1, <1>4, <1>5, <1>6, <1>7, <1>8 DEF s, may
<1>9. CASE NextPc(r) # pc + 1
  <2>1. r.step # "mret"
    BY <1>4 DEF Plain
  <2>2. r.step \in {"jump", "unless"} /\ NextPc(r) = pc + r.by
    BY <1>9, <2>1 DEF NextPc
  <2>3. NextPc(r) \in Targets(r, pc)
    BY <2>2 DEF Targets
  <2>4. NextPc(r) \in Nat /\ (NextPc(r) <= Len(s) => ~Leans(s[NextPc(r)]))
    <3>1. NextPc(r) \in 1 .. Len(s) + 1
      BY <1>4, <2>3
    <3> QED BY <1>4, <2>3, <3>1
  <2> QED BY <1>1, <1>4, <1>7, <2>4 DEF s, may
<1> QED BY <1>8, <1>9

\* A step of the handler
LEMMA HandlerStep ==
  ASSUME ControlInv, Running, mepc # 0
  PROVE  /\ demo = "isr" /\ pc \in 1 .. 4
         /\ pc = 1 => /\ Now = uart_isr[1] /\ Now.at = "uart" /\ Access(Now) = NoAccess
                      /\ Now.step = "unless"
                      /\ NextPc(Now) = IF "idle" \in uart_status \cup uart_seen THEN 2 ELSE 4
         /\ pc = 2 => Now.step = "count" /\ Now.at = "none" /\ NextPc(Now) = 3
         /\ pc = 3 => /\ Now.step = "put" /\ Now.at = "uart" /\ NextPc(Now) = 4
                      /\ Access(Now) = [reg |-> "IRQ_STATUS", value |-> {"idle"}]
         /\ pc = 4 => Now.step = "mret" /\ Now.at = "none" /\ NextPc(Now) = mepc
<1>1. demo = "isr" /\ pc \in 1 .. 4 /\ Now = uart_isr[pc]
  BY Handler DEF ControlInv, Now, Code
<1>2. CASE pc = 1
  <2>1. Flags(Now) = uart_status \cup uart_seen
    BY <1>1, <1>2, Handler DEF Flags
  <2> QED BY <1>1, <1>2, <2>1, Handler DEF Access, NextPc
<1>3. CASE pc = 2
  BY <1>1, <1>3, Handler DEF NextPc
<1>4. CASE pc = 3
  BY <1>1, <1>4, Handler DEF NextPc, Access
<1>5. CASE pc = 4
  BY <1>1, <1>5, Handler DEF NextPc
<1> QED BY <1>1, <1>2, <1>3, <1>4, <1>5

\* Control stays in a text, whatever the step.
LEMMA ControlStep ==
  ASSUME ControlInv, [FirmwareNext]_firmwareVars
  PROVE  ControlInv'
<1>0. MainAt \in Nat \ {0}
  <2>1. "isr" \in DOMAIN Text
    BY DEF Text, Program
  <2> QED BY <2>1, AtMain
<1>1. ASSUME NEW fast, NEW rx, NEW in, Execute(fast, rx, in) PROVE ControlInv'
  <2>1. /\ Running /\ pc' = NextPc(Now) /\ demo' = demo
        /\ mepc' = IF Now.step = "mret" THEN 0 ELSE mepc
    BY <1>1 DEF Execute
  <2>2. CASE mepc = 0
    BY <2>1, <2>2, MainStep DEF ControlInv
  <2>3. CASE mepc # 0
    BY <2>1, <2>3, HandlerStep, Handler DEF ControlInv
  <2> QED BY <2>2, <2>3
<1>2. ASSUME NEW fast, NEW rx, NEW in, Interrupt(fast, rx, in) PROVE ControlInv'
  BY <1>0, <1>2, Handler DEF Interrupt, Strikes, ControlInv
<1>3. ASSUME NEW fast, NEW rx, NEW in, Boot(fast, rx, in) PROVE ControlInv'
  BY <1>0, <1>3 DEF Boot, ControlInv
<1>4. ASSUME NEW fast, NEW rx, NEW in, Compute(fast, rx, in) PROVE ControlInv'
  BY <1>4 DEF Compute, programVars, ControlInv
<1>5. ASSUME NEW fast, NEW rx, NEW in, Restart(fast, rx, in) PROVE ControlInv'
  BY <1>5 DEF Restart, Restartable, ControlInv
<1>6. ASSUME NEW fast, Echo(fast) PROVE ControlInv'
  BY <1>6 DEF Echo, programVars, ControlInv
<1>7. ASSUME UNCHANGED firmwareVars PROVE ControlInv'
  BY <1>7 DEF firmwareVars, programVars, ControlInv
<1> QED BY <1>1, <1>2, <1>3, <1>4, <1>5, <1>6, <1>7, FirmwareSteps

--------------------------------------------------------------------------------
(* Gaps of the line *)

LEMMA IdleFlag ==
  ASSUME NEW op, NEW rx, NEW tick, NEW over, UartEdge(op, rx, tick, over)
  PROVE  /\ "idle" \in uart_status' =>
              IdleGap(rx) \/ ("idle" \in uart_status /\ ~Clears(op, "idle"))
         /\ "idle" \in uart_status /\ ~Clears(op, "idle") => "idle" \in uart_status'
  BY DEF UartEdge, UartStatus

\* What an edge does to what the handler and its history see.
LEMMA EdgeGaps ==
  ASSUME demo = "isr", gaps \in Nat,
         NEW at, NEW step, NEW op, NEW fast, NEW rx, NEW in, Edge(at, step, op, fast, rx, in)
  PROVE  LET clears == at = "uart" /\ Clears(op, "idle") IN
         /\ gaps' \in Nat /\ gaps' >= gaps
         /\ "idle" \in uart_status' => gaps' = gaps + 1 \/ ("idle" \in uart_status /\ ~clears)
         /\ "idle" \in uart_status /\ ~clears => "idle" \in uart_status'
<1> DEFINE uartOp == IF at = "uart" THEN op ELSE NoAccess
<1>1. "uart" \in Uses[demo]
  BY DEF Uses
<1>2. PICK tick, over : UartEdge(uartOp, rx, tick, over)
  BY <1>1 DEF Edge
<1>3. gaps' = IF IdleGap(rx) THEN gaps + 1 ELSE gaps
  BY DEF Edge, Histories
<1>4. Clears(uartOp, "idle") => at = "uart" /\ Clears(op, "idle")
  BY DEF Clears, NoAccess
<1>5. at = "uart" => uartOp = op
  OBVIOUS
<1> HIDE DEF uartOp
<1> QED BY <1>2, <1>3, <1>4, <1>5, IdleFlag

LEMMA GapInvInit == FirmwareInit => GapInv
<1> SUFFICES ASSUME FirmwareInit PROVE GapInv
  OBVIOUS
<1> QED BY DEF FirmwareInit, UartInit, GapInv, ControlInv

\* What holds of the handler's variables after an edge at which main() runs or nothing does
LEMMA GapKept ==
  ASSUME GapInv, demo' = demo,
         NEW at, NEW step, NEW op, NEW fast, NEW rx, NEW in, Edge(at, step, op, fast, rx, in),
         ControlInv',
         mepc = 0 \/ (at = "none" /\ mepc' = mepc /\ pc' = pc),
         mepc' = mepc \/ (mepc' # 0 /\ pc' = 1),
         idle_count' \in {0, idle_count}
  PROVE  GapInv'
<1>1. uart_seen' \subseteq {"header", "tx_space"}
  BY DEF Edge, UartCopies
<1>2. gaps' \in Nat
  BY DEF Edge, Histories, GapInv
<1>3. CASE demo = "isr"
  BY <1>1, <1>3, EdgeGaps DEF GapInv
<1>4. CASE demo # "isr"
  BY <1>1, <1>2, <1>4 DEF GapInv, ControlInv
<1> QED BY <1>3, <1>4

LEMMA GapInvStep ==
  ASSUME GapInv, [FirmwareNext]_firmwareVars
  PROVE  GapInv'
<1>0. ControlInv /\ ControlInv'
  BY ControlStep DEF GapInv
<1>1. ASSUME NEW fast, NEW rx, NEW in, Execute(fast, rx, in) PROVE GapInv'
  <2>1. /\ Running /\ Edge(Now.at, Now.step, Access(Now), fast, rx, in)
        /\ pc' = NextPc(Now) /\ demo' = demo
        /\ mepc' = IF Now.step = "mret" THEN 0 ELSE mepc
        /\ idle_count' = IF Now.step = "count" THEN idle_count + 1 ELSE idle_count
    BY <1>1 DEF Execute
  <2>2. CASE mepc = 0
    <3>1. Now.step \notin {"count", "mret"}
      BY <1>0, <2>1, <2>2, MainStep DEF Plain
    <3>2. mepc' = mepc /\ idle_count' = idle_count
      BY <2>1, <2>2, <3>1
    <3> QED BY <1>0, <2>1, <2>2, <3>2, GapKept
  <2>3. CASE mepc # 0
    <3>1. demo = "isr" /\ pc \in 1 .. 4
      BY <1>0, <2>1, <2>3, HandlerStep
    <3>2. uart_seen' \subseteq {"header", "tx_space"}
      BY <2>1 DEF Edge, UartCopies
    <3> DEFINE clears == Now.at = "uart" /\ Clears(Access(Now), "idle")
    <3>3. /\ gaps' \in Nat /\ gaps' >= gaps
          /\ "idle" \in uart_status' => gaps' = gaps + 1 \/ ("idle" \in uart_status /\ ~clears)
          /\ "idle" \in uart_status /\ ~clears => "idle" \in uart_status'
      BY <2>1, <3>1, EdgeGaps DEF GapInv
    <3>4. CASE pc = 1
      <4>1. ~clears /\ Now.step = "unless"
        BY <1>0, <2>1, <2>3, <3>4, HandlerStep DEF Clears, NoAccess
      <4>2. pc' = IF "idle" \in uart_status THEN 2 ELSE 4
        BY <1>0, <2>1, <2>3, <3>4, HandlerStep DEF GapInv
      <4> QED BY <1>0, <2>1, <2>3, <3>1, <3>2, <3>3, <3>4, <4>1, <4>2 DEF GapInv
    <3>5. CASE pc = 2
      <4>1. ~clears /\ Now.step = "count" /\ pc' = 3
        BY <1>0, <2>1, <2>3, <3>5, HandlerStep
      <4> QED BY <1>0, <2>1, <2>3, <3>1, <3>2, <3>3, <3>5, <4>1 DEF GapInv
    <3>6. CASE pc = 3
      <4>1. clears /\ Now.step = "put" /\ pc' = 4
        BY <1>0, <2>1, <2>3, <3>6, HandlerStep DEF Clears
      <4> QED BY <1>0, <2>1, <2>3, <3>1, <3>2, <3>3, <3>6, <4>1 DEF GapInv
    <3>7. CASE pc = 4
      <4>1. ~clears /\ Now.step = "mret" /\ pc' = mepc
        BY <1>0, <2>1, <2>3, <3>7, HandlerStep
      <4> QED BY <1>0, <2>1, <2>3, <3>1, <3>2, <3>3, <3>7, <4>1 DEF GapInv
    <3> QED BY <3>1, <3>4, <3>5, <3>6, <3>7
  <2> QED BY <2>2, <2>3
<1>2. ASSUME NEW fast, NEW rx, NEW in, Interrupt(fast, rx, in) PROVE GapInv'
  <2>1. MainAt \in Nat \ {0}
    <3>1. "isr" \in DOMAIN Text
      BY DEF Text, Program
    <3> QED BY <3>1, AtMain
  <2>2. /\ Edge("none", "none", NoAccess, fast, rx, in) /\ demo' = demo
        /\ mepc = 0 /\ pc' = 1 /\ mepc' # 0 /\ idle_count' = idle_count
    BY <1>0, <1>2, <2>1 DEF Interrupt, Strikes, ControlInv
  <2> QED BY <1>0, <2>2, GapKept
<1>3. ASSUME NEW fast, NEW rx, NEW in, Boot(fast, rx, in) PROVE GapInv'
  <2>1. /\ Edge("none", "none", NoAccess, fast, rx, in) /\ demo' = demo
        /\ pc = 0 /\ mepc' = 0 /\ idle_count' = 0
    BY <1>3 DEF Boot
  <2>2. mepc = 0
    BY <1>0, <2>1 DEF ControlInv
  <2> QED BY <1>0, <2>1, <2>2, GapKept
<1>4. ASSUME NEW fast, NEW rx, NEW in, Compute(fast, rx, in) PROVE GapInv'
  <2>1. /\ Edge("none", "none", NoAccess, fast, rx, in) /\ demo' = demo
        /\ pc' = pc /\ mepc' = mepc /\ idle_count' = idle_count
    BY <1>4 DEF Compute, programVars
  <2> QED BY <1>0, <2>1, GapKept
<1>5. ASSUME NEW fast, NEW rx, NEW in, Restart(fast, rx, in) PROVE GapInv'
  <2>1. /\ Edge("none", "none", NoAccess, fast, rx, in) /\ demo' = demo /\ demo # "isr"
        /\ mepc' = mepc /\ idle_count' = idle_count
    BY <1>5 DEF Restart, Restartable
  <2>2. mepc = 0
    BY <1>0, <2>1 DEF ControlInv
  <2> QED BY <1>0, <2>1, <2>2, GapKept
<1>6. ASSUME NEW fast, Echo(fast) PROVE GapInv'
  BY <1>0, <1>6 DEF Echo, GapInv, programVars, historyVars, uartVars
<1>7. ASSUME UNCHANGED firmwareVars PROVE GapInv'
  BY <1>0, <1>7 DEF firmwareVars, GapInv, programVars, historyVars, uartVars
<1> QED BY <1>1, <1>2, <1>3, <1>4, <1>5, <1>6, <1>7, FirmwareSteps

\* devkit/examples/c/uart_rs485_isr.c: however STATUS, the interrupt and the line move
\* between the handler's read, its count and its acknowledge, no gap is counted twice.
THEOREM GapsCountedOnce == FirmwareSpec => []GapCountedOnce
<1>1. GapInv => GapCountedOnce
  BY DEF GapInv, GapCountedOnce
<1>2. FirmwareInit => GapInv
  BY GapInvInit
<1>3. GapInv /\ [FirmwareNext]_firmwareVars => GapInv'
  BY GapInvStep
<1> QED BY <1>1, <1>2, <1>3, PTL DEF FirmwareSpec

--------------------------------------------------------------------------------
(* Delays *)

\* The remainder, when the quotient is known
LEMMA Remainder ==
  ASSUME NEW n \in Nat \ {0}, NEW m \in Int, NEW k \in Int, m - n * k \in 0 .. n - 1
  PROVE  m % n = m - n * k
<1> DEFINE q == m \div n
           r == m % n
<1>1. m = n * q + r /\ r \in 0 .. n - 1 /\ q \in Int
  OBVIOUS
<1> HIDE DEF q, r
<1>2. n * q - n * k = n * (q - k) /\ q - k \in Int
  BY <1>1
<1>3. n * (q - k) < n /\ n * (q - k) > -n
  BY <1>1, <1>2
<1>4. q - k >= 1 => n * (q - k) >= n
  BY <1>2
<1>5. q - k <= -1 => n * (q - k) <= -n
  BY <1>2
<1>6. q = k
  BY <1>1, <1>2, <1>3, <1>4, <1>5
<1> QED BY <1>1, <1>6 DEF r

LEMMA SmallRemainder == \A n \in Nat \ {0} : \A m \in 0 .. n - 1 : m % n = m
<1> SUFFICES ASSUME NEW n \in Nat \ {0}, NEW m \in 0 .. n - 1 PROVE m % n = m
  OBVIOUS
<1>1. m \in Int /\ m - n * 0 \in 0 .. n - 1 /\ m - n * 0 = m
  OBVIOUS
<1>2. m % n = m - n * 0
  BY <1>1, Remainder
<1> QED BY <1>1, <1>2

\* A difference of two values of the timer, and a step of the counter, in its width
LEMMA Turn ==
  ASSUME NEW a \in Value, NEW b \in Value
  PROVE  /\ (a - b) % Span = IF a >= b THEN a - b ELSE a - b + Span
         /\ Next1(a) = IF a + 1 = Span THEN 0 ELSE a + 1
<1> DEFINE n == Span
<1>1. n \in Nat \ {0, 1} /\ a \in 0 .. n - 1 /\ b \in 0 .. n - 1
  BY TimerAssumption DEF Value
<1>2. ASSUME NEW m \in Int, NEW k \in {-1, 0, 1}, m - n * k \in 0 .. n - 1
      PROVE  m % n = m - n * k
  BY <1>1, <1>2, Remainder
<1> HIDE DEF n
<1>3. ASSUME a >= b PROVE (a - b) % n = a - b
  <2>1. a - b \in Int /\ (a - b) - n * 0 \in 0 .. n - 1
    BY <1>1, <1>3
  <2>2. (a - b) % n = (a - b) - n * 0
    BY <1>2, <2>1
  <2> QED BY <1>1, <2>2
<1>4. ASSUME a < b PROVE (a - b) % n = a - b + n
  <2>1. a - b \in Int /\ (a - b) - n * (-1) \in 0 .. n - 1
    BY <1>1, <1>4
  <2>2. (a - b) % n = (a - b) - n * (-1)
    BY <1>2, <2>1
  <2> QED BY <1>1, <2>2
<1>5. Next1(a) = IF a + 1 = n THEN 0 ELSE a + 1
  <2>1. CASE a + 1 = n
    <3>1. (a + 1) - n * 1 \in 0 .. n - 1 /\ a + 1 \in Int
      BY <1>1, <2>1
    <3>2. (a + 1) % n = (a + 1) - n * 1
      BY <1>2, <3>1
    <3> QED BY <1>1, <2>1, <3>2 DEF Next1, n
  <2>2. CASE a + 1 # n
    <3>1. (a + 1) - n * 0 \in 0 .. n - 1 /\ a + 1 \in Int
      BY <1>1, <2>2
    <3>2. (a + 1) % n = (a + 1) - n * 0
      BY <1>2, <3>1
    <3> QED BY <1>1, <2>2, <3>2 DEF Next1, n
  <2> QED BY <2>1, <2>2
<1>6. (a - b) % n = IF a >= b THEN a - b ELSE a - b + n
  BY <1>1, <1>3, <1>4
<1> QED BY <1>5, <1>6 DEF n

\* A tick brings the counter at most one further from where the delay began.
LEMMA OneTick ==
  ASSUME NEW a \in Value, NEW b \in Value
  PROVE  /\ (a - b) % Span \in 0 .. Span - 1
         /\ Next1(a) \in Value
         /\ (Next1(a) - b) % Span <= ((a - b) % Span) + 1
<1>1. Span \in Nat \ {0, 1} /\ a \in 0 .. Span - 1 /\ b \in 0 .. Span - 1
  BY TimerAssumption DEF Value
<1>2. Next1(a) \in Value /\ Next1(a) = IF a + 1 = Span THEN 0 ELSE a + 1
  <2>1. Next1(a) = IF a + 1 = Span THEN 0 ELSE a + 1
    BY Turn
  <2>2. (IF a + 1 = Span THEN 0 ELSE a + 1) \in 0 .. Span - 1
    BY <1>1
  <2> QED BY <2>1, <2>2 DEF Value
<1>3. (a - b) % Span = IF a >= b THEN a - b ELSE a - b + Span
  BY Turn
<1>4. (Next1(a) - b) % Span = IF Next1(a) >= b THEN Next1(a) - b ELSE Next1(a) - b + Span
  BY <1>2, Turn
<1> QED BY <1>1, <1>2, <1>3, <1>4

\* What an edge that does not write the counter does to it and to the ticks that have passed
LEMMA EdgeTicks ==
  ASSUME counter \in Value, passed \in Nat, NEW at, NEW step, NEW op, op.reg # "COUNTER",
         NEW fast, NEW rx, NEW in, Edge(at, step, op, fast, rx, in)
  PROVE  /\ counter' \in {counter, IF Tick THEN Next1(counter) ELSE counter}
         /\ counter' \in Value
         /\ passed' = IF step = "elapse" \/ (step # "mark" /\ ~InDelay) THEN 0
                      ELSE IF Tick /\ passed < Span THEN passed + 1
                      ELSE passed
         /\ passed' \in Nat
<1> DEFINE w == IF at = "timer" THEN op ELSE NoAccess
<1>1. TimerEdge(w) \/ UNCHANGED timerVars
  BY DEF Edge
<1>2. w.reg # "COUNTER"
  BY DEF NoAccess
<1> HIDE DEF w
<1>3. counter' \in {counter, IF Tick THEN Next1(counter) ELSE counter}
  BY <1>1, <1>2 DEF TimerEdge, Counting, Set, timerVars
<1>4. counter' \in Value
  BY <1>3, OneTick
<1>5. passed' = IF step = "elapse" \/ (step # "mark" /\ ~InDelay) THEN 0
                ELSE IF Tick /\ passed < Span THEN passed + 1
                ELSE passed
  BY DEF Edge, Histories
<1> QED BY <1>3, <1>4, <1>5

LEMMA CounterSpared ==
  ASSUME ControlInv, Running
  PROVE  Access(Now).reg # "COUNTER"
<1>1. CASE mepc = 0
  <2>1. Plain(Now)
    BY <1>1, MainStep
  <2> QED BY <2>1 DEF Plain, Access, NoAccess
<1>2. CASE mepc # 0
  <2>1. pc \in 1 .. 4
    BY <1>2, HandlerStep
  <2>2. CASE pc \in {2, 4}
    BY <1>2, <2>2, HandlerStep DEF Access, NoAccess
  <2>3. CASE pc \in {1, 3}
    BY <1>2, <2>3, HandlerStep DEF NoAccess
  <2> QED BY <2>1, <2>2, <2>3
<1> QED BY <1>1, <1>2

\* Whether control is in a delay is read off pc, mepc and demo.
AtDelay(d, m, p) ==
  /\ d \in DOMAIN Text /\ m = 0 /\ p # 0
  /\ p <= Len(Text[d]) /\ Text[d][p].step = "elapse"

LEMMA DelayHere ==
  /\ ControlInv => (InDelay <=> AtDelay(demo, mepc, pc))
  /\ ControlInv' => (InDelay' => AtDelay(demo', mepc', pc'))
<1>1. \A i \in 1 .. 4 : uart_isr[i].step # "elapse"
  BY Handler
<1>2. ASSUME ControlInv PROVE InDelay <=> AtDelay(demo, mepc, pc)
  <2>1. CASE mepc = 0
    BY <2>1 DEF InDelay, Running, Now, Code, AtDelay
  <2>2. CASE mepc # 0
    BY <1>1, <1>2, <2>2, Handler DEF ControlInv, InDelay, Now, Code, AtDelay
  <2> QED BY <2>1, <2>2
<1>3. ASSUME ControlInv', InDelay' PROVE AtDelay(demo', mepc', pc')
  <2>1. CASE mepc' = 0
    BY <1>3, <2>1 DEF InDelay, Running, Now, Code, AtDelay
  <2>2. CASE mepc' # 0
    BY <1>1, <1>3, <2>2, Handler DEF ControlInv, InDelay, Now, Code
  <2> QED BY <2>1, <2>2
<1> QED BY <1>2, <1>3

LEMMA NoFirstDelay ==
  ASSUME NEW d \in DOMAIN Text
  PROVE  ~AtDelay(d, 0, 1) /\ ~AtDelay(d, 0, MainAt) /\ ~AtDelay("isr", 0, MainAt)
         /\ \A p \in Nat : ~AtDelay("isr", 0, p)
<1>1. "isr" \in DOMAIN Text
  BY DEF Text, Program
<1>2. ASSUME NEW p \in Nat PROVE ~AtDelay("isr", 0, p)
  <2>1. Besides("isr") = {}
    BY DEF Besides
  <2>2. Fit(Text["isr"], Besides("isr"))
    BY <1>1, TextFit
  <2>3. /\ Len(qar_sdk_init) \in Nat /\ Len(Program["isr"]) \in Nat
        /\ Len(Text["isr"]) = Len(qar_sdk_init) + Len(Program["isr"])
    BY <1>1, TextParts
  <2> QED BY <2>1, <2>2, <2>3 DEF Fit, Allowed, AtDelay
<1>3. ~AtDelay(d, 0, 1)
  <2>1. Fit(Text[d], Besides(d)) /\ Len(Text[d]) \in Nat
    BY TextFit, TextParts
  <2> QED BY <2>1 DEF Fit, Leans, AtDelay
<1>4. ~AtDelay(d, 0, MainAt) /\ MainAt \in Nat
  BY AtMain DEF Leans, AtDelay
<1> QED BY <1>2, <1>3, <1>4

LEMMA DelayInvInit == FirmwareInit => DelayInv
<1> SUFFICES ASSUME FirmwareInit PROVE DelayInv
  OBVIOUS
<1>1. counter = 0 /\ start = 0 /\ passed = 0 /\ pc = 0 /\ mepc = 0
  BY DEF FirmwareInit, TimerInit
<1>2. 0 \in Value
  BY TimerAssumption DEF Value
<1>3. ~InDelay
  BY <1>1 DEF InDelay, Running
<1> QED BY <1>1, <1>2, <1>3 DEF DelayInv, ControlInv

\* What an edge does to the delay when control was in it before and stays, or was not and
\* is not after it
LEMMA DelayKept ==
  ASSUME DelayInv, ControlInv',
         NEW at, NEW step, NEW op, op.reg # "COUNTER", step \notin {"mark", "elapse"},
         NEW fast, NEW rx, NEW in, Edge(at, step, op, fast, rx, in),
         start' \in {start, 0}, InDelay' => InDelay /\ start' = start
  PROVE  DelayInv'
<1>1. counter \in Value /\ start \in Value /\ passed \in Nat
  BY DEF DelayInv
<1>2. /\ counter' \in {counter, IF Tick THEN Next1(counter) ELSE counter}
      /\ counter' \in Value /\ passed' \in Nat
      /\ InDelay => passed' = IF Tick /\ passed < Span THEN passed + 1 ELSE passed
  BY <1>1, EdgeTicks
<1>3. start' \in Value
  BY <1>1, TimerAssumption DEF Value
<1>4. ASSUME InDelay' PROVE (counter' - start') % Span <= passed'
  <2>1. (counter - start) % Span <= passed
    BY <1>4 DEF DelayInv
  <2>2. /\ (counter - start) % Span \in 0 .. Span - 1
        /\ (counter' - start) % Span \in 0 .. Span - 1
        /\ (Next1(counter) - start) % Span <= ((counter - start) % Span) + 1
    BY <1>1, <1>2, OneTick
  <2>3. Span \in Nat /\ Span > 1
    BY TimerAssumption
  <2>4. (counter' - start) % Span <= passed'
    <3> DEFINE old == (counter - start) % Span
               new == (counter' - start) % Span
    <3>1. new <= old + 1 /\ (~Tick => new = old)
      BY <1>2, <2>2
    <3>2. passed' = IF Tick /\ passed < Span THEN passed + 1 ELSE passed
      BY <1>2, <1>4
    <3>3. old \in 0 .. Span - 1 /\ new \in 0 .. Span - 1 /\ old <= passed
      BY <2>1, <2>2
    <3> HIDE DEF old, new
    <3>4. ASSUME Tick PROVE new <= passed'
      BY <1>1, <2>3, <3>1, <3>2, <3>3, <3>4
    <3>5. ASSUME ~Tick PROVE new <= passed'
      BY <1>1, <2>3, <3>1, <3>2, <3>3, <3>5
    <3>6. new <= passed'
      BY <3>4, <3>5
    <3> QED BY <3>6 DEF new
  <2> QED BY <1>4, <2>4
<1> QED BY <1>2, <1>3, <1>4 DEF DelayInv

LEMMA DelayInvStep ==
  ASSUME DelayInv, [FirmwareNext]_firmwareVars
  PROVE  DelayInv'
<1>0. ControlInv /\ ControlInv' /\ counter \in Value /\ start \in Value /\ passed \in Nat
  BY ControlStep DEF DelayInv
<1>1. ASSUME NEW fast, NEW rx, NEW in, Execute(fast, rx, in) PROVE DelayInv'
  <2> DEFINE op == Access(Now)
  <2>1. /\ Running /\ Edge(Now.at, Now.step, op, fast, rx, in)
        /\ pc' = NextPc(Now) /\ demo' = demo /\ demo \in DOMAIN Text
        /\ mepc' = IF Now.step = "mret" THEN 0 ELSE mepc
        /\ start' = CASE Now.step = "mark" -> counter
                      [] Now.step = "elapse" -> 0
                      [] OTHER -> start
    BY <1>1 DEF Execute, Running
  <2>2. op.reg # "COUNTER"
    BY <1>0, <2>1, CounterSpared
  <2> HIDE DEF op
  <2>3. CASE Now.step = "mark"
    <3>1. /\ counter' \in {counter, IF Tick THEN Next1(counter) ELSE counter}
          /\ counter' \in Value /\ passed' \in Nat
          /\ passed' = IF Tick /\ passed < Span THEN passed + 1 ELSE passed
      BY <1>0, <2>1, <2>2, <2>3, EdgeTicks
    <3>2. start' = counter
      BY <2>1, <2>3
    <3>3. /\ (counter - counter) % Span = 0
          /\ (Next1(counter) - counter) % Span <= 1
      <4>1. (counter - counter) % Span = 0
        BY <1>0, Turn, TimerAssumption DEF Value
      <4>2. /\ (Next1(counter) - counter) % Span <= ((counter - counter) % Span) + 1
            /\ (Next1(counter) - counter) % Span \in 0 .. Span - 1
        BY <1>0, OneTick
      <4> QED BY <4>1, <4>2
    <3>4. Span \in Nat /\ Span > 1
      BY TimerAssumption
    <3>5. (counter' - start') % Span <= passed'
      <4>1. CASE counter' = counter
        BY <3>1, <3>2, <3>3, <4>1
      <4>2. CASE counter' # counter
        <5>1. counter' = Next1(counter) /\ passed' >= 1
          BY <1>0, <3>1, <3>4, <4>2
        <5>2. (counter' - start') % Span <= 1
          BY <3>2, <3>3, <5>1
        <5>3. (counter' - start') % Span \in Int
          BY <1>0, <3>1, <3>2, OneTick
        <5> QED BY <3>1, <5>1, <5>2, <5>3
      <4> QED BY <4>1, <4>2
    <3> QED BY <1>0, <3>1, <3>2, <3>5 DEF DelayInv
  <2>4. CASE Now.step # "mark"
    <3>1. ~InDelay'
      <4>1. SUFFICES ASSUME AtDelay(demo', mepc', pc') PROVE FALSE
        BY <1>0, DelayHere
      <4>2. CASE mepc = 0
        <5>1. pc' <= Len(Text[demo]) /\ Text[demo][pc'].step = "elapse"
          BY <2>1, <4>1 DEF AtDelay
        <5> QED BY <1>0, <2>1, <2>4, <4>2, <5>1, MainStep DEF Leans, Readies
      <4>3. CASE mepc # 0
        <5>1. demo = "isr"
          BY <1>0, <2>1, <4>3, HandlerStep
        <5>2. mepc' = 0 /\ pc' \in Nat
          BY <1>0, <4>1 DEF AtDelay, ControlInv
        <5> QED BY <2>1, <4>1, <5>1, <5>2, NoFirstDelay
      <4> QED BY <4>2, <4>3
    <3>2. counter' \in Value /\ passed' \in Nat
      BY <1>0, <2>1, <2>2, EdgeTicks
    <3>3. start' \in Value
      BY <1>0, <2>1, <2>4, TimerAssumption DEF Value
    <3> QED BY <1>0, <3>1, <3>2, <3>3 DEF DelayInv
  <2> QED BY <2>3, <2>4
<1>2. ASSUME NEW fast, NEW rx, NEW in,
             Edge("none", "none", NoAccess, fast, rx, in),
             start' \in {start, 0}, InDelay' => InDelay /\ start' = start
      PROVE  DelayInv'
  BY <1>0, <1>2, DelayKept DEF NoAccess
<1>3. ASSUME NEW fast, NEW rx, NEW in, Interrupt(fast, rx, in) PROVE DelayInv'
  <2>1. /\ Edge("none", "none", NoAccess, fast, rx, in)
        /\ start' = start /\ mepc' = pc /\ pc >= MainAt
    BY <1>3 DEF Interrupt, Strikes
  <2>2. MainAt \in Nat \ {0}
    <3>1. "isr" \in DOMAIN Text
      BY DEF Text, Program
    <3> QED BY <3>1, AtMain
  <2>3. mepc' # 0
    BY <1>0, <2>1, <2>2 DEF ControlInv
  <2>4. ~InDelay'
    BY <1>0, <2>3, DelayHere DEF AtDelay
  <2> QED BY <1>2, <2>1, <2>4
<1>4. ASSUME NEW fast, NEW rx, NEW in, Boot(fast, rx, in) PROVE DelayInv'
  <2>1. /\ Edge("none", "none", NoAccess, fast, rx, in) /\ start' = 0
        /\ mepc' = 0 /\ pc' \in {1, MainAt} /\ demo' = demo /\ demo \in DOMAIN Text
    BY <1>4 DEF Boot
  <2>2. ~InDelay'
    BY <1>0, <2>1, DelayHere, NoFirstDelay
  <2> QED BY <1>2, <2>1, <2>2
<1>5. ASSUME NEW fast, NEW rx, NEW in, Compute(fast, rx, in) PROVE DelayInv'
  <2>1. /\ Edge("none", "none", NoAccess, fast, rx, in)
        /\ start' = start /\ mepc' = mepc /\ pc' = pc /\ demo' = demo
    BY <1>5 DEF Compute, programVars
  <2>2. InDelay' => InDelay
    BY <1>0, <2>1, DelayHere
  <2> QED BY <1>2, <2>1, <2>2
<1>6. ASSUME NEW fast, NEW rx, NEW in, Restart(fast, rx, in) PROVE DelayInv'
  <2>1. Edge("none", "none", NoAccess, fast, rx, in) /\ start' = start /\ pc' = 0
    BY <1>6 DEF Restart
  <2>2. ~InDelay'
    BY <2>1 DEF InDelay, Running
  <2> QED BY <1>2, <2>1, <2>2
<1>7. ASSUME UNCHANGED <<programVars, demo, historyVars, timerVars>> PROVE DelayInv'
  <2>1. /\ start' = start /\ mepc' = mepc /\ pc' = pc /\ demo' = demo
        /\ counter' = counter /\ passed' = passed
    BY <1>7 DEF programVars, historyVars, timerVars
  <2>2. InDelay' => InDelay
    BY <1>0, <2>1, DelayHere
  <2> QED BY <1>0, <2>1, <2>2 DEF DelayInv
<1>8. ASSUME NEW fast, Echo(fast) PROVE DelayInv'
  BY <1>7, <1>8 DEF Echo
<1>9. ASSUME UNCHANGED firmwareVars PROVE DelayInv'
  BY <1>7, <1>9 DEF firmwareVars
<1> QED BY <1>1, <1>3, <1>4, <1>5, <1>6, <1>8, <1>9, FirmwareSteps

LEMMA DelayLeft ==
  ASSUME DelayInv, [FirmwareNext]_firmwareVars, InDelay, pc' = pc + 1
  PROVE  passed >= Now.ticks
<1>0. ControlInv /\ counter \in Value /\ start \in Value /\ passed \in Nat
  BY DEF DelayInv
<1>1. AtDelay(demo, mepc, pc) /\ pc \in Nat \ {0}
  BY <1>0, DelayHere DEF AtDelay, ControlInv
<1>2. Running /\ Now.step = "elapse" /\ mepc = 0
  BY <1>1 DEF InDelay, AtDelay
<1>3. demo # "isr"
  BY <1>0, <1>2, MainStep
<1>4. ASSUME NEW fast, NEW rx, NEW in, Execute(fast, rx, in) PROVE passed >= Now.ticks
  <2>1. Elapsed(Now.ticks)
    BY <1>2, <1>4 DEF Execute, GoesOn
  <2>2. Now.ticks \in Nat
    BY <1>0, <1>2, MainStep DEF Plain
  <2>3. (counter - start) % Span <= passed /\ (counter - start) % Span \in 0 .. Span - 1
    BY <1>0, OneTick DEF DelayInv
  <2> QED BY <1>0, <2>1, <2>2, <2>3, TimerAssumption DEF Elapsed
<1>5. \A fast, rx, in : ~Interrupt(fast, rx, in)
  BY <1>3 DEF Interrupt, Strikes
<1>6. \A fast, rx, in : ~Boot(fast, rx, in)
  BY <1>1 DEF Boot
<1>7. \A fast, rx, in : ~Compute(fast, rx, in)
  BY <1>1 DEF Compute, programVars
<1>8. \A fast, rx, in : ~Restart(fast, rx, in)
  BY <1>1 DEF Restart
<1>9. \A fast : ~Echo(fast)
  BY <1>1 DEF Echo, programVars
<1>10. ~UNCHANGED firmwareVars
  BY <1>1 DEF firmwareVars, programVars
<1> QED BY <1>4, <1>5, <1>6, <1>7, <1>8, <1>9, <1>10, FirmwareSteps

\* devkit/examples/c/gpio_irq_demo.c, firmware_delay: its comparison of a difference in the
\* counter's width returns only after as many ticks as it was asked for, from any start, for
\* any width and any delay, wherever the counter wraps.
THEOREM DelayIsNotShort == FirmwareSpec => DelayNotShort
<1>1. FirmwareInit => DelayInv
  BY DelayInvInit
<1>2. DelayInv /\ [FirmwareNext]_firmwareVars => DelayInv'
  BY DelayInvStep
<1>3. DelayInv /\ [FirmwareNext]_firmwareVars
        => [InDelay /\ pc' = pc + 1 => passed >= Now.ticks]_firmwareVars
  BY DelayLeft
<1> QED BY <1>1, <1>2, <1>3, PTL DEF FirmwareSpec, DelayNotShort

--------------------------------------------------------------------------------
(* The steps of qar_sdk_init *)

\* A write that shuts or clears what it writes
Tame(at, op) ==
  /\ op.reg = "IRQ_EN" => op.value = {}
  /\ at = "gpio" =>
       /\ op.reg \notin {"OUT_SET", "OUT_CLR"}
       /\ op.reg \in {"DIR", "OUT", "ALT_PWM", "IRQ_RISE", "IRQ_FALL", "DB_EN"} => op.value = {}
       /\ op.reg = "IRQ_STATUS" => op.value = AllPins
  /\ at = "timer" =>
       /\ op.reg \in {"CTRL", "WDT_CTRL"} => ~op.value.enable
       /\ op.reg = "STATUS" =>
            op.value = [wdt |-> TRUE, cmp |-> TimerChannels, cap |-> TimerChannels]
       /\ op.reg \in {"CMP", "PWM_PERIOD"} => op.ch \in TimerChannels /\ op.value = 0
       /\ op.reg = "CAPTURE_CTRL" => op.value = {}
  /\ at = "uart" =>
       /\ op.reg = "CTRL" => ~op.value.enable
       /\ op.reg = "IDLE_CFG" => ~op.value
       /\ op.reg = "IRQ_STATUS" => op.value = UartIrqAll
       /\ op.reg = "LIN_CMD" => op.value = {"clear"}
  /\ at = "can" =>
       /\ op.reg = "CTRL" => op.value = {}
       /\ op.reg = "IRQ_STATUS" => op.value = CanIrqAll
       /\ op.reg = "RX_FIFO" => op.value = {"flush"}
       /\ op.reg # "TX_CMD"
  /\ at \in {"spi", "i2c", "adc"} /\ op.reg = "CTRL" => ~op.value.enable
  /\ at = "adc" /\ op.reg = "CTRL" => ~op.value.start
  /\ at = "i2c" => op.reg \notin {"CMD", "TXDATA"}
  /\ at = "spi" => op.reg \notin {"TXDATA", "RXDATA"}

\* A step that makes such a write, of unit at
Hushes(s, at) ==
  /\ s.at = at /\ s.step \in {"put", "load", "store"}
  /\ s.step = "put" => Tame(at, s.op)
  /\ s.step = "store" =>
       /\ s.reg = "IRQ_EN" /\ s.set = {}
       /\ \/ at = "uart" /\ s.clear = UartIrqAll
          \/ at = "can" /\ s.clear = CanIrqAll

\* Before a flag is cleared its source has been shut.
Earlier(s, i, at, reg) == \E j \in 1 .. i - 1 : Wrote(s[j], at, reg)
InTurn(s, i) ==
  /\ Wrote(s[i], "gpio", "IRQ_STATUS") =>
       Earlier(s, i, "gpio", "IRQ_RISE") /\ Earlier(s, i, "gpio", "IRQ_FALL")
  /\ Wrote(s[i], "timer", "STATUS") \/ Wrote(s[i], "timer", "CMP") => Earlier(s, i, "timer", "CTRL")
  /\ Wrote(s[i], "uart", "IRQ_STATUS") \/ Wrote(s[i], "uart", "LIN_CMD") =>
       Earlier(s, i, "uart", "CTRL")

\* A text of such steps of one unit, and one of any unit in such an order
Hush(s, at) == (\E S : s \in Seq(S)) /\ \A i \in 1 .. Len(s) : Hushes(s[i], at)
Ordered(s) ==
  /\ \E S : s \in Seq(S)
  /\ \A i \in 1 .. Len(s) : (\E at : Hushes(s[i], at)) /\ InTurn(s, i)

\* The elements of a concatenation
LEMMA Concat ==
  ASSUME NEW s, NEW t, \E S : s \in Seq(S), \E S : t \in Seq(S)
  PROVE  /\ \E S : s \o t \in Seq(S)
         /\ Len(s) \in Nat /\ Len(t) \in Nat /\ Len(s \o t) = Len(s) + Len(t)
         /\ \A i \in 1 .. Len(s) + Len(t) :
              (s \o t)[i] = IF i <= Len(s) THEN s[i] ELSE t[i - Len(s)]
<1>1. PICK S : s \in Seq(S)
  OBVIOUS
<1>2. PICK T : t \in Seq(T)
  OBVIOUS
<1>3. s \in Seq(S \cup T) /\ t \in Seq(S \cup T)
  BY <1>1, <1>2
<1>4. s \o t \in Seq(S \cup T)
  BY <1>3, ConcatProperties
<1> QED BY <1>3, <1>4, ConcatProperties, LenProperties

LEMMA ConcatHush == \A s, t, at : Hush(s, at) /\ Hush(t, at) => Hush(s \o t, at)
<1> SUFFICES ASSUME NEW s, NEW t, NEW at, Hush(s, at), Hush(t, at) PROVE Hush(s \o t, at)
  OBVIOUS
<1> DEFINE u == s \o t
           m == Len(s)
           n == Len(t)
<1>1. /\ \E S : u \in Seq(S)
      /\ m \in Nat /\ n \in Nat /\ Len(u) = m + n
      /\ \A i \in 1 .. m + n : u[i] = IF i <= m THEN s[i] ELSE t[i - m]
  BY Concat DEF Hush
<1>2. (\A i \in 1 .. m : Hushes(s[i], at)) /\ (\A i \in 1 .. n : Hushes(t[i], at))
  BY DEF Hush
<1> HIDE DEF u, m, n
<1>3. ASSUME NEW i \in 1 .. m + n PROVE Hushes(u[i], at)
  <2>1. CASE i <= m
    BY <1>1, <1>2, <2>1
  <2>2. CASE ~(i <= m)
    <3>1. i - m \in 1 .. n
      BY <1>1, <2>2
    <3> QED BY <1>1, <1>2, <2>2, <3>1
  <2> QED BY <2>1, <2>2
<1> QED BY <1>1, <1>3 DEF Hush, u

LEMMA ConcatOrdered == \A s, t : Ordered(s) /\ Ordered(t) => Ordered(s \o t)
<1> SUFFICES ASSUME NEW s, NEW t, Ordered(s), Ordered(t) PROVE Ordered(s \o t)
  OBVIOUS
<1> DEFINE u == s \o t
           m == Len(s)
           n == Len(t)
<1>1. /\ \E S : u \in Seq(S)
      /\ m \in Nat /\ n \in Nat /\ Len(u) = m + n
      /\ \A i \in 1 .. m + n : u[i] = IF i <= m THEN s[i] ELSE t[i - m]
  BY Concat DEF Ordered
<1>2. /\ \A i \in 1 .. m : (\E at : Hushes(s[i], at)) /\ InTurn(s, i)
      /\ \A i \in 1 .. n : (\E at : Hushes(t[i], at)) /\ InTurn(t, i)
  BY DEF Ordered
<1> HIDE DEF u, m, n
<1>3. ASSUME NEW i \in 1 .. m + n PROVE (\E at : Hushes(u[i], at)) /\ InTurn(u, i)
  <2>1. CASE i <= m
    <3>1. i \in 1 .. m /\ u[i] = s[i]
      BY <1>1, <2>1
    <3>2. \A at, reg : Earlier(s, i, at, reg) => Earlier(u, i, at, reg)
      <4>1. \A j \in 1 .. i - 1 : u[j] = s[j]
        BY <1>1, <3>1
      <4> QED BY <4>1 DEF Earlier
    <3> QED BY <1>2, <3>1, <3>2 DEF InTurn
  <2>2. CASE ~(i <= m)
    <3> DEFINE k == i - m
    <3>1. k \in 1 .. n /\ u[i] = t[k]
      BY <1>1, <2>2
    <3>2. \A at, reg : Earlier(t, k, at, reg) => Earlier(u, i, at, reg)
      <4>1. ASSUME NEW at, NEW reg, NEW j \in 1 .. k - 1, Wrote(t[j], at, reg)
            PROVE  j + m \in 1 .. i - 1 /\ Wrote(u[j + m], at, reg)
        <5>1. m \in Nat /\ n \in Nat /\ i \in Int /\ i <= m + n /\ j \in Int /\ 1 <= j /\ j <= (i - m) - 1
          BY <1>1
        <5>2. j + m \in 1 .. i - 1 /\ j + m \in 1 .. m + n /\ ~(j + m <= m) /\ (j + m) - m = j
          BY ONLY <5>1
        <5> QED BY <1>1, <4>1, <5>2
      <4> QED BY <4>1 DEF Earlier
    <3> HIDE DEF k
    <3> QED BY <1>2, <3>1, <3>2 DEF InTurn
  <2> QED BY <2>1, <2>2
<1> QED BY <1>1, <1>3 DEF Ordered, u

\* A unit whose first write shuts it, and one whose flags have no source but its accesses
LEMMA HushOrdered ==
  \A s, at : /\ Hush(s, at)
             /\ \/ at \in {"can", "spi", "i2c", "adc"}
                \/ at \in {"timer", "uart"} /\ Wrote(s[1], at, "CTRL")
             => Ordered(s)
<1> SUFFICES ASSUME NEW s, NEW at, Hush(s, at),
                    \/ at \in {"can", "spi", "i2c", "adc"}
                    \/ at \in {"timer", "uart"} /\ Wrote(s[1], at, "CTRL")
             PROVE  Ordered(s)
  OBVIOUS
<1>1. PICK S : s \in Seq(S)
  BY DEF Hush
<1>2. Len(s) \in Nat
  BY <1>1
<1>3. ASSUME NEW i \in 1 .. Len(s) PROVE Hushes(s[i], at) /\ InTurn(s, i)
  <2>1. Hushes(s[i], at) /\ s[i].at = at
    BY DEF Hush, Hushes
  <2>2. CASE at \in {"can", "spi", "i2c", "adc"}
    BY <2>1, <2>2 DEF InTurn, Wrote
  <2>3. CASE at \in {"timer", "uart"} /\ Wrote(s[1], at, "CTRL")
    <3>1. CASE i = 1
      <4>1. s[1].step = "put" /\ s[1].op.reg = "CTRL"
        BY <2>1, <2>3, <3>1 DEF Hushes, Wrote
      <4> QED BY <2>1, <2>3, <3>1, <4>1 DEF InTurn, Wrote
    <3>2. CASE i # 1
      <4>1. 1 \in 1 .. i - 1
        BY <1>2, <3>2
      <4>2. Earlier(s, i, at, "CTRL")
        BY <2>3, <4>1 DEF Earlier
      <4> QED BY <2>1, <2>3, <4>2 DEF InTurn, Wrote
    <3> QED BY <3>1, <3>2
  <2> QED BY <2>2, <2>3
<1> QED BY <1>3 DEF Ordered, Hush

LEMMA GpioOrdered == Ordered(init_gpio_block)
<1> USE DEF init_gpio_block, qar_gpio_config_dir, qar_gpio_write, qar_gpio_config_irq,
        qar_gpio_config_debounce, qar_gpio_clear_irq, Put
<1> DEFINE s == init_gpio_block
<1>1. (\E S : s \in Seq(S)) /\ Len(s) = 9
  <2>1. Fit(s, {})
    BY GpioHelpersFit, PutFit, ConcatFit DEF init_gpio_block
  <2>2. Len(s) = 9
    BY SMTT(30)
  <2> QED BY <2>1, <2>2 DEF Fit
<1>2. ASSUME NEW i \in 1 .. 9 PROVE Hushes(s[i], "gpio")
  <2>1. s[i].step = "put" /\ s[i].at = "gpio" /\ s[i].op.reg \notin {"OUT_SET", "OUT_CLR"}
    BY SMTT(30)
  <2>2. s[i].op.reg \notin {"DB_CYCLES", "IRQ_STATUS"} => s[i].op.value = {}
    BY SMTT(30)
  <2>3. s[i].op.reg = "IRQ_STATUS" => s[i].op.value = AllPins
    BY SMTT(30)
  <2> HIDE DEF s
  <2> QED BY <2>1, <2>2, <2>3 DEF Hushes, Tame
<1>3. Wrote(s[5], "gpio", "IRQ_RISE") /\ Wrote(s[6], "gpio", "IRQ_FALL")
  BY DEF Wrote
<1>4. \A i \in 1 .. 9 : Wrote(s[i], "gpio", "IRQ_STATUS") => i = 9
  BY DEF Wrote
<1>5. \A i \in 1 .. 9 : s[i].at = "gpio"
  BY <1>2 DEF Hushes
<1> HIDE DEF s
<1>6. ASSUME NEW i \in 1 .. 9 PROVE InTurn(s, i)
  <2>1. i = 9 => Earlier(s, i, "gpio", "IRQ_RISE") /\ Earlier(s, i, "gpio", "IRQ_FALL")
    BY <1>3 DEF Earlier
  <2> QED BY <1>4, <1>5, <2>1 DEF InTurn, Wrote
<1>7. Ordered(s)
  BY <1>1, <1>2, <1>6 DEF Ordered
<1> QED BY <1>7 DEF s

LEMMA StepHush == \A r, at : Hushes(r, at) => Hush(<<r>>, at)
<1> SUFFICES ASSUME NEW r, NEW at, Hushes(r, at) PROVE Hush(<<r>>, at)
  OBVIOUS
<1>1. <<r>> \in Seq({r}) /\ Len(<<r>>) = 1 /\ <<r>>[1] = r
  OBVIOUS
<1> DEFINE s == <<r>>
<1> HIDE DEF s
<1>2. s \in Seq({r}) /\ Len(s) = 1 /\ \A i \in 1 .. 1 : s[i] = r
  BY <1>1 DEF s
<1> QED BY <1>2 DEF Hush, s

LEMMA PutHush ==
  /\ \A at, reg, value :
       Tame(at, [reg |-> reg, value |-> value]) => Hush(Put(at, reg, value), at)
  /\ \A reg, ch, value :
       Tame("timer", [reg |-> reg, ch |-> ch, value |-> value]) =>
         Hush(PutTo(reg, ch, value), "timer")
  BY StepHush DEF Hushes, Put, PutTo

\* Registers of which nothing is asked
LEMMA LooseTame ==
  \A at, reg, value :
    /\ reg \notin {"CTRL", "IRQ_EN", "IRQ_STATUS", "IDLE_CFG", "LIN_CMD", "RX_FIFO", "TX_CMD",
                   "STATUS", "CMP", "PWM_PERIOD", "WDT_CTRL", "CAPTURE_CTRL", "CMD", "TXDATA",
                   "RXDATA"}
    /\ at \in {"timer", "uart", "can", "spi", "i2c", "adc"}
    => Tame(at, [reg |-> reg, value |-> value])
  BY DEF Tame

\* Masks
LEMMA MaskTame == \A at : at # "gpio" => Tame(at, [reg |-> "IRQ_EN", value |-> {}])
  BY DEF Tame

LEMMA TimerOrdered == Ordered(init_timer_block)
<1> DEFINE watch == qar_timer_config_wdt(0, FALSE)
           clear == qar_timer_clear_status(TimerChannels, TRUE, TimerChannels)
<1>1. /\ Hush(Put("timer", "CTRL", [enable |-> FALSE, auto |-> {}]), "timer")
      /\ Hush(Put("timer", "IRQ_EN", {}), "timer") /\ Hush(Put("timer", "PRESCALE", 0), "timer")
      /\ Hush(Put("timer", "CAPTURE_CTRL", {}), "timer")
  <2>1. /\ Tame("timer", [reg |-> "CTRL", value |-> [enable |-> FALSE, auto |-> {}]])
        /\ Tame("timer", [reg |-> "CAPTURE_CTRL", value |-> {}])
    BY DEF Tame
  <2>2. /\ Tame("timer", [reg |-> "IRQ_EN", value |-> {}])
        /\ Tame("timer", [reg |-> "PRESCALE", value |-> 0])
    BY LooseTame, MaskTame
  <2> QED BY <2>1, <2>2, PutHush
<1>2. Hush(clear, "timer")
  <2>1. Tame("timer", [reg |-> "STATUS", value |-> [wdt |-> TRUE, cmp |-> TimerChannels,
                                                    cap |-> TimerChannels]])
    BY DEF Tame
  <2> QED BY <2>1, PutHush DEF qar_timer_clear_status
<1>3. Hush(watch, "timer")
  <2>1. Tame("timer", [reg |-> "WDT_CTRL", value |-> [enable |-> FALSE, kick |-> FALSE]])
    BY DEF Tame
  <2>2. Tame("timer", [reg |-> "WDT_LOAD", value |-> 0])
    BY LooseTame
  <2> QED BY <2>1, <2>2, PutHush, ConcatHush DEF qar_timer_config_wdt
<1>4. ASSUME NEW ch \in TimerChannels
      PROVE  /\ Hush(qar_timer_set_compare(ch, 0, 0), "timer")
             /\ Hush(qar_timer_config_pwm(ch, 0, 0), "timer")
  <2>1. \A reg \in {"CMP", "CMP_PERIOD", "PWM_PERIOD", "PWM_DUTY"} :
          Tame("timer", [reg |-> reg, ch |-> ch, value |-> 0])
    BY DEF Tame
  <2> QED BY <2>1, PutHush, ConcatHush DEF qar_timer_set_compare, qar_timer_config_pwm
<1>5. 0 \in TimerChannels /\ 1 \in TimerChannels
  BY DEF TimerChannels
<1>6. Hush(init_timer_block, "timer")
  BY <1>1, <1>2, <1>3, <1>4, <1>5, ConcatHush DEF init_timer_block
<1>7. Wrote(init_timer_block[1], "timer", "CTRL")
  BY DEF Wrote, init_timer_block, Put, PutTo, qar_timer_clear_status, qar_timer_set_compare,
         qar_timer_config_pwm, qar_timer_config_wdt
<1> QED BY <1>6, <1>7, HushOrdered

\* A mask whose flags are cleared one by one
LEMMA ModifyHush ==
  /\ Hush(qar_uart_disable_irq(UartIrqAll), "uart")
  /\ Hush(qar_can_disable_irq(CanIrqAll), "can")
<1>1. ASSUME NEW at, NEW clear,
             \/ at = "uart" /\ clear = UartIrqAll
             \/ at = "can" /\ clear = CanIrqAll
      PROVE  Hush(Modify(at, "IRQ_EN", {}, clear), at)
  <2> DEFINE a == [step |-> "load", at |-> at, reg |-> "IRQ_EN"]
             b == [step |-> "store", at |-> at, reg |-> "IRQ_EN", set |-> {}, clear |-> clear]
  <2>1. Hushes(a, at) /\ Hushes(b, at)
    BY <1>1 DEF Hushes
  <2>2. Modify(at, "IRQ_EN", {}, clear) = <<a>> \o <<b>>
    BY Pair DEF Modify
  <2> HIDE DEF a, b
  <2> QED BY <2>1, <2>2, StepHush, ConcatHush
<1>2. /\ Hush(Modify("uart", "IRQ_EN", {}, UartIrqAll), "uart")
      /\ Hush(Modify("can", "IRQ_EN", {}, CanIrqAll), "can")
  BY <1>1
<1> QED BY <1>2 DEF qar_uart_disable_irq, qar_can_disable_irq

LEMMA UartOrdered == Ordered(init_uart_block)
<1>1. /\ Hush(Put("uart", "CTRL", [enable |-> FALSE, lin |-> FALSE]), "uart")
      /\ Hush(Put("uart", "BAUD", 500), "uart")
  <2>1. Tame("uart", [reg |-> "CTRL", value |-> [enable |-> FALSE, lin |-> FALSE]])
    BY DEF Tame
  <2>2. Tame("uart", [reg |-> "BAUD", value |-> 500])
    BY LooseTame
  <2>3. \A reg, value : Tame("uart", [reg |-> reg, value |-> value]) =>
                          Hush(Put("uart", reg, value), "uart")
    BY PutHush
  <2> QED BY <2>1, <2>2, <2>3, Zenon
<1>2. Hush(qar_uart_set_idle_cycles(0), "uart")
  <2>1. \A b : ~b => Tame("uart", [reg |-> "IDLE_CFG", value |-> b])
    BY DEF Tame
  <2>2. \A b : ~b => Hush(Put("uart", "IDLE_CFG", b), "uart")
    BY <2>1, PutHush
  <2> QED BY <2>2, Zenon DEF qar_uart_set_idle_cycles
<1>3. Hush(qar_uart_config_rs485(0), "uart") /\ Hush(qar_uart_lin_set_break(13), "uart")
  BY LooseTame, PutHush DEF qar_uart_config_rs485, qar_uart_lin_set_break
<1>4. Hush(qar_uart_lin_config_slave("00", 0, FALSE), "uart")
  <2>1. \A v : Hush(Put("uart", "LIN_SLAVE", v), "uart")
    BY LooseTame, PutHush
  <2> QED BY <2>1 DEF qar_uart_lin_config_slave
<1>5. Hush(qar_uart_clear_irq(UartIrqAll), "uart") /\ Hush(qar_uart_lin_clear_break, "uart")
  <2>1. /\ Tame("uart", [reg |-> "IRQ_STATUS", value |-> UartIrqAll])
        /\ Tame("uart", [reg |-> "LIN_CMD", value |-> {"clear"}])
    BY DEF Tame
  <2> QED BY <2>1, PutHush DEF qar_uart_clear_irq, qar_uart_lin_clear_break
<1> DEFINE shut == Put("uart", "CTRL", [enable |-> FALSE, lin |-> FALSE])
           front == shut \o Put("uart", "BAUD", 500)
                         \o qar_uart_config_rs485(0) \o qar_uart_set_idle_cycles(0)
                         \o qar_uart_lin_set_break(13)
<1>6. Hush(front, "uart")
  BY <1>1, <1>2, <1>3, ConcatHush
<1>7. init_uart_block = front \o qar_uart_lin_config_slave("00", 0, FALSE)
                          \o qar_uart_disable_irq(UartIrqAll) \o qar_uart_clear_irq(UartIrqAll)
                          \o qar_uart_lin_clear_break
  BY DEF init_uart_block
<1> HIDE DEF front
<1>8. Hush(init_uart_block, "uart")
  BY <1>4, <1>5, <1>6, <1>7, ModifyHush, ConcatHush
<1>9. Wrote(init_uart_block[1], "uart", "CTRL")
  BY DEF Wrote, init_uart_block, Put, Modify, qar_uart_config_rs485, qar_uart_set_idle_cycles,
         qar_uart_lin_set_break, qar_uart_lin_config_slave, qar_uart_disable_irq,
         qar_uart_clear_irq, qar_uart_lin_clear_break
<1> QED BY <1>8, <1>9, HushOrdered

LEMMA CanOrdered == Ordered(init_can_block)
<1>1. /\ Hush(qar_can_set_ctrl({}), "can") /\ Hush(qar_can_clear_irq(CanIrqAll), "can")
      /\ Hush(qar_can_flush_rx, "can")
  <2>1. /\ Tame("can", [reg |-> "CTRL", value |-> {}])
        /\ Tame("can", [reg |-> "IRQ_STATUS", value |-> CanIrqAll])
        /\ Tame("can", [reg |-> "RX_FIFO", value |-> {"flush"}])
    BY DEF Tame
  <2> QED BY <2>1, PutHush DEF qar_can_set_ctrl, qar_can_clear_irq, qar_can_flush_rx
<1>2. /\ Hush(Put("can", "BITTIME", 0), "can") /\ Hush(Put("can", "FILTER_ID", {}), "can")
      /\ Hush(Put("can", "FILTER_MASK", {}), "can")
  BY LooseTame, PutHush
<1>3. Hush(init_can_block, "can")
  BY <1>1, <1>2, ModifyHush, ConcatHush DEF init_can_block
<1> QED BY <1>3, HushOrdered

\* The three whose flags nobody asks about
LEMMA OthersOrdered ==
  Ordered(init_spi_block) /\ Ordered(init_i2c_block) /\ Ordered(init_adc_block)
<1>1. \A at, reg, value :
        /\ at \in {"spi", "i2c", "adc"}
        /\ reg \notin {"CTRL", "IRQ_EN", "CMD", "TXDATA", "RXDATA"}
        => Hush(Put(at, reg, value), at)
  <2>1. \A at, reg, value :
          /\ at \in {"spi", "i2c", "adc"}
          /\ reg \notin {"CTRL", "IRQ_EN", "CMD", "TXDATA", "RXDATA"}
          => Tame(at, [reg |-> reg, value |-> value])
    BY DEF Tame
  <2> QED BY <2>1, PutHush
<1>2. \A at, value :
        /\ at \in {"spi", "i2c", "adc"} /\ ~value.enable /\ (at = "adc" => ~value.start)
        => Hush(Put(at, "CTRL", value), at)
  <2>1. \A at, value :
          /\ at \in {"spi", "i2c", "adc"} /\ ~value.enable /\ (at = "adc" => ~value.start)
          => Tame(at, [reg |-> "CTRL", value |-> value])
    BY DEF Tame
  <2> QED BY <2>1, PutHush
<1>3. \A at \in {"spi", "i2c", "adc"} : Hush(Put(at, "IRQ_EN", {}), at)
  BY MaskTame, PutHush
<1>4. Hush(init_spi_block, "spi")
  <2>1. Hush(Put("spi", "CTRL", [enable |-> FALSE, loopback |-> FALSE, count |-> 0]), "spi")
    BY <1>2
  <2> QED BY <1>1, <1>3, <2>1, ConcatHush DEF init_spi_block, qar_spi_set_cs
<1>5. Hush(init_i2c_block, "i2c")
  <2>1. Hush(Put("i2c", "CTRL", [enable |-> FALSE, loopback |-> FALSE]), "i2c")
    BY <1>2
  <2> QED BY <1>1, <1>3, <2>1, ConcatHush DEF init_i2c_block
<1>6. Hush(init_adc_block, "adc")
  <2>1. Hush(Put("adc", "CTRL", [enable |-> FALSE, continuous |-> FALSE, start |-> FALSE,
                                 channel |-> 0]), "adc")
    BY <1>2
  <2> QED BY <1>1, <1>3, <2>1, ConcatHush
      DEF init_adc_block, qar_adc_set_sequence, qar_adc_clear_irq
<1> QED BY <1>4, <1>5, <1>6, HushOrdered

LEMMA SdkOrdered == Ordered(qar_sdk_init)
  BY GpioOrdered, TimerOrdered, UartOrdered, CanOrdered, OthersOrdered, ConcatOrdered
  DEF qar_sdk_init

\* The elements of a concatenation, by their place in its parts
IsSeq(s) == \E S : s \in Seq(S)

Joined(r, s, t) ==
  /\ IsSeq(r) /\ Len(s) \in Nat /\ Len(t) \in Nat /\ Len(r) = Len(s) + Len(t)
  /\ \A k \in 1 .. Len(s) + Len(t) : r[k] = IF k <= Len(s) THEN s[k] ELSE t[k - Len(s)]

LEMMA Joins == \A s, t : IsSeq(s) /\ IsSeq(t) => Joined(s \o t, s, t)
<1> SUFFICES ASSUME NEW s, NEW t, IsSeq(s), IsSeq(t) PROVE Joined(s \o t, s, t)
  OBVIOUS
<1> QED BY Concat DEF IsSeq, Joined

\* What each block of qar_sdk_init writes, and where
LEMMA GpioBlock ==
  LET s == init_gpio_block IN
  /\ (\E S : s \in Seq(S)) /\ Len(s) = 9
  /\ Wrote(s[1], "gpio", "DIR") /\ Wrote(s[2], "gpio", "OUT") /\ Wrote(s[3], "gpio", "ALT_PWM")
  /\ Wrote(s[4], "gpio", "IRQ_EN") /\ Wrote(s[7], "gpio", "DB_EN")
  /\ Wrote(s[9], "gpio", "IRQ_STATUS")
  BY SMTT(30), GpioOrdered
  DEF Ordered, Wrote, init_gpio_block, qar_gpio_config_dir, qar_gpio_write, qar_gpio_config_irq,
      qar_gpio_config_debounce, qar_gpio_clear_irq, Put

LEMMA TimerBlock ==
  LET s == init_timer_block IN
  /\ (\E S : s \in Seq(S)) /\ Len(s) = 15
  /\ Wrote(s[2], "timer", "IRQ_EN") /\ Wrote(s[3], "timer", "STATUS")
  /\ Wrote(s[5], "timer", "CMP") /\ s[5].op.ch = 0
  /\ Wrote(s[7], "timer", "CMP") /\ s[7].op.ch = 1
  /\ Wrote(s[9], "timer", "PWM_PERIOD") /\ s[9].op.ch = 0
  /\ Wrote(s[11], "timer", "PWM_PERIOD") /\ s[11].op.ch = 1
  /\ Wrote(s[14], "timer", "WDT_CTRL")
  BY SMTT(60), TimerOrdered
  DEF Ordered, Wrote, init_timer_block, Put, PutTo, qar_timer_clear_status,
      qar_timer_set_compare, qar_timer_config_pwm, qar_timer_config_wdt

LEMMA UartBlock ==
  LET s == init_uart_block IN
  /\ (\E S : s \in Seq(S)) /\ Len(s) = 10
  /\ Wrote(s[4], "uart", "IDLE_CFG") /\ Wrote(s[8], "uart", "IRQ_EN")
  /\ Wrote(s[9], "uart", "IRQ_STATUS") /\ Wrote(s[10], "uart", "LIN_CMD")
  BY SMTT(30), UartOrdered
  DEF Ordered, Wrote, init_uart_block, Put, Modify, qar_uart_config_rs485,
      qar_uart_set_idle_cycles, qar_uart_lin_set_break, qar_uart_lin_config_slave,
      qar_uart_disable_irq, qar_uart_clear_irq, qar_uart_lin_clear_break

LEMMA CanBlock ==
  LET s == init_can_block IN
  /\ (\E S : s \in Seq(S)) /\ Len(s) = 8
  /\ Wrote(s[1], "can", "CTRL") /\ Wrote(s[6], "can", "IRQ_EN")
  /\ Wrote(s[7], "can", "IRQ_STATUS") /\ Wrote(s[8], "can", "RX_FIFO")
  BY SMTT(30), CanOrdered
  DEF Ordered, Wrote, init_can_block, Put, Modify, qar_can_set_ctrl, qar_can_disable_irq,
      qar_can_clear_irq, qar_can_flush_rx

LEMMA OtherBlocks ==
  LET s == init_spi_block
      t == init_i2c_block
      u == init_adc_block
  IN
  /\ (\E S : s \in Seq(S)) /\ (\E S : t \in Seq(S)) /\ (\E S : u \in Seq(S))
  /\ Len(s) = 5 /\ Len(t) = 4 /\ Len(u) = 5
  /\ Wrote(s[1], "spi", "CTRL") /\ Wrote(s[4], "spi", "IRQ_EN")
  /\ Wrote(t[1], "i2c", "CTRL") /\ Wrote(t[3], "i2c", "IRQ_EN")
  /\ Wrote(u[1], "adc", "CTRL") /\ Wrote(u[4], "adc", "IRQ_EN")
<1>1. /\ Len(init_spi_block) = 5
      /\ Wrote(init_spi_block[1], "spi", "CTRL") /\ Wrote(init_spi_block[4], "spi", "IRQ_EN")
  BY DEF Wrote, init_spi_block, Put, qar_spi_set_cs
<1>2. /\ Len(init_i2c_block) = 4
      /\ Wrote(init_i2c_block[1], "i2c", "CTRL") /\ Wrote(init_i2c_block[3], "i2c", "IRQ_EN")
  BY DEF Wrote, init_i2c_block, Put
<1>3. /\ Len(init_adc_block) = 5
      /\ Wrote(init_adc_block[1], "adc", "CTRL") /\ Wrote(init_adc_block[4], "adc", "IRQ_EN")
  BY DEF Wrote, init_adc_block, Put, qar_adc_set_sequence, qar_adc_clear_irq
<1> QED BY <1>1, <1>2, <1>3, OthersOrdered DEF Ordered

\* What qar_sdk_init writes, and where
LEMMA SdkWrites ==
  LET s == qar_sdk_init IN
  /\ Len(s) = 56
  /\ Wrote(s[1], "gpio", "DIR") /\ Wrote(s[2], "gpio", "OUT") /\ Wrote(s[3], "gpio", "ALT_PWM")
  /\ Wrote(s[4], "gpio", "IRQ_EN") /\ Wrote(s[7], "gpio", "DB_EN")
  /\ Wrote(s[9], "gpio", "IRQ_STATUS")
  /\ Wrote(s[11], "timer", "IRQ_EN") /\ Wrote(s[12], "timer", "STATUS")
  /\ Wrote(s[14], "timer", "CMP") /\ s[14].op.ch = 0
  /\ Wrote(s[16], "timer", "CMP") /\ s[16].op.ch = 1
  /\ Wrote(s[18], "timer", "PWM_PERIOD") /\ s[18].op.ch = 0
  /\ Wrote(s[20], "timer", "PWM_PERIOD") /\ s[20].op.ch = 1
  /\ Wrote(s[23], "timer", "WDT_CTRL")
  /\ Wrote(s[28], "uart", "IDLE_CFG") /\ Wrote(s[32], "uart", "IRQ_EN")
  /\ Wrote(s[33], "uart", "IRQ_STATUS") /\ Wrote(s[34], "uart", "LIN_CMD")
  /\ Wrote(s[35], "can", "CTRL") /\ Wrote(s[40], "can", "IRQ_EN")
  /\ Wrote(s[41], "can", "IRQ_STATUS") /\ Wrote(s[42], "can", "RX_FIFO")
  /\ Wrote(s[43], "spi", "CTRL") /\ Wrote(s[46], "spi", "IRQ_EN")
  /\ Wrote(s[48], "i2c", "CTRL") /\ Wrote(s[50], "i2c", "IRQ_EN")
  /\ Wrote(s[52], "adc", "CTRL") /\ Wrote(s[55], "adc", "IRQ_EN")
<1> DEFINE g == init_gpio_block
           t == init_timer_block
           u == init_uart_block
           c == init_can_block
           p == init_spi_block
           i == init_i2c_block
           a == init_adc_block
           s1 == g \o t
           s2 == s1 \o u
           s3 == s2 \o c
           s4 == s3 \o p
           s5 == s4 \o i
<1>1. /\ IsSeq(g) /\ IsSeq(t) /\ IsSeq(u) /\ IsSeq(c) /\ IsSeq(p) /\ IsSeq(i) /\ IsSeq(a)
      /\ Len(g) = 9 /\ Len(t) = 15 /\ Len(u) = 10 /\ Len(c) = 8
      /\ Len(p) = 5 /\ Len(i) = 4 /\ Len(a) = 5
  BY GpioBlock, TimerBlock, UartBlock, CanBlock, OtherBlocks DEF IsSeq
<1>2. qar_sdk_init = s5 \o a
  BY DEF qar_sdk_init
<1> HIDE DEF g, t, u, c, p, i, a
<1>3. Joined(s1, g, t)
  BY <1>1, Joins DEF Joined
<1> HIDE DEF s1
<1>4. Joined(s2, s1, u)
  BY <1>1, <1>3, Joins DEF Joined
<1> HIDE DEF s2
<1>5. Joined(s3, s2, c)
  BY <1>1, <1>4, Joins DEF Joined
<1> HIDE DEF s3
<1>6. Joined(s4, s3, p)
  BY <1>1, <1>5, Joins DEF Joined
<1> HIDE DEF s4
<1>7. Joined(s5, s4, i)
  BY <1>1, <1>6, Joins DEF Joined
<1> HIDE DEF s5
<1> DEFINE s == qar_sdk_init
<1>8. Joined(s, s5, a)
  BY <1>1, <1>2, <1>7, Joins DEF Joined
<1> HIDE DEF s
<1>9. /\ s[1] = g[1] /\ s[2] = g[2] /\ s[3] = g[3] /\ s[4] = g[4] /\ s[7] = g[7] /\ s[9] = g[9]
      /\ s[11] = t[2] /\ s[12] = t[3] /\ s[14] = t[5] /\ s[16] = t[7] /\ s[18] = t[9]
      /\ s[20] = t[11] /\ s[23] = t[14]
      /\ s[28] = u[4] /\ s[32] = u[8] /\ s[33] = u[9] /\ s[34] = u[10]
      /\ s[35] = c[1] /\ s[40] = c[6] /\ s[41] = c[7] /\ s[42] = c[8]
      /\ s[43] = p[1] /\ s[46] = p[4] /\ s[48] = i[1] /\ s[50] = i[3]
      /\ s[52] = a[1] /\ s[55] = a[4] /\ Len(s) = 56
  BY <1>1, <1>3, <1>4, <1>5, <1>6, <1>7, <1>8 DEF Joined
<1>10. s = qar_sdk_init
  BY DEF s
<1> QED
  BY <1>9, <1>10, GpioBlock, TimerBlock, UartBlock, CanBlock, OtherBlocks
  DEF g, t, u, c, p, i, a

--------------------------------------------------------------------------------
(* An edge at which firmware makes no access or such a write *)

\* What holds of a register before the edge, or is made so by the write of the edge, holds
\* after it: of the masks and directions, and of the flags once their sources are shut.
LEMMA GpioEdgeQuiets ==
  ASSUME NEW w, NEW in, NEW pwm, GpioEdge(w, in, pwm), Tame("gpio", w),
         gpio_irq \subseteq Pin, last_input \subseteq Pin, debounced_input \subseteq Pin
  PROVE  /\ gpio_dir = {} \/ w.reg = "DIR" => gpio_dir' = {}
         /\ gpio_out_reg = {} \/ w.reg = "OUT" => gpio_out_reg' = {}
         /\ alt_pwm_sel = {} \/ w.reg = "ALT_PWM" => alt_pwm_sel' = {}
         /\ irq_rise_mask = {} \/ w.reg = "IRQ_RISE" => irq_rise_mask' = {}
         /\ irq_fall_mask = {} \/ w.reg = "IRQ_FALL" => irq_fall_mask' = {}
         /\ debounce_enable = {} \/ w.reg = "DB_EN" => debounce_enable' = {}
         /\ /\ gpio_irq = {} \/ w.reg = "IRQ_STATUS"
            /\ irq_rise_mask = {} /\ irq_fall_mask = {}
            => gpio_irq' = {}
<1>1. GpioRegisters(w) /\ Events(w)
  BY DEF GpioEdge
<1>2. /\ gpio_dir = {} \/ w.reg = "DIR" => gpio_dir' = {}
      /\ alt_pwm_sel = {} \/ w.reg = "ALT_PWM" => alt_pwm_sel' = {}
      /\ irq_rise_mask = {} \/ w.reg = "IRQ_RISE" => irq_rise_mask' = {}
      /\ irq_fall_mask = {} \/ w.reg = "IRQ_FALL" => irq_fall_mask' = {}
      /\ debounce_enable = {} \/ w.reg = "DB_EN" => debounce_enable' = {}
  BY <1>1 DEF GpioRegisters, GpioSet, Tame
<1>3. gpio_out_reg = {} \/ w.reg = "OUT" => gpio_out_reg' = {}
  <2>1. w.reg \notin {"OUT_SET", "OUT_CLR"} /\ (w.reg = "OUT" => w.value = {})
    BY DEF Tame
  <2> QED BY <1>1, <2>1 DEF GpioRegisters
<1>4. ASSUME gpio_irq = {} \/ w.reg = "IRQ_STATUS", irq_rise_mask = {}, irq_fall_mask = {}
      PROVE  gpio_irq' = {}
  <2>1. irq_events = {}
    BY <1>4 DEF irq_events
  <2>2. gpio_irq' = IF w.reg = "IRQ_STATUS" THEN gpio_irq \ w.value ELSE gpio_irq
    BY <1>1, <2>1 DEF Events
  <2>3. w.reg = "IRQ_STATUS" => w.value = AllPins
    BY DEF Tame
  <2>4. Pin \subseteq AllPins
    BY FirmwareAssumption
  <2> QED BY <1>4, <2>2, <2>3, <2>4
<1> QED BY <1>2, <1>3, <1>4

LEMMA TimerEdgeQuiets ==
  ASSUME NEW w, TimerEdge(w), Tame("timer", w),
         timer_status \in [wdt: BOOLEAN, cmp: SUBSET Channel, cap: SUBSET Channel],
         cmp = [c \in Channel |-> cmp[c]], pwm_period = [c \in Channel |-> pwm_period[c]]
  PROVE  /\ ~timer_ctrl.enable \/ w.reg = "CTRL" => ~timer_ctrl'.enable
         /\ /\ \/ timer_status = [wdt |-> FALSE, cmp |-> {}, cap |-> {}]
               \/ w.reg = "STATUS"
            /\ ~timer_ctrl.enable
            => timer_status' = [wdt |-> FALSE, cmp |-> {}, cap |-> {}]
         /\ \A c \in Channel :
              (cmp[c] = 0 \/ (w.reg = "CMP" /\ w.ch = c)) /\ ~timer_ctrl.enable => cmp'[c] = 0
         /\ \A c \in Channel :
              pwm_period[c] = 0 \/ (w.reg = "PWM_PERIOD" /\ w.ch = c) => pwm_period'[c] = 0
         /\ ~wdt_enable \/ w.reg = "WDT_CTRL" => ~wdt_enable'
<1>1. Channel = TimerChannels
  BY FirmwareAssumption
<1>2. ~timer_ctrl.enable => ~Tick
  BY DEF Tick
<1>3. ~timer_ctrl.enable \/ w.reg = "CTRL" => ~timer_ctrl'.enable
  BY DEF TimerEdge, Counting, Set, Tame
<1>4. ASSUME \/ timer_status = [wdt |-> FALSE, cmp |-> {}, cap |-> {}]
             \/ w.reg = "STATUS",
             ~timer_ctrl.enable
      PROVE  timer_status' = [wdt |-> FALSE, cmp |-> {}, cap |-> {}]
  <2>1. /\ ~Expired(w)
        /\ {c \in Channel : TimerMatches(c)} = {}
    <3>1. w.reg = "STATUS" => w.value.wdt
      BY DEF Tame
    <3> QED BY <1>2, <1>4, <3>1 DEF Expired, WdtTick, Acknowledges, TimerMatches
  <2>2. w.reg = "STATUS" => w.value.cmp = Channel /\ w.value.cap = Channel
    BY <1>1 DEF Tame
  <2>3. w.reg = "CAPTURE_CTRL" => w.value = {}
    BY DEF Tame
  <2>4. timer_status.cmp \subseteq Channel /\ timer_status.cap \subseteq Channel
    OBVIOUS
  <2> DEFINE a == IF w.reg = "STATUS" THEN timer_status.cmp \ w.value.cmp ELSE timer_status.cmp
             b == IF w.reg = "STATUS" THEN timer_status.cap \ w.value.cap ELSE timer_status.cap
             e == Expired(w)
             d == IF w.reg = "CAPTURE_CTRL" THEN w.value ELSE {}
  <2>5. timer_status' = [wdt |-> e, cmp |-> a \cup {c \in Channel : TimerMatches(c)}, cap |-> b \cup d]
    BY DEF TimerEdge, Status
  <2>6. a = {} /\ b = {} /\ d = {}
    BY <1>4, <2>2, <2>3, <2>4
  <2>7. e = FALSE
    BY <2>1, Zenon DEF Expired
  <2> HIDE DEF a, b, d, e
  <2> QED BY <2>1, <2>5, <2>6, <2>7
<1>5. ASSUME NEW c \in Channel, cmp[c] = 0 \/ (w.reg = "CMP" /\ w.ch = c), ~timer_ctrl.enable
      PROVE  cmp'[c] = 0
  <2>1. cmp'[c] = SetChannel(w, "CMP", cmp)[c]
    BY <1>2, <1>5 DEF TimerEdge, Compare, TimerMatches
  <2>2. w.reg = "CMP" => w.value = 0
    BY DEF Tame
  <2>3. w.reg = "CMP" => SetChannel(w, "CMP", cmp)[c] = IF w.ch = c THEN 0 ELSE cmp[c]
    BY <2>2 DEF SetChannel
  <2> QED BY <1>5, <2>1, <2>3 DEF SetChannel
<1>6. ASSUME NEW c \in Channel, pwm_period[c] = 0 \/ (w.reg = "PWM_PERIOD" /\ w.ch = c)
      PROVE  pwm_period'[c] = 0
  <2>1. pwm_period'[c] = SetChannel(w, "PWM_PERIOD", pwm_period)[c]
    BY DEF TimerEdge, Pwm
  <2>2. w.reg = "PWM_PERIOD" => w.value = 0
    BY DEF Tame
  <2>3. w.reg = "PWM_PERIOD" =>
          SetChannel(w, "PWM_PERIOD", pwm_period)[c] = IF w.ch = c THEN 0 ELSE pwm_period[c]
    BY <2>2 DEF SetChannel
  <2> QED BY <1>6, <2>1, <2>3 DEF SetChannel
<1>7. ~wdt_enable \/ w.reg = "WDT_CTRL" => ~wdt_enable'
  BY DEF TimerEdge, Watchdog, Tame
<1> QED BY <1>3, <1>4, <1>5, <1>6, <1>7

\* A UART that is shut: the flags that the edge acknowledges, and those that are down, are
\* down after it, and what it was sending or receiving is given up.
Hushed(acknowledges, clears) ==
  /\ uart_irq = {} \/ acknowledges => uart_irq' = {}
  /\ uart_status \subseteq {"break"} \/ acknowledges => uart_status' \subseteq {"break"}
  /\ "break" \notin uart_status \/ clears => "break" \notin uart_status'
  /\ (tx_bits_remaining = 0 /\ ~rx_busy) \/ acknowledges => tx_bits_remaining' = 0 /\ ~rx_busy'

LEMMA UartEdgeQuiets ==
  ASSUME NEW w, NEW rx, NEW tick, NEW over, UartEdge(w, rx, tick, over), Tame("uart", w),
         uart_irq \subseteq UartIrqAll, uart_status \subseteq Sticky
  PROVE  /\ ~uart_ctrl.enable \/ w.reg = "CTRL" => ~uart_ctrl'.enable
         /\ ~idle_cfg \/ w.reg = "IDLE_CFG" => ~idle_cfg'
         /\ ~uart_ctrl.enable => Hushed(w.reg = "IRQ_STATUS", w.reg = "LIN_CMD")
<1>1. ~uart_ctrl.enable \/ w.reg = "CTRL" => ~uart_ctrl'.enable
  BY DEF UartEdge, Tame
<1>2. ~idle_cfg \/ w.reg = "IDLE_CFG" => ~idle_cfg'
  BY DEF UartEdge, Receiver, Tame
<1>3. ASSUME ~uart_ctrl.enable
      PROVE  /\ ~BreakEnds(tick, over) /\ ~BreakSeen(rx) /\ ~TxDrained(tick) /\ ~Underflow
             /\ ~RxError(rx) /\ ~UartRxDrop(rx) /\ ~IdleGap(rx) /\ ~Identifier(rx)
             /\ ~UartRxKeep(rx) /\ ~RxEnds(rx)
  BY <1>3 DEF BreakEnds, BreakSeen, TxDrained, TxShift, Underflow, TxIdle, RxError,
              UartRxDrop, IdleGap, RxIdle, Identifier, UartRxKeep, RxEnds
<1>4. ~Asks(w, "break")
  BY DEF Asks, Tame
<1>5. w.reg = "IRQ_STATUS" => w.value = UartIrqAll
  BY DEF Tame
<1>6. ASSUME uart_irq = {} \/ w.reg = "IRQ_STATUS", ~uart_ctrl.enable PROVE uart_irq' = {}
  <2> DEFINE others == {f \in {"tx_empty"} : UartPush(w)}
                         \cup {f \in {"rx"} : \/ Asks(w, "capture")
                                              \/ UartPop(w) /\ uart_rx_head - (uart_rx_tail + 1) = 0}
                         \cup {f \in {"break"} : Asks(w, "clear")}
             cleared == (IF w.reg = "IRQ_STATUS" THEN w.value ELSE {}) \cup others
  <2>1. uart_irq' = uart_irq \ cleared
    <3>1. UartIrq(w, rx, tick, over)
      BY DEF UartEdge
    <3> QED BY <1>3, <1>4, <1>6, <3>1 DEF UartIrq
  <2>2. w.reg = "IRQ_STATUS" => uart_irq \subseteq cleared
    BY <1>5
  <2> HIDE DEF cleared
  <2> QED BY <1>6, <2>1, <2>2
<1>7. ASSUME ~uart_ctrl.enable
      PROVE  /\ uart_status \subseteq {"break"} \/ w.reg = "IRQ_STATUS" => uart_status' \subseteq {"break"}
             /\ "break" \notin uart_status \/ w.reg = "LIN_CMD" => "break" \notin uart_status'
  <2> DEFINE cleared ==
               {s \in {"framing", "overrun", "parity"} : Clears(w, "error")}
                 \cup {s \in {"idle"} : Clears(w, "idle")}
                 \cup {s \in {"break"} : Asks(w, "clear")}
  <2>1. uart_status' = uart_status \ cleared
    <3>1. UartStatus(w, rx, tick, over)
      BY DEF UartEdge
    <3> QED BY <1>3, <1>4, <1>7, <3>1 DEF UartStatus
  <2>2. w.reg = "IRQ_STATUS" => Sticky \ cleared \subseteq {"break"}
    BY <1>5 DEF Clears, UartIrqAll, Sticky
  <2>3. w.reg = "LIN_CMD" => "break" \in cleared
    BY DEF Asks, Tame
  <2> HIDE DEF cleared
  <2> QED BY <2>1, <2>2, <2>3
<1>8. ~uart_ctrl.enable => tx_bits_remaining' = 0 /\ ~rx_busy'
  BY DEF UartEdge, Transmitter, Receiver
<1> QED BY <1>1, <1>2, <1>6, <1>7, <1>8 DEF Hushed

LEMMA CanEdgeQuiets ==
  ASSUME NEW w, CanWrites(w), Tame("can", w), irq_status \subseteq CanIrqAll
  PROVE  /\ ctrl = {} \/ w.reg = "CTRL" => ctrl' = {}
         /\ irq_en = {} \/ w.reg = "IRQ_EN" => irq_en' = {}
         /\ irq_status = {} \/ w.reg = "IRQ_STATUS" => irq_status' = {}
         /\ rx_tail = rx_head \/ w.reg = "RX_FIFO" => rx_tail' = rx_head'
<1> USE DEF CanWrites, canVars, flagVars, fifoVars
<1>0. w.reg # "TX_CMD"
  BY DEF Tame
<1>1. ctrl = {} \/ w.reg = "CTRL" => ctrl' = {}
  BY <1>0 DEF SetCtrl, SetIrqEn, Acknowledge, SetFilterId, SetFilterMask, SetMailbox, FifoControl,
      Tame
<1>2. irq_en = {} \/ w.reg = "IRQ_EN" => irq_en' = {}
  BY <1>0 DEF SetCtrl, SetIrqEn, Acknowledge, SetFilterId, SetFilterMask, SetMailbox, FifoControl,
      Tame
<1>3. irq_status = {} \/ w.reg = "IRQ_STATUS" => irq_status' = {}
  <2>1. w.reg = "IRQ_STATUS" => w.value = CanIrqAll
    BY DEF Tame
  <2> QED BY <1>0, <2>1
    DEF SetCtrl, SetIrqEn, Acknowledge, SetFilterId, SetFilterMask, SetMailbox, FifoControl
<1>4. rx_tail = rx_head \/ w.reg = "RX_FIFO" => rx_tail' = rx_head'
  <2>1. w.reg = "RX_FIFO" => "flush" \in w.value /\ "pop" \notin w.value
    BY DEF Tame
  <2> QED BY <1>0, <2>1
    DEF SetCtrl, SetIrqEn, Acknowledge, SetFilterId, SetFilterMask, SetMailbox, FifoControl,
        NextTail
<1> QED BY <1>1, <1>2, <1>3, <1>4

LEMMA EdgeGpioQuiets ==
  ASSUME Clearable, NEW at, NEW step, NEW op, NEW fast, NEW rx, NEW in,
         Edge(at, step, op, fast, rx, in), Tame(at, op)
  PROVE  LET writes(reg) == at = "gpio" /\ op.reg = reg IN
         /\ gpio_dir = {} \/ writes("DIR") => gpio_dir' = {}
         /\ gpio_out_reg = {} \/ writes("OUT") => gpio_out_reg' = {}
         /\ alt_pwm_sel = {} \/ writes("ALT_PWM") => alt_pwm_sel' = {}
         /\ irq_rise_mask = {} \/ writes("IRQ_RISE") => irq_rise_mask' = {}
         /\ irq_fall_mask = {} \/ writes("IRQ_FALL") => irq_fall_mask' = {}
         /\ debounce_enable = {} \/ writes("DB_EN") => debounce_enable' = {}
         /\ /\ gpio_irq = {} \/ writes("IRQ_STATUS")
            /\ irq_rise_mask = {} /\ irq_fall_mask = {}
            => gpio_irq' = {}
<1> DEFINE w == IF at = "gpio" THEN op ELSE NoAccess
           pwm == {p \in PwmPin : pwm_out[p]}
<1>1. Tame("gpio", w) /\ (at = "gpio" => w = op)
  BY DEF Tame, NoAccess
<1>2. GpioEdge(w, in, pwm) \/ (at # "gpio" /\ UNCHANGED gpioVars)
  BY DEF Edge
<1>3. gpio_irq \subseteq Pin /\ last_input \subseteq Pin /\ debounced_input \subseteq Pin
  BY DEF Clearable
<1> HIDE DEF w, pwm
<1>4. CASE GpioEdge(w, in, pwm)
  BY <1>1, <1>3, <1>4, GpioEdgeQuiets
<1>5. CASE at # "gpio" /\ UNCHANGED gpioVars
  BY <1>5 DEF gpioVars
<1> QED BY <1>2, <1>4, <1>5

LEMMA EdgeTimerQuiets ==
  ASSUME Clearable, NEW at, NEW step, NEW op, NEW fast, NEW rx, NEW in,
         Edge(at, step, op, fast, rx, in), Tame(at, op)
  PROVE  LET writes(reg) == at = "timer" /\ op.reg = reg IN
         /\ ~timer_ctrl.enable \/ writes("CTRL") => ~timer_ctrl'.enable
         /\ /\ timer_status = [wdt |-> FALSE, cmp |-> {}, cap |-> {}] \/ writes("STATUS")
            /\ ~timer_ctrl.enable
            => timer_status' = [wdt |-> FALSE, cmp |-> {}, cap |-> {}]
         /\ \A c \in Channel :
              (cmp[c] = 0 \/ (writes("CMP") /\ op.ch = c)) /\ ~timer_ctrl.enable => cmp'[c] = 0
         /\ \A c \in Channel :
              pwm_period[c] = 0 \/ (writes("PWM_PERIOD") /\ op.ch = c) => pwm_period'[c] = 0
         /\ ~wdt_enable \/ writes("WDT_CTRL") => ~wdt_enable'
<1> DEFINE w == IF at = "timer" THEN op ELSE NoAccess
<1>1. Tame("timer", w) /\ (at = "timer" => w = op)
  BY DEF Tame, NoAccess
<1>2. TimerEdge(w) \/ (at # "timer" /\ UNCHANGED timerVars)
  BY DEF Edge
<1>3. /\ timer_status \in [wdt: BOOLEAN, cmp: SUBSET Channel, cap: SUBSET Channel]
      /\ cmp = [c \in Channel |-> cmp[c]] /\ pwm_period = [c \in Channel |-> pwm_period[c]]
  BY DEF Clearable
<1> HIDE DEF w
<1>4. CASE TimerEdge(w)
  BY <1>1, <1>3, <1>4, TimerEdgeQuiets
<1>5. CASE at # "timer" /\ UNCHANGED timerVars
  BY <1>5 DEF timerVars
<1> QED BY <1>2, <1>4, <1>5

LEMMA EdgeUartQuiets ==
  ASSUME Clearable, NEW at, NEW step, NEW op, NEW fast, NEW rx, NEW in,
         Edge(at, step, op, fast, rx, in), Tame(at, op)
  PROVE  LET writes(reg) == at = "uart" /\ op.reg = reg IN
         /\ ~uart_ctrl.enable \/ writes("CTRL") => ~uart_ctrl'.enable
         /\ ~idle_cfg \/ writes("IDLE_CFG") => ~idle_cfg'
         /\ ~uart_ctrl.enable => Hushed(writes("IRQ_STATUS"), writes("LIN_CMD"))
<1> DEFINE w == IF at = "uart" THEN op ELSE NoAccess
<1>1. Tame("uart", w) /\ (at = "uart" => w = op)
  BY DEF Tame, NoAccess
<1>2. (\E tick, over : UartEdge(w, rx, tick, over)) \/ (at # "uart" /\ UNCHANGED uartVars)
  BY DEF Edge
<1>3. uart_irq \subseteq UartIrqAll /\ uart_status \subseteq Sticky
  BY DEF Clearable, Sticky
<1> HIDE DEF w
<1>4. ASSUME NEW tick, NEW over, UartEdge(w, rx, tick, over)
      PROVE  /\ ~uart_ctrl.enable \/ w.reg = "CTRL" => ~uart_ctrl'.enable
             /\ ~idle_cfg \/ w.reg = "IDLE_CFG" => ~idle_cfg'
             /\ ~uart_ctrl.enable => Hushed(w.reg = "IRQ_STATUS", w.reg = "LIN_CMD")
  BY <1>1, <1>3, <1>4, UartEdgeQuiets
<1>5. CASE at # "uart" /\ UNCHANGED uartVars
  BY <1>5 DEF uartVars, rxVars, txVars, Hushed
<1>6. CASE \E tick, over : UartEdge(w, rx, tick, over)
  <2>1. CASE at = "uart"
    BY <1>1, <1>4, <1>6, <2>1
  <2>2. CASE at # "uart"
    <3>1. w.reg \notin {"CTRL", "IDLE_CFG", "IRQ_STATUS", "LIN_CMD"}
      BY <2>2 DEF w, NoAccess
    <3> QED BY <1>4, <1>6, <2>2, <3>1 DEF Hushed
  <2> QED BY <2>1, <2>2
<1> QED BY <1>2, <1>5, <1>6

LEMMA EdgeOthersQuiet ==
  ASSUME Clearable, NEW at, NEW step, NEW op, NEW fast, NEW rx, NEW in,
         Edge(at, step, op, fast, rx, in), Tame(at, op)
  PROVE  LET writes(unit, reg) == at = unit /\ op.reg = reg IN
         /\ ctrl = {} \/ writes("can", "CTRL") => ctrl' = {}
         /\ irq_en = {} \/ writes("can", "IRQ_EN") => irq_en' = {}
         /\ irq_status = {} \/ writes("can", "IRQ_STATUS") => irq_status' = {}
         /\ rx_tail = rx_head \/ writes("can", "RX_FIFO") => rx_tail' = rx_head'
         /\ ~spi_ctrl.enable \/ writes("spi", "CTRL") => ~spi_ctrl'.enable
         /\ ~i2c_ctrl.enable \/ writes("i2c", "CTRL") => ~i2c_ctrl'.enable
         /\ ~ctrl_enable \/ writes("adc", "CTRL") => ~ctrl_enable'
         /\ DOMAIN irq_mask' = DOMAIN irq_mask
         /\ \A u \in DOMAIN irq_mask :
              irq_mask[u] = {} \/ writes(u, "IRQ_EN") => irq_mask'[u] = {}
<1> DEFINE For(u) == IF at = u THEN op ELSE NoAccess
<1>1. \A u : Tame(u, For(u)) /\ (at = u => For(u) = op)
  BY DEF Tame, NoAccess
<1>2. /\ CanWrites(For("can"))
      /\ (\E done, miso : SpiEdge(For("spi"), done, miso)) \/ (at # "spi" /\ UNCHANGED spiVars)
      /\ (\E tick, line : I2cEdge(For("i2c"), tick, line)) \/ (at # "i2c" /\ UNCHANGED i2cVars)
      /\ (\E sample : AdcEdge(For("adc"), sample)) \/ (at # "adc" /\ UNCHANGED adcVars)
      /\ OtherMasks(at, op)
  <2>1. CanWrites(For("can")) /\ OtherMasks(at, op)
    BY DEF Edge
  <2>2. (\E done, miso : SpiEdge(For("spi"), done, miso)) \/ (at # "spi" /\ UNCHANGED spiVars)
    BY DEF Edge
  <2>3. (\E tick, line : I2cEdge(For("i2c"), tick, line)) \/ (at # "i2c" /\ UNCHANGED i2cVars)
    <3>1. I2cEdge(For("i2c"), fast, TRUE) \/ (at # "i2c" /\ UNCHANGED i2cVars)
      BY DEF Edge
    <3> QED BY <3>1, Zenon
  <2>4. (\E sample : AdcEdge(For("adc"), sample)) \/ (at # "adc" /\ UNCHANGED adcVars)
    BY DEF Edge
  <2> QED BY <2>1, <2>2, <2>3, <2>4
<1> HIDE DEF For
<1>3. /\ ctrl = {} \/ (at = "can" /\ op.reg = "CTRL") => ctrl' = {}
      /\ irq_en = {} \/ (at = "can" /\ op.reg = "IRQ_EN") => irq_en' = {}
      /\ irq_status = {} \/ (at = "can" /\ op.reg = "IRQ_STATUS") => irq_status' = {}
      /\ rx_tail = rx_head \/ (at = "can" /\ op.reg = "RX_FIFO") => rx_tail' = rx_head'
  <2>1. irq_status \subseteq CanIrqAll
    BY DEF Clearable
  <2>2. CanWrites(For("can")) /\ Tame("can", For("can")) /\ (at = "can" => For("can") = op)
    BY <1>1, <1>2
  <2> DEFINE w == For("can")
  <2> HIDE DEF w
  <2> QED BY <2>1, <2>2, CanEdgeQuiets
<1>4. ~spi_ctrl.enable \/ (at = "spi" /\ op.reg = "CTRL") => ~spi_ctrl'.enable
  BY <1>1, <1>2 DEF SpiEdge, Registers, Tame, spiVars
<1>5. ~i2c_ctrl.enable \/ (at = "i2c" /\ op.reg = "CTRL") => ~i2c_ctrl'.enable
  BY <1>1, <1>2 DEF I2cEdge, I2cRegisters, Tame, i2cVars
<1>6. ~ctrl_enable \/ (at = "adc" /\ op.reg = "CTRL") => ~ctrl_enable'
  BY <1>1, <1>2 DEF AdcEdge, AdcRegisters, Tame, adcVars
<1>7. /\ DOMAIN irq_mask' = DOMAIN irq_mask
      /\ \A u \in DOMAIN irq_mask :
           irq_mask[u] = {} \/ (at = u /\ op.reg = "IRQ_EN") => irq_mask'[u] = {}
  BY <1>2 DEF OtherMasks, Tame
<1> QED BY <1>3, <1>4, <1>5, <1>6, <1>7

\* A step of qar_sdk_init that is made, or was made before and whose work has lasted
Lands(s, at, op) ==
  \A u, reg : Wrote(s, u, reg) =>
    /\ u = at /\ op.reg = reg
    /\ u = "timer" /\ reg \in {"CMP", "PWM_PERIOD"} => op.ch = s.op.ch
Gated(s) ==
  /\ Wrote(s, "gpio", "IRQ_STATUS") => irq_rise_mask = {} /\ irq_fall_mask = {}
  /\ Wrote(s, "timer", "STATUS") \/ Wrote(s, "timer", "CMP") => ~timer_ctrl.enable
  /\ Wrote(s, "uart", "IRQ_STATUS") \/ Wrote(s, "uart", "LIN_CMD") => ~uart_ctrl.enable

LEMMA EdgeLasts ==
  ASSUME Clearable, NEW at, NEW step, NEW op, NEW fast, NEW rx, NEW in,
         Edge(at, step, op, fast, rx, in), Tame(at, op),
         NEW s,
         Wrote(s, "timer", "CMP") \/ Wrote(s, "timer", "PWM_PERIOD") => s.op.ch \in Channel,
         Lasts(s) \/ (Lands(s, at, op) /\ Gated(s))
  PROVE  Lasts(s)'
<1> DEFINE writes(unit, reg) == at = unit /\ op.reg = reg
<1>1. \A u, reg : Wrote(s, u, reg) /\ ~Lasts(s) =>
        writes(u, reg) /\ (u = "timer" /\ reg \in {"CMP", "PWM_PERIOD"} => op.ch = s.op.ch)
  BY DEF Lands
<1>2. ~Lasts(s) => Gated(s)
  OBVIOUS
<1>3. /\ Wrote(s, "gpio", "DIR") => gpio_dir' = {}
      /\ Wrote(s, "gpio", "OUT") => gpio_out_reg' = {}
      /\ Wrote(s, "gpio", "ALT_PWM") => alt_pwm_sel' = {}
      /\ Wrote(s, "gpio", "IRQ_RISE") => irq_rise_mask' = {}
      /\ Wrote(s, "gpio", "IRQ_FALL") => irq_fall_mask' = {}
      /\ Wrote(s, "gpio", "DB_EN") => debounce_enable' = {}
  BY <1>1, EdgeGpioQuiets DEF Lasts
<1>4. Wrote(s, "gpio", "IRQ_STATUS") =>
        gpio_irq' = {} /\ irq_rise_mask' = {} /\ irq_fall_mask' = {}
  BY <1>1, <1>2, EdgeGpioQuiets DEF Lasts, Gated
<1>5. /\ Wrote(s, "timer", "CTRL") => ~timer_ctrl'.enable
      /\ Wrote(s, "timer", "STATUS") =>
           ~timer_ctrl'.enable /\ timer_status' = [wdt |-> FALSE, cmp |-> {}, cap |-> {}]
      /\ Wrote(s, "timer", "CMP") => ~timer_ctrl'.enable /\ cmp'[s.op.ch] = 0
      /\ Wrote(s, "timer", "PWM_PERIOD") => pwm_period'[s.op.ch] = 0
      /\ Wrote(s, "timer", "WDT_CTRL") => ~wdt_enable'
  BY <1>1, <1>2, EdgeTimerQuiets DEF Lasts, Gated
<1>6. /\ Wrote(s, "uart", "CTRL") => ~uart_ctrl'.enable
      /\ Wrote(s, "uart", "IDLE_CFG") => ~idle_cfg'
      /\ Wrote(s, "uart", "IRQ_STATUS") =>
           /\ ~uart_ctrl'.enable /\ uart_irq' = {} /\ uart_status' \subseteq {"break"}
           /\ tx_bits_remaining' = 0 /\ ~rx_busy'
      /\ Wrote(s, "uart", "LIN_CMD") => ~uart_ctrl'.enable /\ "break" \notin uart_status'
  BY <1>1, <1>2, EdgeUartQuiets DEF Lasts, Gated, Hushed
<1>7. /\ Wrote(s, "can", "CTRL") => ctrl' = {}
      /\ Wrote(s, "can", "IRQ_EN") => irq_en' = {}
      /\ Wrote(s, "can", "IRQ_STATUS") => irq_status' = {}
      /\ Wrote(s, "can", "RX_FIFO") => rx_tail' = rx_head'
      /\ Wrote(s, "spi", "CTRL") => ~spi_ctrl'.enable
      /\ Wrote(s, "i2c", "CTRL") => ~i2c_ctrl'.enable
      /\ Wrote(s, "adc", "CTRL") => ~ctrl_enable'
      /\ \A u \in DOMAIN irq_mask' : Wrote(s, u, "IRQ_EN") => irq_mask'[u] = {}
  BY <1>1, EdgeOthersQuiet DEF Lasts
<1> QED BY <1>3, <1>4, <1>5, <1>6, <1>7 DEF Lasts

\* The registers stay clearable, whatever a program writes.
LEMMA EdgeClearable ==
  ASSUME Clearable, NEW at, NEW step, NEW op, NEW fast, NEW rx, NEW in,
         Edge(at, step, op, fast, rx, in), Within(at, op.reg, op.value)
  PROVE  Clearable'
<1> DEFINE For(u) == IF at = u THEN op ELSE NoAccess
<1>1. \A u : Within(u, For(u).reg, For(u).value)
  BY DEF Within, NoAccess
<1>2. /\ DOMAIN irq_mask' = {"gpio", "timer", "uart", "spi", "i2c", "adc"}
      /\ irq_mask'["uart"] \subseteq UartIrqAll
  BY DEF Clearable, Edge, OtherMasks, Within
<1>3. uart_irq' \subseteq UartIrqAll
  <2>1. (\E tick, over : UartIrq(For("uart"), rx, tick, over)) \/ uart_irq' = uart_irq
    BY DEF Edge, UartEdge, uartVars
  <2>2. ASSUME NEW w, NEW tick, NEW over, UartIrq(w, rx, tick, over)
        PROVE  uart_irq' \subseteq UartIrqAll
    BY <2>2 DEF UartIrq, Clearable, UartIrqAll
  <2> HIDE DEF For
  <2> QED BY <2>1, <2>2 DEF Clearable
<1>4. irq_en' \subseteq CanIrqAll /\ irq_status' \subseteq CanIrqAll /\ rx_head' \in Nat
  <2> DEFINE w == For("can")
  <2>1. CanWrites(w) /\ Within("can", w.reg, w.value)
    BY <1>1 DEF Edge
  <2> HIDE DEF w
  <2>2. irq_en \subseteq CanIrqAll /\ irq_status \subseteq CanIrqAll /\ rx_head \in Nat
    BY DEF Clearable
  <2>3. CASE w.reg = "TX_CMD"
    <3>1. TxCmd \/ UNCHANGED canVars
      BY <2>1, <2>3 DEF CanWrites
    <3>2. irq_en' = irq_en
      BY <3>1 DEF TxCmd, canVars
    <3>3. irq_status' \subseteq irq_status \cup {"tx", "rx", "ovf"}
      BY <3>1 DEF TxCmd, canVars, flagVars
    <3>4. rx_head' = rx_head \/ rx_head' = (rx_head + 1) % 8
      BY <3>1 DEF TxCmd, PTR_SPAN, canVars, fifoVars
    <3>5. rx_head' \in Nat
      BY <2>2, <3>4
    <3> QED BY <2>2, <3>2, <3>3, <3>5 DEF CanIrqAll
  <2>4. CASE w.reg # "TX_CMD"
    <3> USE DEF CanWrites, canVars, flagVars, fifoVars, SetCtrl, SetIrqEn, Acknowledge,
            SetFilterId, SetFilterMask, SetMailbox, FifoControl
    <3>1. irq_en' \subseteq CanIrqAll
      BY <2>1, <2>2, <2>4 DEF Within
    <3>2. irq_status' \subseteq CanIrqAll
      BY <2>1, <2>2, <2>4
    <3>3. rx_head' \in Nat
      BY <2>1, <2>2, <2>4
    <3> QED BY <3>1, <3>2, <3>3
  <2> QED BY <2>3, <2>4
<1>5. gpio_irq' \subseteq Pin /\ last_input' \subseteq Pin /\ debounced_input' \subseteq Pin
  <2>1. (\E w, pwm : Events(w) /\ Debounce(in, pwm)) \/ UNCHANGED gpioVars
    BY DEF Edge, GpioEdge
  <2>2. ASSUME NEW w, NEW pwm, Events(w), Debounce(in, pwm)
        PROVE  gpio_irq' \subseteq Pin /\ last_input' \subseteq Pin /\ debounced_input' \subseteq Pin
    <3>1. irq_events \subseteq Pin /\ filtered_input_only \subseteq Pin
      BY DEF irq_events, rising_edges, falling_edges, filtered_input_only, Clearable
    <3> QED BY <2>2, <3>1 DEF Events, Debounce, Clearable
  <2> QED BY <2>1, <2>2 DEF gpioVars, Clearable
<1>6. /\ timer_status' \in [wdt: BOOLEAN, cmp: SUBSET Channel, cap: SUBSET Channel]
      /\ cmp' = [c \in Channel |-> cmp'[c]] /\ pwm_period' = [c \in Channel |-> pwm_period'[c]]
  <2> DEFINE w == For("timer")
  <2>1. (TimerEdge(w) \/ UNCHANGED timerVars) /\ Within("timer", w.reg, w.value)
    BY <1>1 DEF Edge
  <2> HIDE DEF w
  <2>2. /\ timer_status \in [wdt: BOOLEAN, cmp: SUBSET Channel, cap: SUBSET Channel]
        /\ cmp = [c \in Channel |-> cmp[c]] /\ pwm_period = [c \in Channel |-> pwm_period[c]]
    BY DEF Clearable
  <2>3. CASE UNCHANGED timerVars
    BY <2>2, <2>3 DEF timerVars
  <2>4. CASE TimerEdge(w)
    <3>1. cmp' = [c \in Channel |-> cmp'[c]]
      BY <2>4 DEF TimerEdge, Compare
    <3>2. pwm_period' = [c \in Channel |-> pwm_period'[c]]
      BY <2>2, <2>4 DEF TimerEdge, Pwm, SetChannel
    <3> DEFINE e == Expired(w)
               a == (IF w.reg = "STATUS" THEN timer_status.cmp \ w.value.cmp ELSE timer_status.cmp)
                      \cup {c \in Channel : TimerMatches(c)}
               b == (IF w.reg = "STATUS" THEN timer_status.cap \ w.value.cap ELSE timer_status.cap)
                      \cup (IF w.reg = "CAPTURE_CTRL" THEN w.value ELSE {})
    <3>3. timer_status' = [wdt |-> e, cmp |-> a, cap |-> b]
      BY <2>4 DEF TimerEdge, Status
    <3>4. a \subseteq Channel /\ b \subseteq Channel
      <4>1. timer_status.cmp \subseteq Channel /\ timer_status.cap \subseteq Channel
        BY <2>2
      <4>2. w.reg = "CAPTURE_CTRL" => w.value \subseteq Channel
        BY <2>1, FirmwareAssumption DEF Within
      <4> QED BY <4>1, <4>2
    <3>5. e \in BOOLEAN
      BY Zenon DEF Expired
    <3> HIDE DEF a, b, e
    <3>6. timer_status' \in [wdt: BOOLEAN, cmp: SUBSET Channel, cap: SUBSET Channel]
      BY <3>3, <3>4, <3>5
    <3> QED BY <3>1, <3>2, <3>6
  <2> QED BY <2>1, <2>3, <2>4
<1>7. uart_status' \subseteq Sticky
  <2>1. (\E tick, over : UartStatus(For("uart"), rx, tick, over)) \/ uart_status' = uart_status
    BY DEF Edge, UartEdge, uartVars
  <2>2. ASSUME NEW w, NEW tick, NEW over, UartStatus(w, rx, tick, over)
        PROVE  uart_status' \subseteq Sticky
    BY <2>2 DEF UartStatus, Clearable, Sticky
  <2> HIDE DEF For
  <2> QED BY <2>1, <2>2 DEF Clearable, Sticky
<1> QED BY <1>2, <1>3, <1>4, <1>5, <1>6, <1>7 DEF Clearable, Sticky

--------------------------------------------------------------------------------
(* From the start of qar_sdk_init to main() *)

\* What a program writes
LEMMA AccessWithin ==
  ASSUME ControlInv, Loaded, Running
  PROVE  Within(Now.at, Access(Now).reg, Access(Now).value)
<1>1. CASE mepc = 0
  <2>1. Now = Text[demo][pc] /\ pc \in 1 .. Len(Text[demo]) /\ Plain(Now) /\ demo \in DOMAIN Text
    BY <1>1, MainStep DEF Running
  <2>2. CASE Now.step = "put"
    BY <2>1, <2>2 DEF Plain, Access
  <2>3. CASE Now.step = "store"
    <3>1. Now.reg = "IRQ_EN" /\ Within(Now.at, "IRQ_EN", Now.set)
      BY <2>1, <2>3 DEF Plain
    <3>2. StoreDue(Now.at)
      BY <1>1, <2>1, <2>3 DEF StoreDue, Resume
    <3>3. /\ Now.at = "uart" => acc \subseteq UartIrqAll
          /\ Now.at = "can" => acc \subseteq CanIrqAll
      BY <3>2 DEF Loaded
    <3>4. Access(Now) = [reg |-> "IRQ_EN", value |-> (acc \cup Now.set) \ Now.clear]
      BY <2>3, <3>1 DEF Access
    <3> QED BY <3>1, <3>3, <3>4 DEF Within
  <2>4. CASE Now.step \notin {"put", "store"}
    <3>1. Access(Now).reg \notin {"IRQ_EN", "CAPTURE_CTRL"}
      BY <2>4 DEF Access, NoAccess
    <3> QED BY <3>1 DEF Within
  <2> QED BY <2>2, <2>3, <2>4
<1>2. CASE mepc # 0
  <2>1. pc \in 1 .. 4
    BY <1>2, HandlerStep
  <2>2. CASE pc \in {2, 4}
    BY <1>2, <2>2, HandlerStep DEF Within
  <2>3. CASE pc \in {1, 3}
    BY <1>2, <2>3, HandlerStep DEF Within, NoAccess
  <2> QED BY <2>1, <2>2, <2>3
<1> QED BY <1>1, <1>2

LEMMA NoStoreFirst ==
  ASSUME NEW d \in DOMAIN Text, NEW p \in {1, MainAt}, p <= Len(Text[d])
  PROVE  Text[d][p].step # "store"
<1>1. Fit(Text[d], Besides(d)) /\ Len(Text[d]) \in Nat
  BY TextFit, TextParts
<1>2. 1 <= Len(Text[d]) => ~Leans(Text[d][1])
  BY <1>1 DEF Fit
<1> QED BY <1>2, AtMain DEF Leans

LEMMA LoadedStep ==
  ASSUME ControlInv, Clearable, Loaded, [FirmwareNext]_firmwareVars
  PROVE  Loaded'
<1>1. ASSUME NEW fast, NEW rx, NEW in, Execute(fast, rx, in) PROVE Loaded'
  <2>1. /\ Running /\ pc' = NextPc(Now) /\ demo' = demo
        /\ mepc' = IF Now.step = "mret" THEN 0 ELSE mepc
        /\ acc' = CASE Now.step = "load" -> Flags(Now) [] Now.step = "store" -> {} [] OTHER -> acc
    BY <1>1 DEF Execute
  <2>2. CASE mepc = 0
    <3>1. Plain(Now) /\ mepc' = 0
      BY <2>1, <2>2, MainStep DEF Plain
    <3>2. ASSUME NEW at \in {"uart", "can"}, StoreDue(at)'
          PROVE  acc' \subseteq IF at = "uart" THEN UartIrqAll ELSE CanIrqAll
      <4>1. /\ pc' \in 1 .. Len(Text[demo]) /\ Text[demo][pc'].step = "store"
            /\ Text[demo][pc'].at = at
        BY <2>1, <3>1, <3>2 DEF StoreDue, Resume
      <4>2. pc' <= Len(Text[demo])
        <5>1. Len(Text[demo]) \in Nat
          BY <2>1, TextParts DEF Running
        <5> QED BY <4>1, <5>1
      <4>3. Now.step = "load" /\ Now.at = at
        BY <2>1, <2>2, <4>1, <4>2, MainStep DEF Leans, Readies
      <4>4. acc' = Flags(Now) /\ Now.reg = "IRQ_EN"
        BY <2>1, <3>1, <4>3 DEF Plain
      <4>5. Flags(Now) = IF at = "can" THEN irq_en ELSE irq_mask["uart"]
        BY <4>3, <4>4 DEF Flags
      <4> QED BY <4>4, <4>5 DEF Clearable
    <3> QED BY <3>2 DEF Loaded
  <2>3. CASE mepc # 0
    <3>1. Now.step \notin {"load", "store"} /\ (Now.step = "mret" => pc' = mepc)
      BY <2>1, <2>3, HandlerStep
    <3>2. acc' = acc /\ Resume' = Resume
      BY <2>1, <2>3, <3>1 DEF Resume
    <3> QED BY <2>1, <3>2 DEF Loaded, StoreDue
  <2> QED BY <2>2, <2>3
<1>2. ASSUME NEW fast, NEW rx, NEW in, Interrupt(fast, rx, in) PROVE Loaded'
  <2>1. MainAt \in Nat \ {0}
    <3>1. "isr" \in DOMAIN Text
      BY DEF Text, Program
    <3> QED BY <3>1, AtMain
  <2>2. mepc = 0 /\ mepc' = pc /\ pc # 0 /\ acc' = acc /\ demo' = demo
    BY <1>2, <2>1 DEF Interrupt, Strikes, ControlInv
  <2>3. Resume' = Resume
    BY <2>2 DEF Resume
  <2> QED BY <2>2, <2>3 DEF Loaded, StoreDue
<1>3. ASSUME NEW fast, NEW rx, NEW in, Boot(fast, rx, in) PROVE Loaded'
  <2>1. pc' \in {1, MainAt} /\ mepc' = 0 /\ demo' = demo /\ demo \in DOMAIN Text
    BY <1>3 DEF Boot
  <2>2. \A at : ~StoreDue(at)'
    <3> SUFFICES ASSUME NEW at, StoreDue(at)' PROVE FALSE
      OBVIOUS
    <3>1. pc' \in 1 .. Len(Text[demo]) /\ Text[demo][pc'].step = "store"
      BY <2>1 DEF StoreDue, Resume
    <3>2. Len(Text[demo]) \in Nat
      BY <2>1, TextParts
    <3> QED BY <2>1, <3>1, <3>2, NoStoreFirst
  <2> QED BY <2>2 DEF Loaded
<1>4. ASSUME NEW fast, NEW rx, NEW in, Restart(fast, rx, in) PROVE Loaded'
  <2>1. pc' = 0 /\ mepc' = 0
    BY <1>4 DEF Restart, Restartable, ControlInv
  <2> QED BY <2>1 DEF Loaded, StoreDue, Resume
<1>5. ASSUME UNCHANGED <<programVars, demo>> PROVE Loaded'
  BY <1>5 DEF Loaded, StoreDue, Resume, programVars
<1> QED BY <1>1, <1>2, <1>3, <1>4, <1>5, FirmwareSteps DEF Compute, Echo, firmwareVars

\* A text that no jump leads back to the start of
Onward(s) == \A i \in 1 .. Len(s) : \A j \in Targets(s[i], i) : j > 1

LEMMA ConcatOnward ==
  ASSUME NEW s, NEW t, NEW may, Fit(s, {}), Len(s) > 0, Fit(t, may)
  PROVE  Onward(s \o t)
<1> DEFINE u == s \o t
           m == Len(s)
           n == Len(t)
<1>1. /\ m \in Nat /\ n \in Nat /\ Len(u) = m + n
      /\ \A i \in 1 .. m + n : u[i] = IF i <= m THEN s[i] ELSE t[i - m]
  BY Concat DEF Fit
<1>2. /\ \A i \in 1 .. m : Allowed(s[i], {})
      /\ \A i \in 1 .. n : Plain(t[i]) /\ \A j \in Targets(t[i], i) : j \in 1 .. n + 1
  BY DEF Fit
<1>3. m > 0
  OBVIOUS
<1> HIDE DEF u, m, n
<1>4. ASSUME NEW i \in 1 .. m + n, NEW j \in Targets(u[i], i) PROVE j > 1
  <2>1. CASE i <= m
    <3>1. i \in 1 .. m /\ u[i] = s[i]
      BY <1>1, <2>1
    <3> QED BY <1>2, <1>4, <3>1 DEF Targets, Allowed
  <2>2. CASE ~(i <= m)
    <3> DEFINE k == i - m
    <3>1. k \in 1 .. n /\ u[i] = t[k]
      BY <1>1, <2>2
    <3> DEFINE by == t[k].by
    <3>2. t[k].step \in {"jump", "unless"} /\ j = i + by
      BY <1>4, <3>1 DEF Targets
    <3>3. by \in Int /\ k + by \in 1 .. n + 1
      BY <1>2, <3>1, <3>2 DEF Targets, Plain
    <3> HIDE DEF by
    <3> QED BY <1>1, <1>3, <3>2, <3>3
  <2> QED BY <2>1, <2>2
<1> QED BY <1>1, <1>4 DEF Onward, u

\* The loops of the two programs that have one come after their start.
LEMMA LoopsOnward == Onward(gpio_irq_demo) /\ Onward(timer_pwm_demo)
<1>1. Onward(gpio_irq_demo)
  <2> DEFINE front == qar_gpio_config_dir(LedPins)
                        \o Put("gpio", "ALT_PWM", {0, 1}) \o qar_gpio_write({0, 2} \cap LedPins)
                        \o qar_gpio_config_irq({ButtonPin}, {ButtonPin}, {ButtonPin})
                        \o qar_gpio_config_debounce({ButtonPin}, Window64)
                        \o qar_timer_init(0, {})
             body == qar_gpio_set({0}) \o firmware_delay(BlinkTicks) \o qar_gpio_clear({0})
                       \o qar_gpio_clear_irq({ButtonPin})
             loop == When("gpio", "IRQ_STATUS", {ButtonPin}, body)
                       \o Beat \o firmware_delay(BeatTicks)
  <2>1. gpio_irq_demo = front \o Forever(loop)
    BY DEF gpio_irq_demo
  <2>2. Fit(front, {})
    <3>1. /\ Fit(qar_gpio_config_dir(LedPins), {}) /\ Fit(Put("gpio", "ALT_PWM", {0, 1}), {})
          /\ Fit(qar_gpio_write({0, 2} \cap LedPins), {})
          /\ Fit(qar_gpio_config_irq({ButtonPin}, {ButtonPin}, {ButtonPin}), {})
          /\ Fit(qar_gpio_config_debounce({ButtonPin}, Window64), {})
          /\ Fit(qar_timer_init(0, {}), {})
      BY PutFit, GpioHelpersFit, TimerHelpersFit
    <3> QED BY <3>1, ConcatFit
  <2>3. Len(front) > 0
    BY DEF qar_gpio_config_dir, qar_gpio_write, qar_gpio_config_irq, qar_gpio_config_debounce,
           qar_timer_init, Put
  <2>4. Fit(Forever(loop), Waits)
    <3>1. Fit(body, Waits)
      <4>1. Fit(firmware_delay(BlinkTicks), Waits)
        BY DelayFit, DemoAssumption
      <4> QED BY <4>1, GpioHelpersFit, ConcatFit
    <3> HIDE DEF body
    <3>2. Fit(firmware_delay(BeatTicks), Waits) /\ Fit(Beat, Waits)
      <4>1. Simple([step |-> "beat", at |-> "gpio"])
        BY DEF Simple, Plain
      <4>2. Fit(Beat, Waits)
        BY <4>1, StepFit, Zenon DEF Beat
      <4> QED BY <4>2, DelayFit, DemoAssumption
    <3>3. Fit(loop, Waits)
      BY <3>1, <3>2, WhenFit, ConcatFit DEF Waits
    <3> HIDE DEF loop
    <3> QED BY <3>3, JumpFit DEF Waits
  <2> HIDE DEF front, loop
  <2> QED BY <2>1, <2>2, <2>3, <2>4, ConcatOnward
<1>2. Onward(timer_pwm_demo)
  <2> DEFINE front == Put("gpio", "ALT_PWM", {0, 1})
                        \o qar_timer_init(0, {0, 1})
                        \o pwm_config(PwmTop, PwmTop \div 4, 3 * (PwmTop \div 4))
                        \o capture_start
  <2>1. timer_pwm_demo = front \o Forever(Ramp)
    BY DEF timer_pwm_demo
  <2>2. Fit(front, {})
    <3>1. Fit(pwm_config(PwmTop, PwmTop \div 4, 3 * (PwmTop \div 4)), {})
      BY TimerHelpersFit, ConcatFit DEF pwm_config
    <3>2. Fit(capture_start, {}) /\ Fit(Put("gpio", "ALT_PWM", {0, 1}), {})
      BY PutFit, CaptureFit DEF capture_start
    <3>3. Fit(qar_timer_init(0, {0, 1}), {})
      BY TimerHelpersFit
    <3> QED BY <3>1, <3>2, <3>3, ConcatFit
  <2>3. Len(front) > 0
    BY DEF qar_timer_init, pwm_config, qar_timer_config_pwm, capture_start, PutTo, Put
  <2>4. Fit(Forever(Ramp), Loops)
    BY RampFit, JumpFit DEF Loops
  <2> HIDE DEF front
  <2> QED BY <2>1, <2>2, <2>3, <2>4, ConcatOnward
<1> QED BY <1>1, <1>2

LEMMA ProgramOnward == ASSUME NEW d \in DOMAIN Program PROVE Onward(Program[d])
<1>1. CASE d \in {"gpio", "pwm"}
  BY <1>1, LoopsOnward DEF Program
<1>2. CASE d \notin {"gpio", "pwm"}
  <2>1. Fit(Program[d], {})
    BY <1>2, ProgramFit DEF Besides
  <2> QED BY <2>1 DEF Fit, Allowed, Targets, Onward
<1> QED BY <1>1, <1>2

\* main() does not come back to its first step, nor before it.
LEMMA Onwards ==
  ASSUME ControlInv, Running, mepc = 0, pc >= MainAt
  PROVE  NextPc(Now) > MainAt
<1>1. /\ Now = Text[demo][pc] /\ pc \in 1 .. Len(Text[demo]) /\ demo \in DOMAIN Text
      /\ Plain(Now)
  BY MainStep DEF Running
<1>2. /\ demo \in DOMAIN Program /\ MainAt \in Nat \ {0} /\ Len(Program[demo]) \in Nat
      /\ Len(Text[demo]) = MainAt - 1 + Len(Program[demo])
      /\ Text[demo][pc] = IF pc < MainAt THEN qar_sdk_init[pc] ELSE Program[demo][pc - MainAt + 1]
  <2>1. Len(qar_sdk_init) = MainAt - 1
    BY <1>1, SdkWrites DEF MainAt
  <2> QED BY <1>1, <2>1, TextParts
<1> DEFINE k == pc - MainAt + 1
<1>3. k \in 1 .. Len(Program[demo]) /\ Now = Program[demo][k]
  BY <1>1, <1>2
<1>4. \A j \in Targets(Now, k) : j > 1
  BY <1>2, <1>3, ProgramOnward DEF Onward
<1>5. Now.step # "mret" /\ (Now.step \in {"jump", "unless"} => Now.by \in Int)
  BY <1>1 DEF Plain
<1>6. CASE NextPc(Now) = pc + 1
  BY <1>1, <1>2, <1>6
<1>7. CASE NextPc(Now) # pc + 1
  <2>1. Now.step \in {"jump", "unless"} /\ NextPc(Now) = pc + Now.by
    BY <1>5, <1>7 DEF NextPc
  <2>2. k + Now.by > 1
    BY <1>4, <2>1 DEF Targets
  <2> DEFINE by == Now.by
  <2>3. by \in Int /\ k + by > 1 /\ NextPc(Now) = pc + by
    BY <1>5, <2>1, <2>2
  <2> HIDE DEF by
  <2> QED BY <1>1, <1>2, <2>3
<1> QED BY <1>6, <1>7

\* A step of qar_sdk_init
LEMMA SdkStep ==
  ASSUME ControlInv, Clearable, Loaded, Running, mepc = 0, pc < MainAt,
         \A i \in 1 .. pc - 1 : Lasts(qar_sdk_init[i])
  PROVE  /\ Now = qar_sdk_init[pc] /\ pc \in 1 .. Len(qar_sdk_init)
         /\ NextPc(Now) = pc + 1
         /\ Tame(Now.at, Access(Now))
         /\ Lands(Now, Now.at, Access(Now)) /\ Gated(Now)
<1> DEFINE s == qar_sdk_init
<1>1. /\ Now = Text[demo][pc] /\ pc \in 1 .. Len(Text[demo]) /\ demo \in DOMAIN Text
  BY MainStep DEF Running
<1>2. Now = s[pc] /\ pc \in 1 .. Len(s)
  <2>1. MainAt = Len(s) + 1 /\ Len(s) = 56
    BY SdkWrites DEF MainAt
  <2>2. Text[demo][pc] = s[pc]
    BY <1>1, TextParts
  <2>3. pc \in 1 .. 56
    <3>1. pc \in Nat /\ pc # 0
      BY DEF ControlInv, Running
    <3> QED BY <2>1, <3>1
  <2>4. pc \in 1 .. Len(s)
    BY <2>1, <2>3
  <2> HIDE DEF s
  <2> QED BY ONLY <1>1, <2>2, <2>4
<1>3. Hushes(Now, Now.at) /\ InTurn(s, pc)
  <2>1. (\E at : Hushes(Now, at)) /\ InTurn(s, pc)
    BY <1>2, SdkOrdered DEF Ordered
  <2> QED BY <2>1 DEF Hushes
<1> HIDE DEF s
<1>4. NextPc(Now) = pc + 1
  BY <1>3 DEF Hushes, NextPc
<1>5. Now.step = "store" =>
        /\ Access(Now) = [reg |-> "IRQ_EN", value |-> {}]
        /\ Now.reg = "IRQ_EN" /\ Now.at \in {"uart", "can"}
  <2> SUFFICES ASSUME Now.step = "store"
               PROVE  /\ Access(Now) = [reg |-> "IRQ_EN", value |-> {}]
                      /\ Now.reg = "IRQ_EN" /\ Now.at \in {"uart", "can"}
    OBVIOUS
  <2>1. /\ Now.reg = "IRQ_EN" /\ Now.set = {}
        /\ \/ Now.at = "uart" /\ Now.clear = UartIrqAll
           \/ Now.at = "can" /\ Now.clear = CanIrqAll
    BY <1>3 DEF Hushes
  <2>2. StoreDue(Now.at)
    BY <1>1 DEF StoreDue, Resume
  <2>3. acc \subseteq Now.clear
    BY <2>1, <2>2 DEF Loaded
  <2>4. Access(Now) = [reg |-> Now.reg, value |-> (acc \cup Now.set) \ Now.clear]
    BY DEF Access
  <2>5. (acc \cup Now.set) \ Now.clear = {}
    BY <2>1, <2>3
  <2> QED BY <2>1, <2>4, <2>5
<1>6. Now.step = "put" => Access(Now) = Now.op /\ Tame(Now.at, Now.op)
  BY <1>3 DEF Access, Hushes
<1>7. Now.step = "load" => Access(Now) = NoAccess
  BY DEF Access
<1>8. Now.step \in {"put", "load", "store"}
  BY <1>3 DEF Hushes
<1>9. Tame(Now.at, Access(Now))
  <2>1. \A at \in {"uart", "can"} : Tame(at, [reg |-> "IRQ_EN", value |-> {}])
    BY MaskTame
  <2>2. \A at : Tame(at, NoAccess)
    BY DEF Tame, NoAccess
  <2> QED BY <1>5, <1>6, <1>7, <1>8, <2>1, <2>2
<1>10. Lands(Now, Now.at, Access(Now))
  BY <1>5, <1>6 DEF Lands, Wrote
<1>11. Gated(Now)
  <2>1. \A at, reg : Earlier(s, pc, at, reg) =>
          \E j \in 1 .. pc - 1 : Wrote(s[j], at, reg) /\ Lasts(s[j])
    BY DEF Earlier, s
  <2> QED BY <1>2, <1>3, <2>1 DEF InTurn, Gated, Lasts
<1> QED BY <1>2, <1>4, <1>9, <1>10, <1>11 DEF s

LEMMA SdkChannels ==
  \A i \in 1 .. Len(qar_sdk_init) :
    \/ Wrote(qar_sdk_init[i], "timer", "CMP")
    \/ Wrote(qar_sdk_init[i], "timer", "PWM_PERIOD")
    => qar_sdk_init[i].op.ch \in Channel
<1> TAKE i \in 1 .. Len(qar_sdk_init)
<1> DEFINE s == qar_sdk_init[i]
<1>1. \E at : Hushes(s, at)
  BY SdkOrdered DEF Ordered
<1>2. Channel = TimerChannels
  BY FirmwareAssumption
<1> HIDE DEF s
<1>3. ASSUME Wrote(s, "timer", "CMP") \/ Wrote(s, "timer", "PWM_PERIOD")
      PROVE  s.op.ch \in Channel
  <2>1. Hushes(s, "timer")
    BY <1>1, <1>3 DEF Hushes, Wrote
  <2>2. s.step = "put" /\ s.op.reg \in {"CMP", "PWM_PERIOD"}
    BY <1>3, <2>1 DEF Hushes, Wrote
  <2> QED BY <1>2, <2>1, <2>2 DEF Hushes, Tame
<1> QED BY <1>3 DEF s

\* What an edge without an access does
LEMMA EdgeStill ==
  ASSUME Clearable, NEW fast, NEW rx, NEW in, Edge("none", "none", NoAccess, fast, rx, in)
  PROVE  /\ Clearable'
         /\ \A i \in 1 .. Len(qar_sdk_init) : Lasts(qar_sdk_init[i]) => Lasts(qar_sdk_init[i])'
<1>1. Within("none", NoAccess.reg, NoAccess.value) /\ Tame("none", NoAccess)
  BY DEF Within, Tame, NoAccess
<1>2. Clearable'
  BY <1>1, EdgeClearable
<1>3. ASSUME NEW i \in 1 .. Len(qar_sdk_init), Lasts(qar_sdk_init[i])
      PROVE  Lasts(qar_sdk_init[i])'
  <2>1. \/ Wrote(qar_sdk_init[i], "timer", "CMP")
        \/ Wrote(qar_sdk_init[i], "timer", "PWM_PERIOD")
        => qar_sdk_init[i].op.ch \in Channel
    BY SdkChannels
  <2> QED BY <1>1, <1>3, <2>1, EdgeLasts
<1> QED BY <1>2, <1>3

\* When all steps of qar_sdk_init have been made and last, every peripheral is quiet.
LEMMA AllLasts ==
  ASSUME Clearable, \A i \in 1 .. Len(qar_sdk_init) : Lasts(qar_sdk_init[i])
  PROVE  QuietAtMain
<1> DEFINE s == qar_sdk_init
<1>1. /\ Lasts(s[1]) /\ Lasts(s[2]) /\ Lasts(s[3]) /\ Lasts(s[4]) /\ Lasts(s[7]) /\ Lasts(s[9])
      /\ Lasts(s[11]) /\ Lasts(s[12]) /\ Lasts(s[14]) /\ Lasts(s[16]) /\ Lasts(s[18])
      /\ Lasts(s[20]) /\ Lasts(s[23]) /\ Lasts(s[28]) /\ Lasts(s[32]) /\ Lasts(s[33])
      /\ Lasts(s[34]) /\ Lasts(s[35]) /\ Lasts(s[40]) /\ Lasts(s[41]) /\ Lasts(s[42]) /\ Lasts(s[43])
      /\ Lasts(s[46]) /\ Lasts(s[48]) /\ Lasts(s[50]) /\ Lasts(s[52]) /\ Lasts(s[55])
  BY SdkWrites
<1>2. /\ gpio_dir = {} /\ gpio_out_reg = {} /\ alt_pwm_sel = {} /\ gpio_irq = {}
      /\ irq_rise_mask = {} /\ irq_fall_mask = {} /\ debounce_enable = {}
  <2>1. /\ Wrote(s[1], "gpio", "DIR") /\ Wrote(s[2], "gpio", "OUT")
        /\ Wrote(s[3], "gpio", "ALT_PWM") /\ Wrote(s[7], "gpio", "DB_EN")
        /\ Wrote(s[9], "gpio", "IRQ_STATUS")
    BY SdkWrites
  <2> HIDE DEF s
  <2>2. \A r : Lasts(r) =>
          /\ Wrote(r, "gpio", "DIR") => gpio_dir = {}
          /\ Wrote(r, "gpio", "OUT") => gpio_out_reg = {}
          /\ Wrote(r, "gpio", "ALT_PWM") => alt_pwm_sel = {}
          /\ Wrote(r, "gpio", "DB_EN") => debounce_enable = {}
          /\ Wrote(r, "gpio", "IRQ_STATUS") => gpio_irq = {} /\ irq_rise_mask = {} /\ irq_fall_mask = {}
    BY DEF Lasts
  <2> QED BY <1>1, <2>1, <2>2
<1>3. /\ ~timer_ctrl.enable /\ timer_status = [wdt |-> FALSE, cmp |-> {}, cap |-> {}]
      /\ ~wdt_enable
  <2>1. Wrote(s[12], "timer", "STATUS") /\ Wrote(s[23], "timer", "WDT_CTRL")
    BY SdkWrites
  <2> HIDE DEF s
  <2>2. \A r : Lasts(r) =>
          /\ Wrote(r, "timer", "STATUS") => ~timer_ctrl.enable /\ timer_status = [wdt |-> FALSE, cmp |-> {}, cap |-> {}]
          /\ Wrote(r, "timer", "WDT_CTRL") => ~wdt_enable
    BY DEF Lasts
  <2> QED BY <1>1, <2>1, <2>2
<1>4. cmp[0] = 0 /\ cmp[1] = 0 /\ pwm_period[0] = 0 /\ pwm_period[1] = 0
  <2>1. /\ Wrote(s[14], "timer", "CMP") /\ s[14].op.ch = 0
        /\ Wrote(s[16], "timer", "CMP") /\ s[16].op.ch = 1
        /\ Wrote(s[18], "timer", "PWM_PERIOD") /\ s[18].op.ch = 0
        /\ Wrote(s[20], "timer", "PWM_PERIOD") /\ s[20].op.ch = 1
    BY SdkWrites
  <2> HIDE DEF s
  <2>2. \A r : Lasts(r) =>
          /\ Wrote(r, "timer", "CMP") => cmp[r.op.ch] = 0
          /\ Wrote(r, "timer", "PWM_PERIOD") => pwm_period[r.op.ch] = 0
    BY DEF Lasts
  <2>3. cmp[s[14].op.ch] = 0 /\ cmp[s[16].op.ch] = 0
    BY <1>1, <2>1, <2>2
  <2>4. pwm_period[s[18].op.ch] = 0 /\ pwm_period[s[20].op.ch] = 0
    BY <1>1, <2>1, <2>2
  <2> QED BY <2>1, <2>3, <2>4
<1>5. cmp = Zero /\ pwm_period = Zero
  <2>1. Channel = {0, 1}
    BY FirmwareAssumption DEF TimerChannels
  <2>2. cmp = [c \in Channel |-> cmp[c]] /\ pwm_period = [c \in Channel |-> pwm_period[c]]
    BY DEF Clearable
  <2>3. \A c \in Channel : cmp[c] = 0 /\ pwm_period[c] = 0
    BY <1>4, <2>1
  <2> QED BY <2>2, <2>3 DEF Zero
<1>6. /\ ~uart_ctrl.enable /\ uart_irq = {} /\ uart_status = {} /\ ~idle_cfg
      /\ tx_bits_remaining = 0 /\ ~rx_busy
  <2>1. /\ Wrote(s[28], "uart", "IDLE_CFG") /\ Wrote(s[33], "uart", "IRQ_STATUS")
        /\ Wrote(s[34], "uart", "LIN_CMD")
    BY SdkWrites
  <2> HIDE DEF s
  <2>2. \A r : Lasts(r) =>
          /\ Wrote(r, "uart", "IDLE_CFG") => ~idle_cfg
          /\ Wrote(r, "uart", "IRQ_STATUS") =>
               /\ ~uart_ctrl.enable /\ uart_irq = {} /\ uart_status \subseteq {"break"}
               /\ tx_bits_remaining = 0 /\ ~rx_busy
          /\ Wrote(r, "uart", "LIN_CMD") => "break" \notin uart_status
    BY DEF Lasts
  <2> QED BY <1>1, <2>1, <2>2
<1>7. ctrl = {} /\ irq_en = {} /\ irq_status = {} /\ RxEntries = 0
  <2>1. /\ Wrote(s[35], "can", "CTRL") /\ Wrote(s[40], "can", "IRQ_EN")
        /\ Wrote(s[41], "can", "IRQ_STATUS") /\ Wrote(s[42], "can", "RX_FIFO")
    BY SdkWrites
  <2> HIDE DEF s
  <2>2. \A r : Lasts(r) =>
          /\ Wrote(r, "can", "CTRL") => ctrl = {}
          /\ Wrote(r, "can", "IRQ_EN") => irq_en = {}
          /\ Wrote(r, "can", "IRQ_STATUS") => irq_status = {}
          /\ Wrote(r, "can", "RX_FIFO") => rx_tail = rx_head
    BY DEF Lasts
  <2>3. ctrl = {} /\ irq_en = {} /\ irq_status = {} /\ rx_tail = rx_head
    BY <1>1, <2>1, <2>2
  <2>4. RxEntries = 0
    BY <2>3 DEF RxEntries, PTR_SPAN, Clearable
  <2> QED BY <2>3, <2>4
<1>8. ~spi_ctrl.enable /\ ~i2c_ctrl.enable /\ ~ctrl_enable
  <2>1. /\ Wrote(s[43], "spi", "CTRL") /\ Wrote(s[48], "i2c", "CTRL")
        /\ Wrote(s[52], "adc", "CTRL")
    BY SdkWrites
  <2> HIDE DEF s
  <2>2. \A r : Lasts(r) =>
          /\ Wrote(r, "spi", "CTRL") => ~spi_ctrl.enable
          /\ Wrote(r, "i2c", "CTRL") => ~i2c_ctrl.enable
          /\ Wrote(r, "adc", "CTRL") => ~ctrl_enable
    BY DEF Lasts
  <2> QED BY <1>1, <2>1, <2>2
<1>9. \A u \in DOMAIN irq_mask : irq_mask[u] = {}
  <2>1. /\ Wrote(s[4], "gpio", "IRQ_EN") /\ Wrote(s[11], "timer", "IRQ_EN")
        /\ Wrote(s[32], "uart", "IRQ_EN") /\ Wrote(s[46], "spi", "IRQ_EN")
        /\ Wrote(s[50], "i2c", "IRQ_EN") /\ Wrote(s[55], "adc", "IRQ_EN")
    BY SdkWrites
  <2>2. DOMAIN irq_mask = {"gpio", "timer", "uart", "spi", "i2c", "adc"}
    BY DEF Clearable
  <2> HIDE DEF s
  <2>3. \A r, u : Lasts(r) /\ u \in DOMAIN irq_mask /\ Wrote(r, u, "IRQ_EN") => irq_mask[u] = {}
    BY DEF Lasts
  <2> QED BY <1>1, <2>1, <2>2, <2>3
<1> QED BY <1>2, <1>3, <1>5, <1>6, <1>7, <1>8, <1>9 DEF QuietAtMain

LEMMA InitInvQuiets == InitInv => InitQuiets
<1> SUFFICES ASSUME InitInv, pc = MainAt, mepc = 0, inited PROVE QuietAtMain
  BY DEF InitQuiets
<1>1. Clearable
  BY DEF InitInv
<1>2. \A i \in 1 .. Len(qar_sdk_init) : Lasts(qar_sdk_init[i])
  <2>1. MainAt = Len(qar_sdk_init) + 1 /\ Len(qar_sdk_init) = 56
    BY SdkWrites DEF MainAt
  <2>2. pc <= MainAt /\ pc - 1 = Len(qar_sdk_init)
    BY <2>1
  <2>3. \A i \in 1 .. pc - 1 : Lasts(qar_sdk_init[i])
    BY <2>2 DEF InitInv
  <2> QED BY <2>2, <2>3
<1> QED BY <1>1, <1>2, AllLasts

LEMMA InitInvInit == FirmwareInit => InitInv
<1> SUFFICES ASSUME FirmwareInit PROVE InitInv
  OBVIOUS
<1>1. ControlInv /\ pc = 0 /\ mepc = 0 /\ inited = FALSE /\ acc = {}
  BY DEF FirmwareInit, ControlInv
<1>2. Loaded
  BY <1>1 DEF Loaded
<1>3. Clearable
  <2>1. /\ irq_mask = [u \in {"gpio", "timer", "uart", "spi", "i2c", "adc"} |-> {}]
        /\ uart_irq = {} /\ uart_status = {} /\ irq_en = {} /\ irq_status = {} /\ rx_head = 0
        /\ gpio_irq = {} /\ last_input = {} /\ debounced_input = {}
    BY DEF FirmwareInit, UartInit, CanInit, GpioInit
  <2>2. timer_status = [wdt |-> FALSE, cmp |-> {}, cap |-> {}] /\ cmp = Zero /\ pwm_period = Zero
    BY DEF FirmwareInit, TimerInit
  <2>3. timer_status \in [wdt: BOOLEAN, cmp: SUBSET Channel, cap: SUBSET Channel]
    BY <2>2
  <2>4. cmp = [c \in Channel |-> cmp[c]] /\ pwm_period = [c \in Channel |-> pwm_period[c]]
    BY <2>2 DEF Zero
  <2> QED BY <2>1, <2>3, <2>4 DEF Clearable
<1> QED BY <1>1, <1>2, <1>3 DEF InitInv

LEMMA InitInvStep ==
  ASSUME InitInv, [FirmwareNext]_firmwareVars
  PROVE  InitInv'
<1>0. ControlInv /\ ControlInv' /\ Clearable /\ Loaded /\ Loaded'
  BY ControlStep, LoadedStep DEF InitInv
<1>1. MainAt = 57 /\ Len(qar_sdk_init) = 56
  BY SdkWrites DEF MainAt
<1>2. ASSUME NEW fast, NEW rx, NEW in, Execute(fast, rx, in) PROVE InitInv'
  <2>1. /\ Running /\ Edge(Now.at, Now.step, Access(Now), fast, rx, in)
        /\ pc' = NextPc(Now) /\ demo' = demo /\ inited' = inited
        /\ mepc' = IF Now.step = "mret" THEN 0 ELSE mepc
    BY <1>2 DEF Execute
  <2>2. Clearable'
    BY <1>0, <2>1, AccessWithin, EdgeClearable
  <2>3. CASE mepc # 0
    <3>1. inited => mepc > MainAt
      BY <2>3 DEF InitInv
    <3>2. mepc' = mepc \/ (mepc' = 0 /\ pc' = mepc)
      BY <1>0, <2>1, <2>3, HandlerStep
    <3>3. mepc \in Nat
      BY <1>0 DEF ControlInv
    <3> QED BY <1>0, <1>1, <2>1, <2>2, <2>3, <3>1, <3>2, <3>3 DEF InitInv
  <2>4. CASE mepc = 0
    <3>1. mepc' = 0 /\ pc \in Nat
      BY <1>0, <2>1, <2>4, MainStep DEF Plain, ControlInv
    <3>2. ASSUME inited, pc' <= MainAt, NEW i \in 1 .. pc' - 1 PROVE Lasts(qar_sdk_init[i])'
      <4>1. pc < MainAt
        <5>1. pc >= MainAt => pc' > MainAt
          BY <1>0, <2>1, <2>4, Onwards
        <5>2. pc' \in Nat
          BY <1>0 DEF ControlInv
        <5> QED BY <1>1, <3>1, <3>2, <5>1, <5>2
      <4>2. \A j \in 1 .. pc - 1 : Lasts(qar_sdk_init[j])
        BY <1>1, <2>4, <3>1, <3>2, <4>1 DEF InitInv
      <4>3. /\ Now = qar_sdk_init[pc] /\ pc' = pc + 1
            /\ Tame(Now.at, Access(Now)) /\ Lands(Now, Now.at, Access(Now)) /\ Gated(Now)
        BY <1>0, <2>1, <2>4, <4>1, <4>2, SdkStep
      <4>4. i \in 1 .. pc /\ i \in 1 .. Len(qar_sdk_init)
        BY <1>1, <3>1, <4>1, <4>3
      <4>5. \/ Lasts(qar_sdk_init[i])
            \/ Lands(qar_sdk_init[i], Now.at, Access(Now)) /\ Gated(qar_sdk_init[i])
        BY <3>1, <4>2, <4>3, <4>4
      <4> DEFINE s == qar_sdk_init[i]
                 op == Access(Now)
      <4>6. Wrote(s, "timer", "CMP") \/ Wrote(s, "timer", "PWM_PERIOD") => s.op.ch \in Channel
        BY <4>4, SdkChannels
      <4>7. Edge(Now.at, Now.step, op, fast, rx, in) /\ Tame(Now.at, op)
        BY <2>1, <4>3
      <4> HIDE DEF op
      <4>8. Lasts(s) \/ (Lands(s, Now.at, op) /\ Gated(s))
        BY <4>5 DEF op
      <4> QED BY <1>0, <4>6, <4>7, <4>8, EdgeLasts
    <3> QED BY <1>0, <2>1, <2>2, <3>1, <3>2 DEF InitInv
  <2> QED BY <2>3, <2>4
<1>3. ASSUME NEW fast, NEW rx, NEW in, Interrupt(fast, rx, in) PROVE InitInv'
  <2>1. /\ Edge("none", "none", NoAccess, fast, rx, in) /\ demo' = demo /\ inited' = inited
        /\ mepc = 0 /\ pc >= MainAt /\ mepc' = pc /\ irq_mask["uart"] # {} /\ pc \in Nat
    BY <1>0, <1>3 DEF Interrupt, Strikes, ControlInv
  <2>2. inited => pc # MainAt
    <3> SUFFICES ASSUME inited, pc = MainAt PROVE FALSE
      OBVIOUS
    <3>1. InitQuiets
      BY InitInvQuiets
    <3>2. \A u \in DOMAIN irq_mask : irq_mask[u] = {}
      BY <2>1, <3>1 DEF InitQuiets, QuietAtMain
    <3>3. "uart" \in DOMAIN irq_mask
      BY <1>0 DEF Clearable
    <3> QED BY <2>1, <3>2, <3>3
  <2>3. Clearable'
    BY <1>0, <2>1, EdgeStill
  <2> QED BY <1>0, <1>1, <2>1, <2>2, <2>3 DEF InitInv
<1>4. ASSUME NEW fast, NEW rx, NEW in, Boot(fast, rx, in) PROVE InitInv'
  <2>1. /\ Edge("none", "none", NoAccess, fast, rx, in) /\ demo' = demo /\ demo \in DOMAIN Text
        /\ mepc' = 0 /\ (inited' => pc' = 1)
    BY <1>4 DEF Boot
  <2>2. Clearable'
    BY <1>0, <2>1, EdgeStill
  <2>3. inited' => 1 .. pc' - 1 = {}
    BY <2>1
  <2> QED BY <1>0, <2>1, <2>2, <2>3 DEF InitInv
<1>5. ASSUME NEW fast, NEW rx, NEW in, Compute(fast, rx, in) PROVE InitInv'
  <2>1. /\ Edge("none", "none", NoAccess, fast, rx, in) /\ demo' = demo /\ inited' = inited
        /\ pc' = pc /\ mepc' = mepc /\ pc \in Nat
    BY <1>0, <1>5 DEF Compute, programVars, ControlInv
  <2>2. Clearable' /\ \A i \in 1 .. 56 : Lasts(qar_sdk_init[i]) => Lasts(qar_sdk_init[i])'
    BY <1>0, <1>1, <2>1, EdgeStill
  <2>3. pc <= MainAt => \A i \in 1 .. pc - 1 : i \in 1 .. 56
    BY <1>1, <2>1
  <2> QED BY <1>0, <2>1, <2>2, <2>3 DEF InitInv
<1>6. ASSUME NEW fast, NEW rx, NEW in, Restart(fast, rx, in) PROVE InitInv'
  <2>1. /\ Edge("none", "none", NoAccess, fast, rx, in) /\ demo' = demo /\ inited' = inited
        /\ pc' = 0 /\ mepc' = 0
    BY <1>0, <1>6 DEF Restart, Restartable, ControlInv
  <2>2. Clearable'
    BY <1>0, <2>1, EdgeStill
  <2>3. 1 .. pc' - 1 = {}
    BY <2>1
  <2> QED BY <1>0, <2>1, <2>2, <2>3 DEF InitInv
<1>7. ASSUME NEW fast, Echo(fast) PROVE InitInv'
  <2>1. "echo" \notin DOMAIN Text
    BY DEF Text, Program
  <2>2. /\ ~inited /\ inited' = inited /\ UNCHANGED <<irq_mask, canVars, uartVars, timerVars, gpioVars>>
    BY <1>7, <2>1 DEF Echo, InitInv
  <2>3. Clearable'
    BY <1>0, <2>2 DEF Clearable, canVars, fifoVars, flagVars, uartVars, timerVars, gpioVars
  <2> QED BY <1>0, <2>2, <2>3 DEF InitInv
<1>8. ASSUME UNCHANGED firmwareVars PROVE InitInv'
  <2>1. /\ UNCHANGED <<pc, mepc, demo, inited>>
        /\ UNCHANGED <<irq_mask, canVars, uartVars, timerVars, gpioVars>>
        /\ UNCHANGED <<spiVars, i2cVars, adcVars>>
    BY <1>8 DEF firmwareVars, programVars, echoVars
  <2>2. Clearable'
    BY <1>0, <2>1 DEF Clearable, canVars, fifoVars, flagVars, uartVars, timerVars, gpioVars
  <2>3. \A s : Lasts(s) => Lasts(s)'
    BY <2>1 DEF Lasts, canVars, fifoVars, flagVars, uartVars, txVars, rxVars, timerVars, gpioVars,
                spiVars, i2cVars, adcVars
  <2> QED BY <1>0, <2>1, <2>2, <2>3 DEF InitInv
<1> QED BY <1>2, <1>3, <1>4, <1>5, <1>6, <1>7, <1>8, FirmwareSteps

\* devkit/sdk/hal_init.c, qar_sdk_init: a start-up that calls the constructors hands main()
\* quiet peripherals, whatever an earlier program left in them and whatever happens on the
\* pins and the line between its writes.
THEOREM InitIsQuiet == FirmwareSpec => []InitQuiets
<1>1. FirmwareInit => InitInv
  BY InitInvInit
<1>2. InitInv /\ [FirmwareNext]_firmwareVars => InitInv'
  BY InitInvStep
<1> QED BY <1>1, <1>2, InitInvQuiets, PTL DEF FirmwareSpec

--------------------------------------------------------------------------------
(* The commands of i2c_loopback *)

\* What the I2C master does at an edge of i2c_loopback
LEMMA EdgeBus ==
  ASSUME demo = "i2c", NEW at, NEW step, NEW op, NEW fast, NEW rx, NEW in,
         Edge(at, step, op, fast, rx, in)
  PROVE  /\ I2cEdge(IF at = "i2c" THEN op ELSE NoAccess, fast, TRUE)
         /\ served' = IF Taken = "none" THEN served
                      ELSE Append(served, <<Taken, IF Taken = "WRITE" THEN NextByte ELSE {}>>)
<1>1. "i2c" \in Uses["i2c"]
  BY DEF Uses
<1> QED BY <1>1 DEF Edge, Histories

\* The beginnings of a sequence
LEMMA Prefixes ==
  ASSUME NEW e, IsSeq(e)
  PROVE  /\ SubSeq(e, 1, 0) = <<>> /\ SubSeq(e, 1, Len(e)) = e /\ Len(e) \in Nat
         /\ \A n \in 0 .. Len(e) : Len(SubSeq(e, 1, n)) = n
         /\ \A n \in 0 .. Len(e) - 1 :
              Append(SubSeq(e, 1, n), e[n + 1]) = SubSeq(e, 1, n + 1)
<1>1. PICK S : e \in Seq(S)
  BY DEF IsSeq
<1> DEFINE l == Len(e)
<1>2. l \in Nat /\ \A i \in 1 .. l : e[i] \in S
  BY <1>1, LenProperties, ElementOfSeq
<1>3. SubSeq(e, 1, 0) = <<>>
  BY SubSeqEmpty
<1>4. ASSUME NEW n \in 0 .. l
      PROVE  /\ SubSeq(e, 1, n) \in Seq(S) /\ Len(SubSeq(e, 1, n)) = n
             /\ \A i \in 1 .. n : SubSeq(e, 1, n)[i] = e[i]
  <2>1. n \in Int /\ 1 \in Int /\ \A i \in 1 .. n : e[i] \in S
    BY <1>2
  <2>2. /\ SubSeq(e, 1, n) \in Seq(S) /\ Len(SubSeq(e, 1, n)) = IF 1 <= n THEN n - 1 + 1 ELSE 0
        /\ \A i \in 1 .. n - 1 + 1 : SubSeq(e, 1, n)[i] = e[1 + i - 1]
    BY <2>1, SubSeqProperties
  <2>3. n - 1 + 1 = n /\ \A i \in 1 .. n : 1 + i - 1 = i
    OBVIOUS
  <2> QED BY <2>2, <2>3
<1>5. SubSeq(e, 1, l) = e
  <2>1. l \in 0 .. l
    BY <1>2
  <2> DEFINE t == SubSeq(e, 1, l)
  <2>2. t \in Seq(S) /\ Len(t) = Len(e) /\ \A i \in 1 .. Len(e) : t[i] = e[i]
    BY <1>4, <2>1
  <2> HIDE DEF t
  <2>3. t = e
    BY <1>1, <2>2, SeqEqual
  <2> QED BY <2>3 DEF t
<1>6. ASSUME NEW n \in 0 .. l - 1
      PROVE  Append(SubSeq(e, 1, n), e[n + 1]) = SubSeq(e, 1, n + 1)
  <2> DEFINE s == SubSeq(e, 1, n)
             t == SubSeq(e, 1, n + 1)
  <2>1. /\ s \in Seq(S) /\ Len(s) = n /\ \A i \in 1 .. n : s[i] = e[i]
        /\ t \in Seq(S) /\ Len(t) = n + 1 /\ \A i \in 1 .. n + 1 : t[i] = e[i]
    <3>1. n \in 0 .. l /\ n + 1 \in 0 .. l
      BY <1>2
    <3> QED BY <1>4, <3>1
  <2>2. e[n + 1] \in S
    BY <1>2
  <2> HIDE DEF s, t
  <2>3. /\ Append(s, e[n + 1]) \in Seq(S) /\ Len(Append(s, e[n + 1])) = n + 1
        /\ \A i \in 1 .. n : Append(s, e[n + 1])[i] = s[i]
        /\ Append(s, e[n + 1])[n + 1] = e[n + 1]
    BY <2>1, <2>2, AppendProperties
  <2>4. Append(s, e[n + 1]) = t
    BY <2>1, <2>3, SeqEqual
  <2> QED BY <2>4 DEF s, t
<1> QED BY <1>2, <1>3, <1>4, <1>5, <1>6

LEMMA MessageParts ==
  /\ Len(Message) = 4
  /\ Message[1] = <<"START", {}>> /\ Message[2] = <<"WRITE", I2cAddress>>
  /\ Message[3] = <<"WRITE", I2cPayload>> /\ Message[4] = <<"STOP", {}>>
  /\ SubSeq(Message, 1, 4) = Message /\ SubSeq(Message, 1, 0) = <<>>
  /\ \A n \in 0 .. 4 : Len(SubSeq(Message, 1, n)) = n
  /\ \A n \in 0 .. 3 : Append(SubSeq(Message, 1, n), Message[n + 1]) = SubSeq(Message, 1, n + 1)
<1> DEFINE m == Message
<1>1. /\ m \in Seq(Cmd \X SUBSET Nat) /\ Len(m) = 4
      /\ m[1] = <<"START", {}>> /\ m[2] = <<"WRITE", I2cAddress>>
      /\ m[3] = <<"WRITE", I2cPayload>> /\ m[4] = <<"STOP", {}>>
  BY DEF Message, Cmd, I2cAddress, I2cPayload
<1> HIDE DEF m
<1>2. IsSeq(m) /\ 4 - 1 = 3
  BY <1>1 DEF IsSeq
<1>3. /\ SubSeq(m, 1, 4) = m /\ SubSeq(m, 1, 0) = <<>>
      /\ \A n \in 0 .. 4 : Len(SubSeq(m, 1, n)) = n
      /\ \A n \in 0 .. 3 : Append(SubSeq(m, 1, n), m[n + 1]) = SubSeq(m, 1, n + 1)
  BY <1>1, <1>2, Prefixes
<1> QED BY <1>1, <1>3 DEF m

\* The command that the engine takes is the one that waits, and the byte of a WRITE is the
\* message's.
LEMMA BusTakes ==
  ASSUME NEW k \in 0 .. 4, NEW h \in 0 .. 2, k > 0 => h = 2, Bus(k, h)
  PROVE  /\ Taken \in {"none"} \cup cmd_reg
         /\ Taken # "none" =>
              /\ state = "IDLE" /\ k > 0 /\ Len(served) = k - 1 /\ Taken = Message[k][1]
              /\ Message[k] = <<Taken, IF Taken = "WRITE" THEN NextByte ELSE {}>>
              /\ Taken = "WRITE" => k \in {2, 3} /\ i2c_tx_tail = k - 2
<1> DEFINE n == Len(served)
<1>1. Taken \in {"none"} \cup cmd_reg /\ (Taken # "none" => state = "IDLE")
  BY DEF Taken
<1>2. SUFFICES ASSUME Taken # "none"
               PROVE  /\ state = "IDLE" /\ k > 0 /\ n = k - 1 /\ Taken = Message[k][1]
                      /\ Message[k] = <<Taken, IF Taken = "WRITE" THEN NextByte ELSE {}>>
                      /\ Taken = "WRITE" => k \in {2, 3} /\ i2c_tx_tail = k - 2
  BY <1>1
<1>3. n \in 0 .. 4 /\ n = k - 1 /\ Taken = Message[k][1] /\ k \in 1 .. 4 /\ h = 2
  BY <1>1, <1>2 DEF Bus
<1>4. 0 % I2cDepth = 0 /\ 1 % I2cDepth = 1
  <2>1. I2cDepth \in Nat \ {0} /\ 0 \in 0 .. I2cDepth - 1 /\ 1 \in 0 .. I2cDepth - 1
    BY I2cAssumption
  <2> QED BY <2>1, SmallRemainder
<1>5. CASE k = 1
  BY <1>1, <1>2, <1>3, <1>5, MessageParts
<1>6. CASE k = 2
  <2>1. i2c_tx_tail = 0 /\ i2c_tx[0] = I2cAddress /\ Taken = "WRITE"
    BY <1>3, <1>6, MessageParts DEF Bus
  <2> QED BY <1>1, <1>2, <1>3, <1>4, <1>6, <2>1, MessageParts DEF NextByte
<1>7. CASE k = 3
  <2>1. i2c_tx_tail = 1 /\ i2c_tx[1] = I2cPayload /\ Taken = "WRITE"
    BY <1>3, <1>7, MessageParts DEF Bus
  <2> QED BY <1>1, <1>2, <1>3, <1>4, <1>7, <2>1, MessageParts DEF NextByte
<1>8. CASE k = 4
  BY <1>1, <1>2, <1>3, <1>8, MessageParts
<1> QED BY <1>3, <1>5, <1>6, <1>7, <1>8

\* An edge serves a command that waits, or none; a command or a byte joins those given.
LEMMA BusStep ==
  ASSUME demo = "i2c", NEW k \in 0 .. 4, NEW h \in 0 .. 2, k > 0 => h = 2, Bus(k, h),
         NEW at, NEW step, NEW op, NEW fast, NEW rx, NEW in, Edge(at, step, op, fast, rx, in),
         NEW w, w = IF at = "i2c" THEN op ELSE NoAccess
  PROVE  /\ w.reg \notin {"CMD", "TXDATA"} => Bus(k, h)'
         /\ /\ w.reg = "CMD" /\ k < 4 /\ h = 2 /\ Len(served) = k
            /\ w.value = {Message[k + 1][1]}
            => Bus(k + 1, h)'
         /\ /\ w.reg = "TXDATA" /\ k = 0 /\ h < 2
            /\ w.value = IF h = 0 THEN I2cAddress ELSE I2cPayload
            => Bus(k, h + 1)'
         /\ Len(served') >= Len(served)
         /\ cmd_reg = {} /\ state = "IDLE" => state' = "IDLE"
<1> DEFINE n == Len(served)
           m == Len(served')
<1>1. /\ Taken \in {"none"} \cup cmd_reg
      /\ Taken # "none" => state = "IDLE" /\ k > 0 /\ n = k - 1 /\ Taken = Message[k][1]
      /\ Taken = "WRITE" => k \in {2, 3} /\ i2c_tx_tail = k - 2
  BY BusTakes
<1>2. /\ I2cEdge(w, fast, TRUE)
      /\ served' = IF Taken = "none" THEN served
                   ELSE Append(served, <<Taken, IF Taken = "WRITE" THEN NextByte ELSE {}>>)
  BY EdgeBus
<1>3. n \in 0 .. 4 /\ n \in {k - 1, k}
  BY DEF Bus
<1>4. served = SubSeq(Message, 1, n)
  BY DEF Bus
<1>5. Taken # "none" => k > 0 /\ n = k - 1
  BY <1>1
<1> HIDE DEF n
<1>6. /\ m = IF Taken = "none" THEN n ELSE n + 1
      /\ m \in 0 .. 4 /\ served' = SubSeq(Message, 1, m)
  <2>1. CASE Taken = "none"
    BY <1>2, <1>3, <1>4, <2>1 DEF n
  <2>2. CASE Taken # "none"
    <3>1. n \in 0 .. 3 /\ n + 1 = k
      BY <1>3, <1>5, <2>2
    <3>2. Message[k] = <<Taken, IF Taken = "WRITE" THEN NextByte ELSE {}>>
      BY <2>2, BusTakes
    <3>3. served' = Append(served, Message[n + 1])
      BY <1>2, <2>2, <3>1, <3>2, Zenon
    <3>4. served' = SubSeq(Message, 1, n + 1)
      <4>1. Append(SubSeq(Message, 1, n), Message[n + 1]) = SubSeq(Message, 1, n + 1)
        BY <3>1, MessageParts
      <4> QED BY <1>4, <3>3, <4>1, Zenon
    <3>5. Len(SubSeq(Message, 1, n + 1)) = n + 1
      BY <3>1, MessageParts
    <3> QED BY <2>2, <3>1, <3>4, <3>5
  <2> QED BY <2>1, <2>2
<1>7. m = IF Taken = "none" THEN n ELSE n + 1
  BY <1>6
<1> HIDE DEF m
<1>8. m \in {k - 1, k} /\ n <= m
  BY <1>3, <1>5, <1>7
<1>9. cmd_reg' = (IF w.reg = "CMD" THEN w.value ELSE cmd_reg) \ {Taken}
  BY <1>2 DEF I2cEdge, I2cRegisters
<1>10. w.reg # "CMD" => cmd_reg' = IF m = k THEN {} ELSE {Message[k][1]}
  <2>1. cmd_reg = IF n = k THEN {} ELSE {Message[k][1]}
    BY DEF Bus, n
  <2>2. k \in 1 .. 4 => Message[k][1] # "none"
    BY MessageParts
  <2> QED BY <1>1, <1>3, <1>9, <1>5, <1>7, <2>1, <2>2
<1>11. n = k => Taken = "none"
  BY <1>1
<1>12. w.reg = "CMD" /\ k < 4 /\ n = k /\ w.value = {Message[k + 1][1]} =>
        m = k /\ cmd_reg' = {Message[k + 1][1]}
  <2>1. k < 4 => Message[k + 1][1] # "none"
    BY MessageParts
  <2> QED BY <1>6, <1>9, <1>11, <2>1
<1>13. /\ w.reg # "TXDATA" => i2c_tx' = i2c_tx /\ i2c_tx_head' = i2c_tx_head
      /\ i2c_tx_tail' = IF m <= 1 THEN 0 ELSE IF m = 2 THEN 1 ELSE 2
  <2>1. i2c_tx_tail' = IF Taken = "WRITE" THEN NextPtr(i2c_tx_tail) ELSE i2c_tx_tail
    BY <1>2 DEF I2cEdge, I2cQueues
  <2>2. NextPtr(0) = 1 /\ NextPtr(1) = 2
    <3>1. I2cSpan \in Nat \ {0} /\ 1 \in 0 .. I2cSpan - 1 /\ 2 \in 0 .. I2cSpan - 1
      BY I2cAssumption DEF I2cSpan
    <3>2. 1 % I2cSpan = 1 /\ 2 % I2cSpan = 2
      BY <3>1, SmallRemainder
    <3> QED BY <3>2 DEF NextPtr
  <2>3. i2c_tx_tail = IF n <= 1 THEN 0 ELSE IF n = 2 THEN 1 ELSE 2
    BY DEF Bus, n
  <2>4. Taken = "WRITE" => k \in {2, 3} /\ n = k - 1
    BY <1>1, <1>5
  <2>5. Taken \notin {"none", "WRITE"} => n \in {0, 3}
    <3>1. Taken # "none" /\ k \in {2, 3} => Taken = "WRITE"
      <4>1. Message[2][1] = "WRITE" /\ Message[3][1] = "WRITE"
        BY MessageParts
      <4> QED BY <1>1, <4>1
    <3> QED BY <1>3, <1>5, <3>1
  <2>6. w.reg # "TXDATA" => i2c_tx' = i2c_tx /\ i2c_tx_head' = i2c_tx_head
    BY <1>2 DEF I2cEdge, I2cQueues, I2cPush
  <2> QED BY <1>3, <1>7, <2>1, <2>2, <2>3, <2>4, <2>5, <2>6
<1>14. /\ Taken = "none" /\ state = "IDLE" => state' = "IDLE" /\ scl_state' /\ sda_state'
       /\ Taken = "STOP" => state' = "STOP"
  <2>1. state = "IDLE" => AtIdle
    BY <1>2 DEF I2cEdge, Engine, AtCondition, AtWrite, AtAck, AtRead
  <2>2. Taken = "STOP" => state = "IDLE"
    BY <1>1
  <2>3. AtIdle /\ Taken = "none" => state' = "IDLE"
    BY DEF AtIdle, StateOf
  <2>4. AtIdle /\ Taken = "none" => scl_state'
    <3> DEFINE up == Taken \notin {"WRITE", "READ"}
    <3>1. Taken = "none" => up = TRUE
      OBVIOUS
    <3>2. AtIdle => scl_state' = up
      BY DEF AtIdle
    <3> HIDE DEF up
    <3> QED BY <3>1, <3>2
  <2>5. AtIdle /\ Taken = "none" => sda_state'
    <3> DEFINE up == Taken \notin {"START", "STOP"} /\ (Taken = "WRITE" => Bits - 1 \in NextByte)
    <3>1. Taken = "none" => up = TRUE
      OBVIOUS
    <3>2. AtIdle => sda_state' = up
      BY DEF AtIdle
    <3> HIDE DEF up
    <3> QED BY <3>1, <3>2
  <2>6. AtIdle /\ Taken = "STOP" => state' = "STOP"
    BY DEF AtIdle, StateOf
  <2> QED BY <2>1, <2>2, <2>3, <2>6, <2>5, <2>4
<1>15. state = "STOP" => state' = "STOP" \/ (state' = "IDLE" /\ scl_state' /\ sda_state')
  BY <1>2 DEF I2cEdge, Engine, engineVars, AtIdle, AtCondition, AtWrite, AtAck, AtRead
<1>16. m = 4 => state' = "STOP" \/ (state' = "IDLE" /\ scl_state' /\ sda_state')
  <2>1. CASE n = 4
    <3>1. k = 4 /\ (state = "STOP" \/ state = "IDLE")
      BY <1>3, <2>1 DEF Bus, n
    <3> QED BY <1>11, <1>14, <1>15, <2>1, <3>1
  <2>2. CASE n # 4 /\ m = 4
    <3>1. Taken # "none" /\ k = 4
      BY <1>3, <1>6, <1>8, <2>2
    <3>2. Taken = "STOP"
      BY <1>1, <3>1, MessageParts
    <3> QED BY <1>14, <3>2
  <2> QED BY <2>1, <2>2
<1>17. /\ i2c_tx = [r \in I2cRow |-> i2c_tx[r]] /\ i2c_tx_head = h
       /\ h > 0 => i2c_tx[0] = I2cAddress
       /\ h > 1 => i2c_tx[1] = I2cPayload
  BY DEF Bus
<1>18. /\ w.reg = "TXDATA" /\ k = 0 /\ h < 2
       /\ w.value = IF h = 0 THEN I2cAddress ELSE I2cPayload
       => /\ i2c_tx' = [r \in I2cRow |-> i2c_tx'[r]] /\ i2c_tx_head' = h + 1
          /\ i2c_tx'[0] = I2cAddress
          /\ h = 1 => i2c_tx'[1] = I2cPayload
  <2> SUFFICES ASSUME w.reg = "TXDATA", k = 0, h < 2,
                      w.value = IF h = 0 THEN I2cAddress ELSE I2cPayload
               PROVE  /\ i2c_tx' = [r \in I2cRow |-> i2c_tx'[r]] /\ i2c_tx_head' = h + 1
                      /\ i2c_tx'[0] = I2cAddress
                      /\ h = 1 => i2c_tx'[1] = I2cPayload
    OBVIOUS
  <2>1. I2cDepth \in Nat \ {0, 1} /\ h \in {0, 1}
    BY I2cAssumption
  <2>2. h % I2cDepth = h /\ NextPtr(h) = h + 1
    <3>1. I2cDepth \in Nat \ {0} /\ h \in 0 .. I2cDepth - 1
      BY <2>1
    <3>2. I2cSpan \in Nat \ {0} /\ h + 1 \in 0 .. I2cSpan - 1
      BY <2>1 DEF I2cSpan
    <3>3. h % I2cDepth = h /\ (h + 1) % I2cSpan = h + 1
      BY <3>1, <3>2, SmallRemainder
    <3> QED BY <3>3 DEF NextPtr
  <2>3. i2c_tx_tail = 0
    BY <1>3 DEF Bus, n
  <2>4. I2cPush(w)
    BY <1>17, <2>1, <2>3 DEF I2cPush, i2c_tx_full
  <2>5. /\ i2c_tx' = [i2c_tx EXCEPT ![h % I2cDepth] = w.value] /\ i2c_tx_head' = NextPtr(h)
    BY <1>2, <1>17, <2>4 DEF I2cEdge, I2cQueues
  <2>6. i2c_tx' = [i2c_tx EXCEPT ![h] = w.value] /\ i2c_tx_head' = h + 1
    BY <2>2, <2>5
  <2>7. 0 \in I2cRow /\ 1 \in I2cRow
    BY <2>1 DEF I2cRow
  <2>8. \A f, v : f = [r \in I2cRow |-> f[r]] =>
          [f EXCEPT ![h] = v] = [r \in I2cRow |-> IF r = h THEN v ELSE f[r]]
    BY <2>1, <2>7
  <2>9. i2c_tx' = [r \in I2cRow |-> IF r = h THEN w.value ELSE i2c_tx[r]]
    BY <1>17, <2>6, <2>8
  <2> QED BY <1>17, <2>1, <2>6, <2>7, <2>9
<1>19. w.reg \notin {"CMD", "TXDATA"} => Bus(k, h)'
  BY <1>6, <1>8, <1>10, <1>13, <1>16, <1>17 DEF Bus, m, n
<1>20. w.reg = "CMD" /\ k < 4 /\ h = 2 /\ n = k /\ w.value = {Message[k + 1][1]} => Bus(k + 1, h)'
  BY <1>6, <1>8, <1>12, <1>13, <1>16, <1>17 DEF Bus, m, n
<1>21. /\ w.reg = "TXDATA" /\ k = 0 /\ h < 2
       /\ w.value = IF h = 0 THEN I2cAddress ELSE I2cPayload
       => Bus(k, h + 1)'
  BY <1>6, <1>8, <1>10, <1>13, <1>16, <1>18 DEF Bus, m, n
<1>22. cmd_reg = {} /\ state = "IDLE" => state' = "IDLE"
  BY <1>14, <1>1
<1> QED BY <1>8, <1>19, <1>20, <1>21, <1>22 DEF m, n

\* The steps of i2c_loopback: bytes and commands in the order of the message, and after
\* each command a poll until the engine has taken it.
Issues(s, i, cmd) ==
  /\ s[i] = [step |-> "put", at |-> "i2c", op |-> [reg |-> "CMD", value |-> {cmd}]]
  /\ s[i + 1] = [step |-> "while", at |-> "i2c", reg |-> "CMD", flags |-> {cmd}]

LEMMA IssueParts ==
  ASSUME NEW cmd
  PROVE  IsSeq(Issue(cmd)) /\ Len(Issue(cmd)) = 2 /\ Issues(Issue(cmd), 1, cmd)
<1> DEFINE put == [step |-> "put", at |-> "i2c", op |-> [reg |-> "CMD", value |-> {cmd}]]
           poll == [step |-> "while", at |-> "i2c", reg |-> "CMD", flags |-> {cmd}]
<1>1. Issue(cmd) = <<put>> \o <<poll>>
  BY DEF Issue, qar_i2c_issue_cmd, wait_cmd_clear, Put, While
<1> HIDE DEF put, poll
<1>2. Issue(cmd) = <<put, poll>>
  BY <1>1, Pair
<1>3. <<put, poll>> \in Seq({put, poll})
  OBVIOUS
<1>4. Len(Issue(cmd)) = 2 /\ Issue(cmd)[1] = put /\ Issue(cmd)[2] = poll
  BY <1>2
<1>5. IsSeq(Issue(cmd))
  BY <1>2, <1>3 DEF IsSeq
<1>6. 1 + 1 = 2
  OBVIOUS
<1>7. Issues(Issue(cmd), 1, cmd)
  BY <1>4, <1>6, Zenon DEF Issues, put, poll
<1> QED BY <1>4, <1>5, <1>7

LEMMA I2cSteps ==
  LET s == i2c_loopback IN
  /\ IsSeq(s) /\ Len(s) = 15
  /\ \A i \in 1 .. 3 : s[i].step = "put" /\ s[i].op.reg \in {"CLKDIV", "CTRL"}
  /\ s[4] = [step |-> "put", at |-> "i2c", op |-> [reg |-> "TXDATA", value |-> I2cAddress]]
  /\ s[5] = [step |-> "put", at |-> "i2c", op |-> [reg |-> "TXDATA", value |-> I2cPayload]]
  /\ Issues(s, 6, "START") /\ Issues(s, 8, "WRITE") /\ Issues(s, 10, "WRITE")
  /\ Issues(s, 12, "STOP")
  /\ s[14] = [step |-> "while", at |-> "i2c", reg |-> "STATUS", flags |-> {"busy"}]
  /\ s[15].step = "get"
<1> DEFINE p == qar_i2c_init \o Put("i2c", "CTRL", [enable |-> TRUE, loopback |-> TRUE])
                  \o qar_i2c_stage_tx(I2cAddress) \o qar_i2c_stage_tx(I2cPayload)
           a == Issue("START")
           b == Issue("WRITE")
           c == Issue("STOP")
           w == <<[step |-> "while", at |-> "i2c", reg |-> "STATUS", flags |-> {"busy"}]>>
           g == <<[step |-> "get", at |-> "i2c", reg |-> "STATUS"]>>
           s1 == p \o a
           s2 == s1 \o b
           s3 == s2 \o b
           s4 == s3 \o c
           s5 == s4 \o w
<1>1. /\ IsSeq(p) /\ Len(p) = 5
      /\ \A i \in 1 .. 3 : p[i].step = "put" /\ p[i].op.reg \in {"CLKDIV", "CTRL"}
      /\ p[4] = [step |-> "put", at |-> "i2c", op |-> [reg |-> "TXDATA", value |-> I2cAddress]]
      /\ p[5] = [step |-> "put", at |-> "i2c", op |-> [reg |-> "TXDATA", value |-> I2cPayload]]
  <2>1. \A at, reg, value : IsSeq(Put(at, reg, value))
    <3>1. \A r : <<r>> \in Seq({r})
      OBVIOUS
    <3>2. \A r : IsSeq(<<r>>)
      BY <3>1 DEF IsSeq
    <3> QED BY <3>2 DEF Put
  <2>2. IsSeq(p)
    BY <2>1, Joins DEF Joined, qar_i2c_init, qar_i2c_stage_tx
  <2> QED BY SMTT(30), <2>2 DEF qar_i2c_init, qar_i2c_stage_tx, Put
<1>2. /\ IsSeq(a) /\ IsSeq(b) /\ IsSeq(c) /\ Len(a) = 2 /\ Len(b) = 2 /\ Len(c) = 2
      /\ Issues(a, 1, "START") /\ Issues(b, 1, "WRITE") /\ Issues(c, 1, "STOP")
  BY IssueParts
<1>3. /\ IsSeq(w) /\ IsSeq(g) /\ Len(w) = 1 /\ Len(g) = 1
      /\ w[1] = [step |-> "while", at |-> "i2c", reg |-> "STATUS", flags |-> {"busy"}]
      /\ g[1].step = "get"
  <2>1. \A r : <<r>> \in Seq({r})
    OBVIOUS
  <2> QED BY <2>1 DEF IsSeq
<1>4. i2c_loopback = s5 \o g
  BY DEF i2c_loopback, wait_idle, While, Get
<1> HIDE DEF p, a, b, c, w, g
<1>5. Joined(s1, p, a)
  BY <1>1, <1>2, Joins
<1> HIDE DEF s1
<1>6. Joined(s2, s1, b)
  BY <1>2, <1>5, Joins DEF Joined
<1> HIDE DEF s2
<1>7. Joined(s3, s2, b)
  BY <1>2, <1>6, Joins DEF Joined
<1> HIDE DEF s3
<1>8. Joined(s4, s3, c)
  BY <1>2, <1>7, Joins DEF Joined
<1> HIDE DEF s4
<1>9. Joined(s5, s4, w)
  BY <1>3, <1>8, Joins DEF Joined
<1> HIDE DEF s5
<1> DEFINE s == i2c_loopback
<1>10. Joined(s, s5, g)
  BY <1>3, <1>4, <1>9, Joins DEF Joined
<1> HIDE DEF s
<1>11. /\ \A i \in 1 .. 5 : s[i] = p[i]
       /\ s[6] = a[1] /\ s[7] = a[2] /\ s[8] = b[1] /\ s[9] = b[2] /\ s[10] = b[1] /\ s[11] = b[2]
       /\ s[12] = c[1] /\ s[13] = c[2] /\ s[14] = w[1] /\ s[15] = g[1]
       /\ IsSeq(s) /\ Len(s) = 15
  BY <1>1, <1>2, <1>3, <1>5, <1>6, <1>7, <1>8, <1>9, <1>10 DEF Joined
<1>12. /\ Issues(s, 6, "START") /\ Issues(s, 8, "WRITE") /\ Issues(s, 10, "WRITE")
       /\ Issues(s, 12, "STOP")
  BY <1>2, <1>11 DEF Issues
<1>13. /\ \A i \in 1 .. 3 : s[i].step = "put" /\ s[i].op.reg \in {"CLKDIV", "CTRL"}
       /\ s[4] = p[4] /\ s[5] = p[5]
  BY <1>1, <1>11
<1> QED BY <1>1, <1>3, <1>11, <1>12, <1>13 DEF s

\* How many commands and bytes have been given depends on where the program is.
LEMMA Counts ==
  ASSUME pc \in Nat
  PROVE  /\ Issued \in 0 .. 4 /\ Staged \in 0 .. 2 /\ (Issued > 0 => Staged = 2)
         /\ MainAt = 57
<1>1. MainAt = 57
  BY SdkWrites DEF MainAt
<1> QED BY <1>1 DEF Issued, Staged

\* The step that a program without an interrupt is at
LEMMA StepHere ==
  ASSUME ControlInv, Running, mepc = 0, NEW d, d = demo, NEW n \in Nat, Len(Program[d]) = n
  PROVE  /\ MainAt = 57 /\ pc \in 1 .. 56 + n
         /\ Place < 0 => \E at : Hushes(Now, at)
         /\ Place >= 0 => Place \in 0 .. n - 1 /\ Now = Program[d][Place + 1]
<1>1. d \in DOMAIN Text /\ MainAt = 57 /\ Now = Text[d][pc] /\ pc \in 1 .. Len(Text[d])
  BY MainStep, SdkWrites DEF Running, MainAt
<1>2. Len(qar_sdk_init) = 56
  BY SdkWrites
<1>3. /\ Len(Text[d]) = 56 + n
      /\ \A i \in 1 .. Len(Text[d]) :
           Text[d][i] = IF i < MainAt THEN qar_sdk_init[i] ELSE Program[d][i - MainAt + 1]
  BY <1>1, <1>2, TextParts
<1>4. pc \in 1 .. 56 + n
  BY <1>1, <1>3
<1>5. Now = IF pc < MainAt THEN qar_sdk_init[pc] ELSE Program[d][pc - MainAt + 1]
  BY <1>1, <1>3
<1>6. ASSUME Place < 0 PROVE \E at : Hushes(Now, at)
  <2>1. pc \in 1 .. 56 /\ pc < MainAt
    BY <1>1, <1>4, <1>6 DEF Place
  <2>2. pc \in 1 .. Len(qar_sdk_init) /\ Now = qar_sdk_init[pc]
    BY <1>2, <1>5, <2>1, Zenon
  <2> QED BY <2>2, SdkOrdered DEF Ordered
<1>7. ASSUME Place >= 0 PROVE Place \in 0 .. n - 1 /\ Now = Program[d][Place + 1]
  <2>1. Place \in 0 .. n - 1 /\ ~(pc < MainAt)
    BY <1>1, <1>4, <1>7 DEF Place
  <2> QED BY <1>5, <2>1 DEF Place
<1> QED BY <1>1, <1>4, <1>6, <1>7

\* A step of the texts of i2c_loopback
LEMMA BusText ==
  ASSUME ControlInv, demo = "i2c", Running
  PROVE  /\ pc \in 1 .. 71
         /\ pc < MainAt => \E at : Hushes(Now, at)
         /\ pc >= MainAt => pc - MainAt \in 0 .. 14 /\ Now = i2c_loopback[pc - MainAt + 1]
<1>1. /\ Program["i2c"] = i2c_loopback /\ Len(i2c_loopback) = 15 /\ mepc = 0
  BY I2cSteps DEF Program, ControlInv
<1>2. PICK d : d = demo
  OBVIOUS
<1>3. Len(Program[d]) = 15 /\ 15 \in Nat
  BY <1>1, <1>2
<1>4. /\ MainAt = 57 /\ pc \in 1 .. 56 + 15
      /\ Place < 0 => \E at : Hushes(Now, at)
      /\ Place >= 0 => Place \in 0 .. 15 - 1 /\ Now = Program[d][Place + 1]
  BY <1>1, <1>2, <1>3, StepHere
<1> QED BY <1>1, <1>2, <1>4 DEF Place

\* What the master sees of a step
Seen(s) == IF s.at = "i2c" THEN Access(s) ELSE NoAccess

\* What a step of i2c_loopback gives the master, and when a poll goes on
LEMMA BusProgram ==
  ASSUME ControlInv, demo = "i2c", Running
  PROVE  /\ pc \in 1 .. 71 /\ MainAt = 57 /\ NextPc(Now) = pc + 1
         /\ pc \notin {60, 61, 62, 64, 66, 68} => Seen(Now).reg \notin {"CMD", "TXDATA"}
         /\ pc = 60 => Seen(Now) = [reg |-> "TXDATA", value |-> I2cAddress]
         /\ pc = 61 => Seen(Now) = [reg |-> "TXDATA", value |-> I2cPayload]
         /\ pc \in {62, 64, 66, 68} =>
              Seen(Now) = [reg |-> "CMD", value |-> {Message[Issued + 1][1]}]
         /\ pc \in {63, 65, 67, 69} /\ GoesOn(Now) => Message[Issued][1] \notin cmd_reg
         /\ pc = 70 /\ GoesOn(Now) => state = "IDLE"
<1>1. MainAt = 57 /\ pc \in 1 .. 71
  BY BusText, Counts
<1> DEFINE s == i2c_loopback
<1>2. pc >= 57 => Now = s[pc - 56]
  <2>1. pc - 57 + 1 = pc - 56
    BY <1>1
  <2> QED BY <1>1, <2>1, BusText
<1>3. \A r, at : Hushes(r, at) => NextPc(r) = pc + 1 /\ Seen(r).reg \notin {"CMD", "TXDATA"}
  BY DEF Hushes, NextPc, Seen, Access, Tame, NoAccess
<1>4. \A r : r.step \in {"put", "get", "while"} => NextPc(r) = pc + 1
  BY DEF NextPc
<1>5. \A op : LET r == [step |-> "put", at |-> "i2c", op |-> op] IN
              NextPc(r) = pc + 1 /\ Seen(r) = op
  BY DEF NextPc, Seen, Access
<1>6. \A reg, flags : LET r == [step |-> "while", at |-> "i2c", reg |-> reg, flags |-> flags] IN
                      /\ NextPc(r) = pc + 1 /\ Seen(r).reg = "none"
                      /\ GoesOn(r) <=> flags \cap Flags(r) = {}
  BY DEF NextPc, Seen, Access, GoesOn, NoAccess
<1>7. \A flags : /\ Flags([step |-> "while", at |-> "i2c", reg |-> "CMD", flags |-> flags]) = cmd_reg
                 /\ Flags([step |-> "while", at |-> "i2c", reg |-> "STATUS", flags |-> flags])
                      = i2c_flags \cup {f \in {"busy"} : state # "IDLE"}
  BY DEF Flags
<1>8. CASE pc < 57
  BY <1>1, <1>3, <1>8, BusText
<1>9. CASE pc \in {57, 58, 59}
  <2>1. Now.step = "put" /\ Now.op.reg \in {"CLKDIV", "CTRL"}
    BY <1>2, <1>9, I2cSteps
  <2>2. Seen(Now).reg \notin {"CMD", "TXDATA"}
    BY <2>1 DEF Seen, Access, NoAccess
  <2> QED BY <1>1, <1>4, <1>9, <2>1, <2>2
<1>10. CASE pc = 60
  BY <1>1, <1>2, <1>5, <1>10, I2cSteps
<1>11. CASE pc = 61
  BY <1>1, <1>2, <1>5, <1>11, I2cSteps
<1>12. CASE pc \in {62, 64, 66, 68}
  <2>1. \E cmd : /\ cmd = Message[Issued + 1][1]
                 /\ Now = [step |-> "put", at |-> "i2c", op |-> [reg |-> "CMD", value |-> {cmd}]]
    <3>1. CASE pc = 62
      BY <1>1, <1>2, <3>1, I2cSteps, MessageParts DEF Issues, Issued
    <3>2. CASE pc = 64
      BY <1>1, <1>2, <3>2, I2cSteps, MessageParts DEF Issues, Issued
    <3>3. CASE pc = 66
      BY <1>1, <1>2, <3>3, I2cSteps, MessageParts DEF Issues, Issued
    <3>4. CASE pc = 68
      BY <1>1, <1>2, <3>4, I2cSteps, MessageParts DEF Issues, Issued
    <3> QED BY <1>12, <3>1, <3>2, <3>3, <3>4
  <2> QED BY <1>1, <1>5, <1>12, <2>1
<1>13. CASE pc \in {63, 65, 67, 69}
  <2>1. \E cmd : /\ cmd = Message[Issued][1]
                 /\ Now = [step |-> "while", at |-> "i2c", reg |-> "CMD", flags |-> {cmd}]
    <3>1. CASE pc = 63
      BY <1>1, <1>2, <3>1, I2cSteps, MessageParts DEF Issues, Issued
    <3>2. CASE pc = 65
      BY <1>1, <1>2, <3>2, I2cSteps, MessageParts DEF Issues, Issued
    <3>3. CASE pc = 67
      BY <1>1, <1>2, <3>3, I2cSteps, MessageParts DEF Issues, Issued
    <3>4. CASE pc = 69
      BY <1>1, <1>2, <3>4, I2cSteps, MessageParts DEF Issues, Issued
    <3> QED BY <1>13, <3>1, <3>2, <3>3, <3>4
  <2>2. NextPc(Now) = pc + 1 /\ Seen(Now).reg = "none"
    BY <1>6, <2>1
  <2>3. GoesOn(Now) => Message[Issued][1] \notin cmd_reg
    BY <1>6, <1>7, <2>1
  <2> QED BY <1>1, <1>13, <2>2, <2>3
<1>14. CASE pc = 70
  <2>1. Now = [step |-> "while", at |-> "i2c", reg |-> "STATUS", flags |-> {"busy"}]
    BY <1>2, <1>14, I2cSteps
  <2>2. GoesOn(Now) => state = "IDLE"
    BY <1>6, <1>7, <2>1
  <2> QED BY <1>1, <1>6, <1>14, <2>1, <2>2
<1>15. CASE pc = 71
  <2>1. Now.step = "get"
    BY <1>2, <1>15, I2cSteps
  <2>2. Seen(Now).reg \notin {"CMD", "TXDATA"}
    BY <2>1 DEF Seen, Access, NoAccess
  <2> QED BY <1>1, <1>4, <1>15, <2>1, <2>2
<1> QED
  BY <1>1, <1>8, <1>9, <1>10, <1>11, <1>12, <1>13, <1>14, <1>15

LEMMA BusInvInit == FirmwareInit => BusInv
<1> SUFFICES ASSUME FirmwareInit PROVE BusInv
  OBVIOUS
<1>1. ControlInv /\ pc = 0 /\ served = <<>> /\ Len(served) = 0
  BY DEF FirmwareInit, ControlInv
<1>2. /\ cmd_reg = {} /\ i2c_tx = [r \in I2cRow |-> i2c_tx[r]]
      /\ i2c_tx_head = 0 /\ i2c_tx_tail = 0
  BY DEF FirmwareInit, I2cInit
<1>3. Issued = 0 /\ Staged = 0 /\ ~SeenTaken /\ ~(pc > MainAt + 13)
  BY <1>1, Counts DEF Issued, Staged, SeenTaken
<1>4. Bus(0, 0)
  BY <1>1, <1>2, MessageParts DEF Bus
<1> QED BY <1>1, <1>3, <1>4 DEF BusInv, Held

\* An edge at which firmware gives nothing, while the program stays or goes on to where it
\* has given as much
LEMMA BusKept ==
  ASSUME BusInv, demo = "i2c", NEW at, NEW step, NEW op, NEW fast, NEW rx, NEW in,
         Edge(at, step, op, fast, rx, in), at = "i2c" => op.reg \notin {"CMD", "TXDATA"},
         pc' \in Nat, Issued' = Issued, Staged' = Staged,
         SeenTaken' => Len(served) = Issued,
         pc' > MainAt + 13 => state = "IDLE" /\ Len(served) = Issued
  PROVE  Held'
<1>1. Issued \in 0 .. 4 /\ Staged \in 0 .. 2 /\ (Issued > 0 => Staged = 2) /\ Bus(Issued, Staged)
  BY Counts DEF BusInv, Held, ControlInv
<1>2. PICK k \in 0 .. 4, h \in 0 .. 2 : k = Issued /\ h = Staged
  BY <1>1
<1> DEFINE w == IF at = "i2c" THEN op ELSE NoAccess
<1>3. Bus(k, h) /\ (k > 0 => h = 2) /\ w.reg \notin {"CMD", "TXDATA"}
  BY <1>1, <1>2 DEF NoAccess
<1>4. PICK v : v = w
  OBVIOUS
<1>5. /\ Bus(k, h)' /\ Len(served') >= Len(served)
      /\ cmd_reg = {} /\ state = "IDLE" => state' = "IDLE"
  BY <1>3, <1>4, BusStep
<1>6. Len(served) \in 0 .. 4 /\ Len(served') \in 0 .. 4 /\ Len(served') <= k
  BY <1>3, <1>5 DEF Bus
<1>7. Len(served) = k => cmd_reg = {}
  BY <1>3 DEF Bus
<1>8. Issued' = k /\ Staged' = h
  BY <1>2
<1>9. Bus(Issued, Staged)'
  BY <1>5, <1>8 DEF Bus
<1>10. SeenTaken' => Len(served)' = Issued'
  BY <1>2, <1>5, <1>6
<1>11. pc' > MainAt' + 13 => state' = "IDLE"
  BY <1>2, <1>5, <1>7 DEF MainAt
<1> QED BY <1>9, <1>10, <1>11 DEF Held

\* A step of the program
LEMMA BusRuns ==
  ASSUME BusInv, demo = "i2c", NEW fast, NEW rx, NEW in, Execute(fast, rx, in)
  PROVE  Held'
<1>1. /\ Running /\ GoesOn(Now) /\ Edge(Now.at, Now.step, Access(Now), fast, rx, in)
      /\ pc' = NextPc(Now) /\ ControlInv
  BY DEF Execute, BusInv
<1>2. /\ pc \in 1 .. 71 /\ MainAt = 57 /\ pc' = pc + 1
  BY <1>1, BusProgram
<1>3. Issued \in 0 .. 4 /\ Staged \in 0 .. 2 /\ (Issued > 0 => Staged = 2)
  BY <1>2, Counts
<1>4. PICK k \in 0 .. 4, h \in 0 .. 2 : k = Issued /\ h = Staged
  BY <1>3
<1>5. /\ Bus(k, h) /\ (k > 0 => h = 2) /\ (SeenTaken => Len(served) = k)
      /\ pc > 70 => state = "IDLE"
  BY <1>2, <1>3, <1>4 DEF BusInv, Held
<1>6. Len(served) \in 0 .. 4 /\ Len(served) \in {k - 1, k}
      /\ cmd_reg = IF Len(served) = k THEN {} ELSE {Message[k][1]}
  BY <1>5 DEF Bus
<1>7. PICK op, at, step : op = Access(Now) /\ at = Now.at /\ step = Now.step
  OBVIOUS
<1>8. PICK w : w = IF at = "i2c" THEN op ELSE NoAccess
  OBVIOUS
<1>9. w = Seen(Now) /\ Edge(at, step, op, fast, rx, in)
  BY <1>1, <1>7, <1>8 DEF Seen
<1>10. CASE pc \notin {60, 61, 62, 64, 66, 68}
  <2>1. at = "i2c" => op.reg \notin {"CMD", "TXDATA"}
    BY <1>1, <1>8, <1>9, <1>10, BusProgram
  <2>2. Issued' = Issued /\ Staged' = Staged
    BY <1>2, <1>10 DEF Issued, Staged, MainAt
  <2>3. pc \in {63, 65, 67, 69} => Len(served) = k
    BY <1>1, <1>4, <1>6, BusProgram
  <2>4. SeenTaken' => Len(served) = Issued
    <3>1. SeenTaken' => pc \in {63, 65, 67, 69} \/ SeenTaken
      BY <1>2, <1>10 DEF SeenTaken, MainAt
    <3> QED BY <1>4, <1>5, <2>3, <3>1
  <2>5. pc' > MainAt + 13 => state = "IDLE" /\ Len(served) = Issued
    <3>1. pc' > MainAt + 13 => pc \in {70, 71} /\ SeenTaken
      BY <1>2 DEF SeenTaken
    <3> QED BY <1>1, <1>4, <1>5, <3>1, BusProgram
  <2> QED BY <1>2, <1>9, <2>1, <2>2, <2>4, <2>5, BusKept
<1>11. CASE pc \in {60, 61}
  <2>1. /\ k = 0 /\ h = pc - 60 /\ Issued' = k /\ Staged' = h + 1
        /\ ~SeenTaken' /\ ~(pc > MainAt + 13)'
    BY <1>2, <1>4, <1>11 DEF Issued, Staged, SeenTaken, MainAt
  <2>2. w.reg = "TXDATA" /\ w.value = IF h = 0 THEN I2cAddress ELSE I2cPayload
    BY <1>1, <1>9, <1>11, <2>1, BusProgram
  <2>3. Bus(k, h + 1)'
    BY <1>5, <1>8, <1>9, <1>11, <2>1, <2>2, BusStep
  <2> QED BY <2>1, <2>3 DEF Held, Bus
<1>12. CASE pc \in {62, 64, 66, 68}
  <2>1. /\ k < 4 /\ h = 2 /\ Issued' = k + 1 /\ Staged' = h
        /\ ~SeenTaken' /\ ~(pc > MainAt + 13)'
        /\ k = 0 \/ SeenTaken
    BY <1>2, <1>4, <1>12 DEF Issued, Staged, SeenTaken, MainAt
  <2>2. w.reg = "CMD" /\ w.value = {Message[k + 1][1]}
    BY <1>1, <1>4, <1>9, <1>12, BusProgram
  <2>3. Len(served) = k
    BY <1>5, <1>6, <2>1
  <2>4. Bus(k + 1, h)'
    BY <1>5, <1>8, <1>9, <2>1, <2>2, <2>3, BusStep
  <2> QED BY <2>1, <2>4 DEF Held, Bus
<1> QED BY <1>2, <1>10, <1>11, <1>12

LEMMA BusInvStep ==
  ASSUME BusInv, [FirmwareNext]_firmwareVars
  PROVE  BusInv'
<1>1. ControlInv' /\ ControlInv
  BY ControlStep DEF BusInv
<1>2. demo' = demo
  BY FirmwareSteps DEF Execute, Interrupt, Boot, Compute, Restart, Echo, firmwareVars
<1>3. SUFFICES ASSUME demo = "i2c" PROVE Held'
  BY <1>1, <1>2 DEF BusInv, Held
<1>4. pc \in Nat /\ pc' \in Nat
  BY <1>1 DEF ControlInv
<1>5. Held
  BY <1>3 DEF BusInv, Held
<1>6. ASSUME NEW fast, NEW rx, NEW in, Execute(fast, rx, in) PROVE Held'
  BY <1>3, <1>6, BusRuns
<1>7. ASSUME NEW fast, NEW rx, NEW in, Boot(fast, rx, in) PROVE Held'
  <2>1. Edge("none", "none", NoAccess, fast, rx, in) /\ pc = 0 /\ pc' \in {1, MainAt}
    BY <1>7 DEF Boot
  <2>2. MainAt = 57
    BY <1>4, Counts
  <2>3. Issued' = Issued /\ Staged' = Staged /\ ~SeenTaken' /\ ~(pc' > MainAt + 13)
    BY <2>1, <2>2 DEF Issued, Staged, SeenTaken, MainAt
  <2> QED BY <1>3, <1>4, <2>1, <2>3, BusKept
<1>8. ASSUME NEW fast, NEW rx, NEW in, Compute(fast, rx, in) PROVE Held'
  <2>1. Edge("none", "none", NoAccess, fast, rx, in) /\ pc' = pc
    BY <1>8 DEF Compute, programVars
  <2>2. Issued' = Issued /\ Staged' = Staged /\ (SeenTaken' <=> SeenTaken)
    BY <2>1 DEF Issued, Staged, SeenTaken, MainAt
  <2>3. pc' > MainAt + 13 => SeenTaken
    BY <1>4, <2>1, Counts DEF SeenTaken
  <2> QED BY <1>3, <1>4, <1>5, <2>1, <2>2, <2>3, BusKept DEF Held
<1>9. ASSUME UNCHANGED firmwareVars PROVE Held'
  BY <1>5, <1>9
  DEF Held, Bus, Issued, Staged, SeenTaken, MainAt, firmwareVars, programVars, historyVars,
      i2cVars, queueVars, engineVars
<1>10. /\ ~\E fast, rx, in : Interrupt(fast, rx, in)
       /\ ~\E fast, rx, in : Restart(fast, rx, in)
       /\ ~\E fast : Echo(fast)
  BY <1>3 DEF Interrupt, Strikes, Restart, Restartable, Echo
<1> QED BY <1>6, <1>7, <1>8, <1>9, <1>10, FirmwareSteps

\* What BusInv says of the message
LEMMA BusInvCarries == BusInv => BusCarriesMessage
<1> SUFFICES ASSUME BusInv, demo = "i2c"
             PROVE  /\ served = SubSeq(Message, 1, Len(served))
                    /\ Halted => served = Message /\ state = "IDLE" /\ scl_state /\ sda_state
  BY DEF BusCarriesMessage
<1>1. pc \in Nat
  BY DEF BusInv, ControlInv
<1>2. served = SubSeq(Message, 1, Len(served))
  BY DEF BusInv, Held, Bus
<1>3. ASSUME Halted PROVE served = Message /\ state = "IDLE" /\ scl_state /\ sda_state
  <2>1. pc > 71 /\ MainAt = 57
    <3>1. "i2c" \in DOMAIN Text /\ Code = Text["i2c"] /\ pc > Len(Text["i2c"])
      BY <1>3 DEF Halted, Code
    <3>2. Len(Text["i2c"]) = Len(qar_sdk_init) + Len(Program["i2c"])
      BY <3>1, TextParts
    <3>3. Len(qar_sdk_init) + Len(Program["i2c"]) = 56 + 15
      <4>1. Len(qar_sdk_init) = 56 /\ Len(i2c_loopback) = 15 /\ Program["i2c"] = i2c_loopback
        BY SdkWrites, I2cSteps DEF Program
      <4> QED BY <4>1, Zenon
    <3> QED BY <1>1, <3>1, <3>2, <3>3, Counts
  <2>2. Issued = 4 /\ SeenTaken /\ pc > MainAt + 13
    BY <1>1, <2>1 DEF Issued, SeenTaken
  <2>3. Len(served) = 4 /\ state = "IDLE"
    BY <2>2 DEF BusInv, Held
  <2>4. scl_state /\ sda_state
    BY <2>3 DEF BusInv, Held, Bus
  <2> QED BY <1>2, <2>3, <2>4, MessageParts
<1> QED BY <1>2, <1>3

\* devkit/examples/c/i2c_loopback.c: the commands are served in the order of issue, each
\* WRITE with its own byte, though a command register holds the last write alone and the
\* engine takes its commands whenever it is free; at the end the bus is released.
THEOREM MessageCarried == FirmwareSpec => []BusCarriesMessage
<1>1. FirmwareInit => BusInv
  BY BusInvInit
<1>2. BusInv /\ [FirmwareNext]_firmwareVars => BusInv'
  BY BusInvStep
<1> QED BY <1>1, <1>2, BusInvCarries, PTL DEF FirmwareSpec

--------------------------------------------------------------------------------
(* The values that can_loopback, spi_loopback and the client of the ADC read *)

LEMMA OneStep == \A r : IsSeq(<<r>>) /\ Len(<<r>>) = 1 /\ <<r>>[1] = r
<1>1. \A r : <<r>> \in Seq({r})
  OBVIOUS
<1> QED BY <1>1 DEF IsSeq

Triple(s, a, b, c) == IsSeq(s) /\ Len(s) = 3 /\ s[1] = a /\ s[2] = b /\ s[3] = c

LEMMA Three ==
  ASSUME NEW a, NEW b, NEW c
  PROVE  Triple(<<a>> \o <<b>> \o <<c>>, a, b, c)
<1> DEFINE s == <<a>> \o <<b>> \o <<c>>
<1>1. IsSeq(s)
  BY OneStep, Joins DEF Joined
<1>2. Len(s) = 3 /\ s[1] = a /\ s[2] = b /\ s[3] = c
  OBVIOUS
<1> QED BY <1>1, <1>2 DEF Triple

\* The steps of spi_loopback
Exchanges(s, i, b) ==
  /\ s[i] = [step |-> "until", at |-> "spi", reg |-> "STATUS", flags |-> {"tx_ready"}]
  /\ s[i + 1] = [step |-> "put", at |-> "spi", op |-> [reg |-> "TXDATA", value |-> b]]
  /\ s[i + 2] = [step |-> "until", at |-> "spi", reg |-> "STATUS", flags |-> {"rx_valid"}]
  /\ s[i + 3] = [step |-> "get", at |-> "spi", reg |-> "RXDATA"]

LEMMA ExchangeParts ==
  ASSUME NEW b
  PROVE  IsSeq(spi_exchange(b)) /\ Len(spi_exchange(b)) = 4 /\ Exchanges(spi_exchange(b), 1, b)
<1> DEFINE s == spi_exchange(b)
<1>1. IsSeq(s)
  BY OneStep, Joins DEF Joined, spi_exchange, qar_spi_write, Until, Put, Get
<1>2. /\ Len(s) = 4
      /\ s[1] = [step |-> "until", at |-> "spi", reg |-> "STATUS", flags |-> {"tx_ready"}]
      /\ s[2] = [step |-> "put", at |-> "spi", op |-> [reg |-> "TXDATA", value |-> b]]
      /\ s[3] = [step |-> "until", at |-> "spi", reg |-> "STATUS", flags |-> {"rx_valid"}]
      /\ s[4] = [step |-> "get", at |-> "spi", reg |-> "RXDATA"]
  BY SMTT(30) DEF spi_exchange, qar_spi_write, Until, Put, Get
<1>3. 1 + 1 = 2 /\ 1 + 2 = 3 /\ 1 + 3 = 4
  OBVIOUS
<1> HIDE DEF s
<1>4. Exchanges(s, 1, b)
  BY <1>2, <1>3, Zenon DEF Exchanges
<1> QED BY <1>1, <1>2, <1>4 DEF s

LEMMA SpiSteps ==
  LET s == spi_loopback IN
  /\ IsSeq(s) /\ Len(s) = 11
  /\ s[1] = [step |-> "put", at |-> "spi", op |-> [reg |-> "CLKDIV", value |-> 1]]
  /\ s[2] = [step |-> "put", at |-> "spi",
             op |-> [reg |-> "CTRL", value |-> [enable |-> TRUE, loopback |-> TRUE, count |-> 0]]]
  /\ s[3] = [step |-> "put", at |-> "spi", op |-> [reg |-> "CS_SELECT", value |-> {0}]]
  /\ Exchanges(s, 4, "A5") /\ Exchanges(s, 8, "3C")
<1> DEFINE p == qar_spi_init(TRUE) \o qar_spi_set_cs({0})
           a == spi_exchange("A5")
           b == spi_exchange("3C")
           s1 == p \o a
<1>1. /\ IsSeq(p) /\ Len(p) = 3
      /\ p[1] = [step |-> "put", at |-> "spi", op |-> [reg |-> "CLKDIV", value |-> 1]]
      /\ p[2] = [step |-> "put", at |-> "spi",
                 op |-> [reg |-> "CTRL",
                         value |-> [enable |-> TRUE, loopback |-> TRUE, count |-> 0]]]
      /\ p[3] = [step |-> "put", at |-> "spi", op |-> [reg |-> "CS_SELECT", value |-> {0}]]
  <2> DEFINE u == [step |-> "put", at |-> "spi", op |-> [reg |-> "CLKDIV", value |-> 1]]
             v == [step |-> "put", at |-> "spi",
                   op |-> [reg |-> "CTRL",
                           value |-> [enable |-> TRUE, loopback |-> TRUE, count |-> 0]]]
             w == [step |-> "put", at |-> "spi", op |-> [reg |-> "CS_SELECT", value |-> {0}]]
  <2>1. p = <<u>> \o <<v>> \o <<w>>
    BY DEF qar_spi_init, qar_spi_set_cs, Put
  <2>2. Triple(p, u, v, w)
    BY <2>1, Three
  <2> HIDE DEF p
  <2> QED BY <2>2 DEF Triple
<1>2. /\ IsSeq(a) /\ IsSeq(b) /\ Len(a) = 4 /\ Len(b) = 4
      /\ Exchanges(a, 1, "A5") /\ Exchanges(b, 1, "3C")
  BY ExchangeParts
<1>3. spi_loopback = s1 \o b
  BY DEF spi_loopback
<1> HIDE DEF p, a, b
<1>4. Joined(s1, p, a)
  BY <1>1, <1>2, Joins
<1> HIDE DEF s1
<1> DEFINE s == spi_loopback
<1>5. Joined(s, s1, b)
  BY <1>2, <1>3, <1>4, Joins DEF Joined
<1> HIDE DEF s
<1>6. /\ s[1] = p[1] /\ s[2] = p[2] /\ s[3] = p[3]
      /\ s[4] = a[1] /\ s[5] = a[2] /\ s[6] = a[3] /\ s[7] = a[4]
      /\ s[8] = b[1] /\ s[9] = b[2] /\ s[10] = b[3] /\ s[11] = b[4]
      /\ IsSeq(s) /\ Len(s) = 11
  BY <1>1, <1>2, <1>4, <1>5 DEF Joined
<1>7. Exchanges(s, 4, "A5") /\ Exchanges(s, 8, "3C")
  BY <1>2, <1>6 DEF Exchanges
<1> QED BY <1>1, <1>6, <1>7 DEF s

\* The steps of can_loopback
Sends(s, i, f) ==
  /\ s[i] = [step |-> "put", at |-> "can", op |-> [reg |-> "TX_ID", value |-> f.id]]
  /\ s[i + 1] = [step |-> "put", at |-> "can", op |-> [reg |-> "TX_DLC", value |-> f.dlc]]
  /\ s[i + 2] = [step |-> "put", at |-> "can", op |-> [reg |-> "TX_DATA0", value |-> f.data0]]
  /\ s[i + 3] = [step |-> "put", at |-> "can", op |-> [reg |-> "TX_DATA1", value |-> f.data1]]
  /\ s[i + 4] = [step |-> "put", at |-> "can", op |-> [reg |-> "TX_CMD", value |-> 1]]

Drains(s, i) ==
  /\ s[i] = [step |-> "get", at |-> "can", reg |-> "RX_ID"]
  /\ s[i + 1] = [step |-> "get", at |-> "can", reg |-> "RX_DATA0"]
  /\ s[i + 2] = [step |-> "get", at |-> "can", reg |-> "RX_DATA1"]
  /\ s[i + 3] = [step |-> "put", at |-> "can", op |-> [reg |-> "RX_FIFO", value |-> {"pop"}]]

\* A step that changes neither the mode, nor the mailbox, nor the queue
Calm(r) ==
  /\ r.step \in {"put", "load", "store"}
  /\ r.step = "put" => r.op.reg \in {"BITTIME", "FILTER_ID", "FILTER_MASK", "IRQ_STATUS"}
  /\ r.step = "store" => r.reg = "IRQ_EN"

LEMMA SendParts ==
  ASSUME NEW f
  PROVE  IsSeq(send_frame(f)) /\ Len(send_frame(f)) = 5 /\ Sends(send_frame(f), 1, f)
<1> DEFINE s == send_frame(f)
<1>1. IsSeq(s)
  BY OneStep, Joins DEF Joined, send_frame, qar_can_send_word, Put
<1>2. /\ Len(s) = 5
      /\ s[1] = [step |-> "put", at |-> "can", op |-> [reg |-> "TX_ID", value |-> f.id]]
      /\ s[2] = [step |-> "put", at |-> "can", op |-> [reg |-> "TX_DLC", value |-> f.dlc]]
      /\ s[3] = [step |-> "put", at |-> "can", op |-> [reg |-> "TX_DATA0", value |-> f.data0]]
      /\ s[4] = [step |-> "put", at |-> "can", op |-> [reg |-> "TX_DATA1", value |-> f.data1]]
      /\ s[5] = [step |-> "put", at |-> "can", op |-> [reg |-> "TX_CMD", value |-> 1]]
  BY SMTT(30) DEF send_frame, qar_can_send_word, Put
<1>3. 1 + 1 = 2 /\ 1 + 2 = 3 /\ 1 + 3 = 4 /\ 1 + 4 = 5
  OBVIOUS
<1> HIDE DEF s
<1>4. Sends(s, 1, f)
  BY <1>2, <1>3, Zenon DEF Sends
<1> QED BY <1>1, <1>2, <1>4 DEF s

LEMMA DrainParts == IsSeq(drain_rx) /\ Len(drain_rx) = 4 /\ Drains(drain_rx, 1)
<1> DEFINE s == drain_rx
<1>1. IsSeq(s)
  BY OneStep, Joins DEF Joined, drain_rx, qar_can_read_payload, qar_can_pop_rx, Put, Get
<1>2. /\ Len(s) = 4
      /\ s[1] = [step |-> "get", at |-> "can", reg |-> "RX_ID"]
      /\ s[2] = [step |-> "get", at |-> "can", reg |-> "RX_DATA0"]
      /\ s[3] = [step |-> "get", at |-> "can", reg |-> "RX_DATA1"]
      /\ s[4] = [step |-> "put", at |-> "can", op |-> [reg |-> "RX_FIFO", value |-> {"pop"}]]
  BY SMTT(30) DEF drain_rx, qar_can_read_payload, qar_can_pop_rx, Put, Get
<1>3. 1 + 1 = 2 /\ 1 + 2 = 3 /\ 1 + 3 = 4
  OBVIOUS
<1> HIDE DEF s
<1>4. Drains(s, 1)
  BY <1>2, <1>3, Zenon DEF Drains
<1> QED BY <1>1, <1>2, <1>4 DEF s

LEMMA CanSteps ==
  LET s == can_loopback IN
  /\ IsSeq(s) /\ Len(s) = 32
  /\ s[2] = [step |-> "put", at |-> "can",
             op |-> [reg |-> "CTRL", value |-> {"loopback", "bypass", "enable"}]]
  /\ \A i \in {1, 3, 4, 5, 6, 7} : Calm(s[i])
  /\ Sends(s, 8, Frame1) /\ Sends(s, 13, Frame2)
  /\ s[18] = [step |-> "least", at |-> "can", reg |-> "RX_FIFO", n |-> 2]
  /\ Drains(s, 19) /\ Drains(s, 23)
  /\ s[27] = [step |-> "put", at |-> "can",
              op |-> [reg |-> "CTRL", value |-> {"loopback", "bypass", "quiet"}]]
  /\ Sends(s, 28, Frame3)
<1> DEFINE p == qar_can_init({"loopback", "bypass"})
                  \o Put("can", "FILTER_ID", Frame1.id) \o Put("can", "FILTER_MASK", 0 .. 10)
           q == qar_can_enable_irq({"rx", "tx"})
           f1 == send_frame(Frame1)
           f2 == send_frame(Frame2)
           f3 == send_frame(Frame3)
           w == AwaitRxCount(2)
           d == drain_rx
           c == qar_can_set_ctrl({"loopback", "bypass", "quiet"})
           s1 == p \o q
           s2 == s1 \o f1
           s3 == s2 \o f2
           s4 == s3 \o w
           s5 == s4 \o d
           s6 == s5 \o d
           s7 == s6 \o c
<1>1. /\ IsSeq(p) /\ Len(p) = 4
      /\ p[2] = [step |-> "put", at |-> "can",
                 op |-> [reg |-> "CTRL", value |-> {"loopback", "bypass", "enable"}]]
      /\ Calm(p[1]) /\ Calm(p[3]) /\ Calm(p[4])
  <2>1. IsSeq(p)
    BY OneStep, Joins DEF Joined, qar_can_init, Put
  <2>2. {"loopback", "bypass"} \cup {"enable"} = {"loopback", "bypass", "enable"}
    OBVIOUS
  <2>3. /\ Len(p) = 4
        /\ p[1] = [step |-> "put", at |-> "can", op |-> [reg |-> "BITTIME", value |-> 0]]
        /\ p[2] = [step |-> "put", at |-> "can",
                   op |-> [reg |-> "CTRL", value |-> {"loopback", "bypass"} \cup {"enable"}]]
        /\ p[3] = [step |-> "put", at |-> "can", op |-> [reg |-> "FILTER_ID", value |-> Frame1.id]]
        /\ p[4] = [step |-> "put", at |-> "can", op |-> [reg |-> "FILTER_MASK", value |-> 0 .. 10]]
    BY SMTT(30) DEF qar_can_init, Put
  <2> HIDE DEF p
  <2> QED BY <2>1, <2>2, <2>3 DEF Calm
<1>2. /\ IsSeq(q) /\ Len(q) = 3
      /\ Calm(q[1]) /\ Calm(q[2]) /\ Calm(q[3])
  <2> DEFINE u == <<[step |-> "put", at |-> "can",
                     op |-> [reg |-> "IRQ_STATUS", value |-> {"rx", "tx"}]]>>
             v == Modify("can", "IRQ_EN", {"rx", "tx"}, {})
  <2>1. q = u \o v
    BY DEF qar_can_enable_irq, Put
  <2>2. IsSeq(u) /\ Len(u) = 1 /\ Calm(u[1])
    BY OneStep DEF Calm
  <2>3. IsSeq(v) /\ Len(v) = 2 /\ Calm(v[1]) /\ Calm(v[2])
    <3>1. /\ Len(v) = 2 /\ v[1] = [step |-> "load", at |-> "can", reg |-> "IRQ_EN"]
          /\ v[2] = [step |-> "store", at |-> "can", reg |-> "IRQ_EN", set |-> {"rx", "tx"},
                     clear |-> {}]
      BY DEF Modify
    <3>2. v \in Seq({v[1], v[2]})
      BY DEF Modify
    <3> QED BY <3>1, <3>2 DEF Calm, IsSeq
  <2> HIDE DEF u, v, q
  <2>4. Joined(q, u, v)
    BY <2>1, <2>2, <2>3, Joins
  <2> QED BY <2>2, <2>3, <2>4 DEF Joined
<1>3. /\ IsSeq(f1) /\ IsSeq(f2) /\ IsSeq(f3) /\ Len(f1) = 5 /\ Len(f2) = 5 /\ Len(f3) = 5
      /\ Sends(f1, 1, Frame1) /\ Sends(f2, 1, Frame2) /\ Sends(f3, 1, Frame3)
  BY SendParts
<1>4. /\ IsSeq(w) /\ Len(w) = 1
      /\ w[1] = [step |-> "least", at |-> "can", reg |-> "RX_FIFO", n |-> 2]
      /\ IsSeq(c) /\ Len(c) = 1
      /\ c[1] = [step |-> "put", at |-> "can",
                 op |-> [reg |-> "CTRL", value |-> {"loopback", "bypass", "quiet"}]]
  BY OneStep DEF AwaitRxCount, AtLeast, qar_can_set_ctrl, Put
<1>5. IsSeq(d) /\ Len(d) = 4 /\ Drains(d, 1)
  BY DrainParts
<1>6. can_loopback = s7 \o f3
  <2> HIDE DEF f1, f2, f3, w, d, c
  <2>1. /\ IsSeq(p) /\ IsSeq(q)
        /\ p = qar_can_init({"loopback", "bypass"})
                 \o Put("can", "FILTER_ID", Frame1.id) \o Put("can", "FILTER_MASK", 0 .. 10)
    BY <1>1, <1>2
  <2> QED BY DEF can_loopback, f1, f2, f3, w, d, c
<1> HIDE DEF p, q, f1, f2, f3, w, d, c
<1>7. Joined(s1, p, q)
  BY <1>1, <1>2, Joins
<1> HIDE DEF s1
<1>8. Joined(s2, s1, f1)
  BY <1>3, <1>7, Joins DEF Joined
<1> HIDE DEF s2
<1>9. Joined(s3, s2, f2)
  BY <1>3, <1>8, Joins DEF Joined
<1> HIDE DEF s3
<1>10. Joined(s4, s3, w)
  BY <1>4, <1>9, Joins DEF Joined
<1> HIDE DEF s4
<1>11. Joined(s5, s4, d)
  BY <1>5, <1>10, Joins DEF Joined
<1> HIDE DEF s5
<1>12. Joined(s6, s5, d)
  BY <1>5, <1>11, Joins DEF Joined
<1> HIDE DEF s6
<1>13. Joined(s7, s6, c)
  BY <1>4, <1>12, Joins DEF Joined
<1> HIDE DEF s7
<1> DEFINE s == can_loopback
<1>14. Joined(s, s7, f3)
  BY <1>3, <1>6, <1>13, Joins DEF Joined
<1> HIDE DEF s
<1>15. /\ Len(s1) = 7 /\ Len(s2) = 12 /\ Len(s3) = 17 /\ Len(s4) = 18 /\ Len(s5) = 22
       /\ Len(s6) = 26 /\ Len(s7) = 27 /\ Len(s) = 32 /\ IsSeq(s)
  BY <1>1, <1>2, <1>3, <1>4, <1>5, <1>7, <1>8, <1>9, <1>10, <1>11, <1>12, <1>13, <1>14
  DEF Joined
<1>16. \A i \in 1 .. 7 : s[i] = IF i <= 4 THEN p[i] ELSE q[i - 4]
  BY <1>1, <1>2, <1>3, <1>4, <1>5, <1>7, <1>8, <1>9, <1>10, <1>11, <1>12, <1>13, <1>14, <1>15
  DEF Joined
<1>17. \A i \in 1 .. 5 : s[7 + i] = f1[i] /\ s[12 + i] = f2[i] /\ s[27 + i] = f3[i]
  BY <1>3, <1>4, <1>5, <1>8, <1>9, <1>10, <1>11, <1>12, <1>13, <1>14, <1>15 DEF Joined
<1>18. \A i \in 1 .. 4 : s[18 + i] = d[i] /\ s[22 + i] = d[i]
  <2>1. ASSUME NEW i \in 1 .. 4 PROVE s[18 + i] = d[i]
    <3>1. s[18 + i] = s7[18 + i] /\ s7[18 + i] = s6[18 + i]
      BY <1>3, <1>4, <1>13, <1>14, <1>15 DEF Joined
    <3>2. s6[18 + i] = s5[18 + i] /\ s5[18 + i] = d[i]
      BY <1>5, <1>11, <1>12, <1>15 DEF Joined
    <3> QED BY <3>1, <3>2
  <2>2. ASSUME NEW i \in 1 .. 4 PROVE s[22 + i] = d[i]
    <3>1. s[22 + i] = s7[22 + i] /\ s7[22 + i] = s6[22 + i]
      BY <1>3, <1>4, <1>13, <1>14, <1>15 DEF Joined
    <3>2. s6[22 + i] = d[i]
      BY <1>5, <1>12, <1>15 DEF Joined
    <3> QED BY <3>1, <3>2
  <2> QED BY <2>1, <2>2
<1>19. s[18] = w[1] /\ s[27] = c[1]
  <2>1. s[27] = s7[27] /\ s7[27] = c[1]
    BY <1>3, <1>4, <1>13, <1>14, <1>15 DEF Joined
  <2>2. s[18] = s7[18] /\ s7[18] = s6[18]
    BY <1>3, <1>4, <1>13, <1>14, <1>15 DEF Joined
  <2>3. s6[18] = s5[18] /\ s5[18] = s4[18]
    BY <1>5, <1>11, <1>12, <1>15 DEF Joined
  <2>4. s4[18] = w[1]
    BY <1>4, <1>10, <1>15 DEF Joined
  <2> QED BY <2>1, <2>2, <2>3, <2>4
<1>20. Sends(s, 8, Frame1) /\ Sends(s, 13, Frame2) /\ Sends(s, 28, Frame3)
  <2>1. /\ s[8] = f1[1] /\ s[9] = f1[2] /\ s[10] = f1[3] /\ s[11] = f1[4] /\ s[12] = f1[5]
        /\ s[13] = f2[1] /\ s[14] = f2[2] /\ s[15] = f2[3] /\ s[16] = f2[4] /\ s[17] = f2[5]
        /\ s[28] = f3[1] /\ s[29] = f3[2] /\ s[30] = f3[3] /\ s[31] = f3[4] /\ s[32] = f3[5]
    BY <1>17
  <2> QED BY <1>3, <2>1 DEF Sends
<1>21. Drains(s, 19) /\ Drains(s, 23)
  <2>1. /\ s[19] = d[1] /\ s[20] = d[2] /\ s[21] = d[3] /\ s[22] = d[4]
        /\ s[23] = d[1] /\ s[24] = d[2] /\ s[25] = d[3] /\ s[26] = d[4]
    BY <1>18
  <2> QED BY <1>5, <2>1 DEF Drains
<1> QED BY <1>1, <1>2, <1>4, <1>15, <1>16, <1>19, <1>20, <1>21 DEF s

\* The steps of the client of the ADC
AdcCtrlStep(more, now, ch) ==
  [step |-> "put", at |-> "adc",
   op |-> [reg |-> "CTRL",
           value |-> [enable |-> TRUE, continuous |-> more, start |-> now, channel |-> ch]]]
ReadyStep == [step |-> "until", at |-> "adc", reg |-> "STATUS", flags |-> {"ready"}]

LEMMA AdcSteps ==
  LET s == adc_client IN
  /\ IsSeq(s) /\ Len(s) = 13
  /\ s[1] = [step |-> "put", at |-> "adc", op |-> [reg |-> "SEQ_MASK", value |-> {0, 1}]]
  /\ s[2] = [step |-> "put", at |-> "adc", op |-> [reg |-> "SAMPLE_DIV", value |-> 1]]
  /\ s[3] = AdcCtrlStep(TRUE, FALSE, 0)
  /\ s[4].step = "load"
  /\ s[5].step = "store" /\ s[5].reg = "IRQ_EN"
  /\ s[6] = ReadyStep
  /\ s[7] = AdcCtrlStep(FALSE, FALSE, 0)
  /\ s[8] = [step |-> "while", at |-> "adc", reg |-> "STATUS", flags |-> {"busy"}]
  /\ s[9] = [step |-> "put", at |-> "adc", op |-> [reg |-> "RESULT"]]
  /\ s[10] = [step |-> "put", at |-> "adc", op |-> [reg |-> "IRQ_STATUS", value |-> AdcIrqAll]]
  /\ s[11] = AdcCtrlStep(FALSE, TRUE, 2)
  /\ s[12] = ReadyStep
  /\ s[13] = [step |-> "get", at |-> "adc", reg |-> "RESULT"]
<1> DEFINE u1 == [step |-> "put", at |-> "adc", op |-> [reg |-> "SEQ_MASK", value |-> {0, 1}]]
           u2 == [step |-> "put", at |-> "adc", op |-> [reg |-> "SAMPLE_DIV", value |-> 1]]
           u3 == AdcCtrlStep(TRUE, FALSE, 0)
           u7 == AdcCtrlStep(FALSE, FALSE, 0)
           u8 == [step |-> "while", at |-> "adc", reg |-> "STATUS", flags |-> {"busy"}]
           u9 == [step |-> "put", at |-> "adc", op |-> [reg |-> "RESULT"]]
           u10 == [step |-> "put", at |-> "adc",
                   op |-> [reg |-> "IRQ_STATUS", value |-> AdcIrqAll]]
           u11 == AdcCtrlStep(FALSE, TRUE, 2)
           u13 == [step |-> "get", at |-> "adc", reg |-> "RESULT"]
           a == <<u1>> \o <<u2>> \o <<u3>>
           q == Modify("adc", "IRQ_EN", {"ready"}, {})
           r == <<ReadyStep>>
           b == <<u7>> \o <<u8>> \o <<u9>>
           c == b \o <<u10>>
           e == <<u11>>
           g == <<u13>>
           s1 == a \o q
           s2 == s1 \o r
           s3 == s2 \o c
           s4 == s3 \o e
           s5 == s4 \o r
<1>1. adc_client = s5 \o g
  <2>1. qar_adc_enable_continuous({0, 1}, 1) = a
    BY DEF qar_adc_enable_continuous, qar_adc_set_sequence, AdcCommand, Put, AdcCtrlStep
  <2>2. LeaveContinuous = c
    BY DEF LeaveContinuous, qar_adc_disable_continuous, AdcCommand, While, Glance,
           qar_adc_clear_irq, Put, AdcCtrlStep
  <2>3. qar_adc_enable_irq({"ready"}) = q /\ AwaitSample = r /\ qar_adc_read = g
    BY DEF qar_adc_enable_irq, AwaitSample, Until, ReadyStep, qar_adc_read, Get
  <2>4. qar_adc_start_single(2) = e
    BY DEF qar_adc_start_single, AdcCommand, Put, AdcCtrlStep
  <2> HIDE DEF a, c, q, r, e, g
  <2> QED BY <2>1, <2>2, <2>3, <2>4 DEF adc_client
<1>2. /\ IsSeq(q) /\ Len(q) = 2
      /\ q[1].step = "load" /\ q[2].step = "store" /\ q[2].reg = "IRQ_EN"
  <2>1. Len(q) = 2 /\ q[1].step = "load" /\ q[2].step = "store" /\ q[2].reg = "IRQ_EN"
    BY DEF Modify
  <2>2. q \in Seq({q[1], q[2]})
    BY DEF Modify
  <2> QED BY <2>1, <2>2 DEF IsSeq
<1> HIDE DEF u1, u2, u3, u7, u8, u9, u10, u11, u13, q
<1>3. Triple(a, u1, u2, u3) /\ Triple(b, u7, u8, u9)
  BY Three
<1>4. /\ IsSeq(<<u10>>) /\ Len(<<u10>>) = 1 /\ <<u10>>[1] = u10
      /\ IsSeq(r) /\ Len(r) = 1 /\ r[1] = ReadyStep
      /\ IsSeq(e) /\ Len(e) = 1 /\ e[1] = u11
      /\ IsSeq(g) /\ Len(g) = 1 /\ g[1] = u13
  BY OneStep
<1> HIDE DEF a, b, r, e, g
<1>5. Joined(c, b, <<u10>>)
  BY <1>3, <1>4, Joins DEF Triple
<1>6. /\ IsSeq(c) /\ Len(c) = 4 /\ c[1] = u7 /\ c[2] = u8 /\ c[3] = u9 /\ c[4] = u10
  BY <1>3, <1>4, <1>5 DEF Joined, Triple
<1> HIDE DEF c
<1>7. Joined(s1, a, q)
  BY <1>2, <1>3, Joins DEF Triple
<1> HIDE DEF s1
<1>8. Joined(s2, s1, r)
  BY <1>4, <1>7, Joins DEF Joined
<1> HIDE DEF s2
<1>9. Joined(s3, s2, c)
  BY <1>6, <1>8, Joins DEF Joined
<1> HIDE DEF s3
<1>10. Joined(s4, s3, e)
  BY <1>4, <1>9, Joins DEF Joined
<1> HIDE DEF s4
<1>11. Joined(s5, s4, r)
  BY <1>4, <1>10, Joins DEF Joined
<1> HIDE DEF s5
<1> DEFINE s == adc_client
<1>12. Joined(s, s5, g)
  BY <1>1, <1>4, <1>11, Joins DEF Joined
<1> HIDE DEF s
<1>13. /\ Len(s1) = 5 /\ Len(s2) = 6 /\ Len(s3) = 10 /\ Len(s4) = 11 /\ Len(s5) = 12
       /\ Len(s) = 13 /\ IsSeq(s)
  BY <1>2, <1>3, <1>4, <1>6, <1>7, <1>8, <1>9, <1>10, <1>11, <1>12 DEF Joined, Triple
<1>14. s[13] = u13 /\ s[12] = r[1] /\ s[11] = e[1] /\ \A i \in 1 .. 10 : s[i] = s3[i]
  BY <1>4, <1>10, <1>11, <1>12, <1>13 DEF Joined
<1>15. s3[7] = u7 /\ s3[8] = u8 /\ s3[9] = u9 /\ s3[10] = u10 /\ \A i \in 1 .. 6 : s3[i] = s2[i]
  BY <1>6, <1>9, <1>13 DEF Joined
<1>16. /\ s2[1] = u1 /\ s2[2] = u2 /\ s2[3] = u3 /\ s2[4] = q[1] /\ s2[5] = q[2]
       /\ s2[6] = ReadyStep
  BY <1>2, <1>3, <1>4, <1>7, <1>8, <1>13 DEF Joined, Triple
<1>17. /\ s[1] = u1 /\ s[2] = u2 /\ s[3] = u3 /\ s[4] = q[1] /\ s[5] = q[2] /\ s[6] = ReadyStep
       /\ s[7] = u7 /\ s[8] = u8 /\ s[9] = u9 /\ s[10] = u10 /\ s[11] = u11 /\ s[12] = ReadyStep
       /\ s[13] = u13
  BY <1>4, <1>14, <1>15, <1>16
<1> QED BY <1>2, <1>13, <1>17, Zenon DEF s, u1, u2, u3, u7, u8, u9, u10, u11, u13

\* What a program should have read
LEMMA ExpectedParts ==
  /\ demo = "can" =>
       /\ IsSeq(Expected) /\ Len(Expected) = 6
       /\ Expected[1] = Frame1.id /\ Expected[2] = Frame1.data0 /\ Expected[3] = Frame1.data1
       /\ Expected[4] = Frame2.id /\ Expected[5] = Frame2.data0 /\ Expected[6] = Frame2.data1
  /\ demo = "spi" =>
       IsSeq(Expected) /\ Len(Expected) = 2 /\ Expected[1] = "A5" /\ Expected[2] = "3C"
  /\ demo = "adc" => IsSeq(Expected) /\ Len(Expected) = 1 /\ Expected[1] = 2
  /\ demo \notin {"can", "spi", "adc"} => Expected = log
<1>1. ASSUME demo = "can"
      PROVE  /\ IsSeq(Expected) /\ Len(Expected) = 6
             /\ Expected[1] = Frame1.id /\ Expected[2] = Frame1.data0
             /\ Expected[3] = Frame1.data1 /\ Expected[4] = Frame2.id
             /\ Expected[5] = Frame2.data0 /\ Expected[6] = Frame2.data1
  <2> DEFINE a == Frame1
             b == Frame2
             e == <<a.id, a.data0, a.data1, b.id, b.data0, b.data1>>
  <2>1. Expected = e
    BY <1>1 DEF Expected
  <2> HIDE DEF a, b
  <2>2. e \in Seq({a.id, a.data0, a.data1, b.id, b.data0, b.data1})
    OBVIOUS
  <2>3. /\ Len(e) = 6 /\ e[1] = a.id /\ e[2] = a.data0 /\ e[3] = a.data1
        /\ e[4] = b.id /\ e[5] = b.data0 /\ e[6] = b.data1
    OBVIOUS
  <2> QED BY <2>1, <2>2, <2>3 DEF a, b, IsSeq
<1>2. ASSUME demo = "spi"
      PROVE  IsSeq(Expected) /\ Len(Expected) = 2 /\ Expected[1] = "A5" /\ Expected[2] = "3C"
  <2>1. Expected = <<"A5", "3C">>
    BY <1>2 DEF Expected
  <2>2. <<"A5", "3C">> \in Seq({"A5", "3C"})
    OBVIOUS
  <2> QED BY <2>1, <2>2 DEF IsSeq
<1>3. ASSUME demo = "adc" PROVE IsSeq(Expected) /\ Len(Expected) = 1 /\ Expected[1] = 2
  BY <1>3, OneStep DEF Expected
<1>4. demo \notin {"can", "spi", "adc"} => Expected = log
  BY DEF Expected
<1> QED BY <1>1, <1>2, <1>3, <1>4

\* The log of a fresh start is in order still when it stays, is cleared, or takes the next
\* value.
Grows(v) ==
  demo \in {"can", "spi", "adc"} /\ FreshStart =>
    Len(log) + 1 \in 1 .. Len(Expected) /\ v = Expected[Len(log) + 1]

LEMMA OrderKept ==
  ASSUME ReadsInOrder, IsSeq(log), demo' = demo, FreshStart' => FreshStart \/ log' = <<>>,
         \/ log' = log
         \/ log' = <<>>
         \/ \E v : Grows(v) /\ log' = Append(log, v)
  PROVE  /\ ReadsInOrder' /\ IsSeq(log')
         /\ Len(log) \in Nat
         /\ log' = <<>> => Len(log') = 0
         /\ \A v : log' = Append(log, v) => Len(log') = Len(log) + 1
<1>1. PICK S : log \in Seq(S)
  BY DEF IsSeq
<1>2. Len(log) \in Nat
  BY <1>1, LenProperties
<1>3. ASSUME NEW v, log' = Append(log, v)
      PROVE  IsSeq(log') /\ Len(log') = Len(log) + 1
  <2>1. log \in Seq(S \cup {v}) /\ v \in S \cup {v}
    BY <1>1
  <2>2. Append(log, v) \in Seq(S \cup {v}) /\ Len(Append(log, v)) = Len(log) + 1
    BY <2>1, AppendProperties
  <2> QED BY <1>3, <2>2 DEF IsSeq
<1>4. log' = <<>> => IsSeq(log') /\ Len(log') = 0
  <2>1. <<>> \in Seq({}) /\ Len(<<>>) = 0
    OBVIOUS
  <2> QED BY <2>1 DEF IsSeq
<1>5. IsSeq(log')
  BY <1>3, <1>4
<1>6. ASSUME demo \notin {"can", "spi", "adc"} PROVE ReadsOwnFrames'
  <2>1. Expected' = log'
    BY <1>6 DEF Expected
  <2>2. PICK l : l = log'
    OBVIOUS
  <2>3. SubSeq(l, 1, Len(l)) = l
    BY <1>5, <2>2, Prefixes
  <2>4. log' = SubSeq(log', 1, Len(log'))
    BY <2>2, <2>3, Zenon
  <2> QED BY <2>1, <2>4, Zenon DEF ReadsOwnFrames
<1>7. ASSUME demo \in {"can", "spi", "adc"}, FreshStart' PROVE ReadsOwnFrames'
  <2>1. Expected' = Expected
    BY <1>7 DEF Expected
  <2>2. IsSeq(Expected)
    BY <1>7, ExpectedParts
  <2>3. PICK e, l : e = Expected /\ l = log'
    OBVIOUS
  <2>4. /\ SubSeq(e, 1, 0) = <<>> /\ Len(e) \in Nat
        /\ \A n \in 0 .. Len(e) - 1 :
              Append(SubSeq(e, 1, n), e[n + 1]) = SubSeq(e, 1, n + 1)
    BY <2>2, <2>3, Prefixes
  <2>5. log' # <<>> => FreshStart /\ log = SubSeq(e, 1, Len(log))
    BY <1>7, <2>3 DEF ReadsInOrder, ReadsOwnFrames
  <2>6. l = SubSeq(e, 1, Len(l))
    <3>1. CASE log' = log /\ log' # <<>>
      BY <2>3, <2>5, <3>1
    <3>2. CASE log' = <<>>
      BY <1>4, <2>3, <2>4, <3>2
    <3>3. ASSUME NEW v, Grows(v), log' = Append(log, v)
          PROVE  l = SubSeq(e, 1, Len(l))
      <4> DEFINE n == Len(log)
      <4>1. Len(log') = n + 1 /\ log' # <<>>
        BY <1>2, <1>3, <1>4, <3>3
      <4>2. log = SubSeq(e, 1, n) /\ FreshStart
        BY <2>5, <4>1, Zenon
      <4>3. l = Append(log, v)
        BY <2>3, <3>3, ZenonT(40)
      <4>4. n + 1 \in 1 .. Len(Expected) /\ v = Expected[n + 1]
        BY <1>7, <3>3, <4>2, Zenon DEF Grows
      <4>5. n + 1 \in 1 .. Len(e) /\ v = e[n + 1] /\ Len(l) = n + 1 /\ n \in Nat
        BY <1>2, <2>3, <4>1, <4>4, Zenon
      <4> HIDE DEF n
      <4>6. n \in 0 .. Len(e) - 1
        BY <2>4, <4>5
      <4> QED BY <2>4, <4>2, <4>3, <4>5, <4>6
    <3> QED BY <3>1, <3>2, <3>3
  <2>7. log' = SubSeq(Expected, 1, Len(log'))
    BY <2>3, <2>6, Zenon
  <2> QED BY <2>1, <2>7, Zenon DEF ReadsOwnFrames
<1> QED BY <1>2, <1>3, <1>4, <1>5, <1>6, <1>7 DEF ReadsInOrder

\* What the SPI master does at an edge of spi_loopback
LEMMA EdgeSpi ==
  ASSUME demo = "spi", NEW at, NEW step, NEW op, NEW fast, NEW rx, NEW in,
         Edge(at, step, op, fast, rx, in)
  PROVE  SpiEdge(IF at = "spi" THEN op ELSE NoAccess, fast, active_tx_byte)
<1>1. "spi" \in Uses["spi"]
  BY DEF Uses
<1> QED BY <1>1 DEF Edge

\* The queues keep their shape; CTRL holds what was written last.
LEMMA SpiShapes ==
  ASSUME NEW w, NEW done, NEW miso, SpiEdge(w, done, miso),
         spi_tx = [r \in SpiRow |-> spi_tx[r]], spi_rx = [r \in SpiRow |-> spi_rx[r]]
  PROVE  /\ spi_tx' = [r \in SpiRow |-> spi_tx'[r]] /\ spi_rx' = [r \in SpiRow |-> spi_rx'[r]]
         /\ spi_ctrl' = IF w.reg = "CTRL" THEN w.value ELSE spi_ctrl
<1>1. \A f, i, v : f = [r \in SpiRow |-> f[r]] =>
        [f EXCEPT ![i] = v] = [r \in SpiRow |-> [f EXCEPT ![i] = v][r]]
  OBVIOUS
<1>2. \/ spi_tx' = spi_tx
      \/ spi_tx' = [spi_tx EXCEPT ![spi_tx_head % SpiDepth] = w.value]
  BY DEF SpiEdge, Fifos
<1>3. \/ spi_rx' = spi_rx
      \/ spi_rx' = [spi_rx EXCEPT ![spi_rx_head % SpiDepth] = Received(miso)]
  BY DEF SpiEdge, Fifos
<1>4. spi_ctrl' = IF w.reg = "CTRL" THEN w.value ELSE spi_ctrl
  BY DEF SpiEdge, Registers
<1>5. spi_tx' = [r \in SpiRow |-> spi_tx'[r]]
  BY <1>1, <1>2
<1>6. spi_rx' = [r \in SpiRow |-> spi_rx'[r]]
  BY <1>1, <1>3
<1> QED BY <1>4, <1>5, <1>6

\* The rows and the pointers of the first two bytes
LEMMA SpiRows ==
  ASSUME NEW n \in {0, 1}
  PROVE  /\ n \in SpiRow /\ n % SpiDepth = n /\ SpiStep(n) = n + 1
         /\ SpiDepth \in Nat \ {0, 1}
<1>1. SpiDepth \in Nat \ {0, 1}
  BY SpiAssumption
<1>2. SpiDepth \in Nat \ {0} /\ n \in 0 .. SpiDepth - 1
  BY <1>1
<1>3. SpiSpan \in Nat \ {0} /\ n + 1 \in 0 .. SpiSpan - 1
  BY <1>1 DEF SpiSpan
<1>4. n % SpiDepth = n /\ (n + 1) % SpiSpan = n + 1
  BY <1>2, <1>3, SmallRemainder
<1> QED BY <1>1, <1>2, <1>4 DEF SpiRow, SpiStep

\* A byte is put on its way, comes round, and is taken.
LEMMA SpiLane ==
  ASSUME NEW n \in {0, 1}, NEW b, NEW w, NEW done, NEW miso, SpiEdge(w, done, miso),
         spi_tx = [r \in SpiRow |-> spi_tx[r]], spi_rx = [r \in SpiRow |-> spi_rx[r]]
  PROVE  /\ Home(n) /\ w.reg \notin {"TXDATA", "RXDATA"} => Home(n)'
         /\ Home(n) /\ w.reg = "TXDATA" /\ w.value = b => Away(n, b)'
         /\ Away(n, b) /\ spi_ctrl.loopback /\ w.reg \notin {"TXDATA", "RXDATA"} =>
              Away(n, b)' /\ (~spi_rx_empty => ~spi_rx_empty')
         /\ Away(n, b) /\ ~spi_rx_empty => spi_rx[n] = b
         /\ Away(n, b) /\ ~spi_rx_empty /\ w.reg = "RXDATA" => Home(n + 1)'
<1>1. n \in SpiRow /\ n % SpiDepth = n /\ SpiStep(n) = n + 1 /\ SpiDepth \in Nat \ {0, 1}
  BY SpiRows
<1>2. /\ Transfer(w, done) /\ Fifos(w, done, miso)
  BY DEF SpiEdge
<1>3. \A f, v : f = [r \in SpiRow |-> f[r]] => [f EXCEPT ![n] = v][n] = v
  BY <1>1
<1>4. n - n = 0 /\ n + 1 - n = 1 /\ n # n + 1 /\ SpiDepth \notin {0, 1}
  BY <1>1
<1>5. ASSUME Home(n)
      PROVE  /\ ~Attempt /\ ~Start /\ ~Finish(done) /\ ~Keep(done)
             /\ ~spi_tx_full /\ spi_rx_empty
  BY <1>4, <1>5 DEF Home, Attempt, Start, Finish, Keep, spi_tx_full, spi_tx_empty, spi_rx_empty
<1>6. Home(n) /\ w.reg \notin {"TXDATA", "RXDATA"} => Home(n)'
  BY <1>2, <1>5 DEF Transfer, Fifos, Push, Pop, Home
<1>7. Home(n) /\ w.reg = "TXDATA" /\ w.value = b => Away(n, b)'
  BY <1>1, <1>2, <1>3, <1>5 DEF Transfer, Fifos, Push, Pop, Home, Away
<1>8. ASSUME Away(n, b), spi_ctrl.loopback, w.reg \notin {"TXDATA", "RXDATA"}
      PROVE  Away(n, b)' /\ (~spi_rx_empty => ~spi_rx_empty')
  <2>1. ~Push(w) /\ ~Pop(w)
    BY <1>8 DEF Push, Pop
  <2>2. spi_tx_head' = n + 1 /\ spi_rx_tail' = n /\ spi_tx' = spi_tx
    BY <1>2, <1>8, <2>1 DEF Away, Fifos
  <2>3. CASE ~busy /\ spi_tx_tail = n /\ spi_rx_head = n /\ spi_tx[n] = b
    BY <1>1, <1>2, <2>1, <2>2, <2>3, <1>4, <1>8
    DEF Transfer, Fifos, Away, Finish, Keep, Start, spi_rx_empty
  <2>4. CASE busy /\ spi_tx_tail = n + 1 /\ spi_rx_head = n /\ active_tx_byte = b
    <3>1. ~Start /\ ~spi_rx_full /\ Received(miso) = b /\ spi_rx_empty
      BY <1>4, <1>8, <2>4 DEF Start, Attempt, spi_rx_full, Received, Away, spi_rx_empty
    <3>2. CASE done
      <4>1. Keep(done)
        BY <2>4, <3>1, <3>2 DEF Keep, Finish
      <4>2. ~busy' /\ spi_tx_tail' = n + 1 /\ spi_rx_head' = n + 1
        BY <1>1, <1>2, <2>4, <3>1, <3>2, <4>1 DEF Transfer, Fifos
      <4>3. spi_rx' = [spi_rx EXCEPT ![n] = b]
        BY <1>1, <1>2, <2>4, <3>1, <4>1 DEF Fifos
      <4>4. spi_rx'[n] = b
        BY <1>3, <4>3
      <4> QED BY <2>2, <3>1, <4>2, <4>4 DEF Away
    <3>3. CASE ~done
      BY <1>2, <2>1, <2>2, <2>4, <3>1, <3>3 DEF Transfer, Fifos, Away, Finish, Keep
    <3> QED BY <3>2, <3>3
  <2>5. CASE ~busy /\ spi_tx_tail = n + 1 /\ spi_rx_head = n + 1 /\ spi_rx[n] = b
    BY <1>2, <2>1, <2>2, <2>5, <1>4, <1>8
    DEF Transfer, Fifos, Away, Finish, Keep, Start, Attempt, spi_tx_empty, spi_rx_empty
  <2> QED BY <1>8, <2>3, <2>4, <2>5 DEF Away
<1>9. Away(n, b) /\ ~spi_rx_empty =>
        ~busy /\ spi_tx_tail = n + 1 /\ spi_rx_head = n + 1 /\ spi_rx[n] = b
  BY DEF Away, spi_rx_empty
<1>10. Away(n, b) /\ ~spi_rx_empty /\ w.reg = "RXDATA" => Home(n + 1)'
  BY <1>1, <1>2, <1>9
  DEF Transfer, Fifos, Away, Home, Push, Pop, Finish, Keep, Start, Attempt, spi_tx_empty
<1> QED BY <1>6, <1>7, <1>8, <1>9, <1>10

\* What a step gives a unit
SeenBy(unit, s) == IF s.at = unit THEN Access(s) ELSE NoAccess

\* A value that the program keeps is the next that it should have read.
Reads ==
  \/ log' = log /\ Got' = Got
  \/ Got' = Got + 1 /\ \E v : Grows(v) /\ log' = Append(log, v)

\* What a step of spi_loopback gives the master, and when a poll goes on
LEMMA SpiProgram ==
  ASSUME ControlInv, demo = "spi", Running
  PROVE  LET w == SeenBy("spi", Now) IN
         /\ pc \in 1 .. 67 /\ MainAt = 57 /\ NextPc(Now) = pc + 1 /\ Place = pc - 57
         /\ Place \notin {6, 10} => Now.step # "get" /\ w.reg # "RXDATA"
         /\ Place \notin {4, 8} => w.reg # "TXDATA"
         /\ Place > 1 => w.reg # "CTRL"
         /\ Place = 1 => w.reg = "CTRL" /\ w.value.loopback
         /\ Place = 4 => w = [reg |-> "TXDATA", value |-> "A5"]
         /\ Place = 8 => w = [reg |-> "TXDATA", value |-> "3C"]
         /\ Place \in {5, 9} /\ GoesOn(Now) => ~spi_rx_empty
         /\ Place \in {6, 10} => /\ w.reg = "RXDATA" /\ Now.step = "get"
                                 /\ Kept(Now) = spi_rx[spi_rx_tail % SpiDepth]
<1> DEFINE s == spi_loopback
<1>1. /\ Program["spi"] = s /\ Len(s) = 11 /\ mepc = 0
  BY SpiSteps DEF Program, ControlInv
<1>2. PICK d : d = demo
  OBVIOUS
<1>3. Len(Program[d]) = 11 /\ 11 \in Nat
  BY <1>1, <1>2
<1>4. /\ MainAt = 57 /\ pc \in 1 .. 56 + 11
      /\ Place < 0 => \E at : Hushes(Now, at)
      /\ Place >= 0 => Place \in 0 .. 11 - 1 /\ Now = s[Place + 1]
  BY <1>1, <1>2, <1>3, StepHere
<1>5. Place = pc - 57 /\ Place \in Int
  BY <1>4 DEF Place
<1>6. \A r, at : Hushes(r, at) =>
        /\ NextPc(r) = pc + 1 /\ SeenBy("spi", r).reg \notin {"TXDATA", "RXDATA"}
        /\ r.step # "get"
  BY DEF Hushes, NextPc, SeenBy, Access, Tame, NoAccess
<1>7. \A op : LET r == [step |-> "put", at |-> "spi", op |-> op] IN
              NextPc(r) = pc + 1 /\ SeenBy("spi", r) = op /\ r.step # "get"
  BY DEF NextPc, SeenBy, Access
<1>8. \A flags : LET r == [step |-> "until", at |-> "spi", reg |-> "STATUS", flags |-> flags] IN
                 /\ NextPc(r) = pc + 1 /\ SeenBy("spi", r).reg = "none" /\ r.step # "get"
                 /\ GoesOn(r) <=> flags \cap Flags(r) # {}
                 /\ Flags(r) = {f \in {"tx_ready"} : ~spi_tx_full}
                                 \cup {f \in {"rx_valid"} : ~spi_rx_empty}
  BY DEF NextPc, SeenBy, Access, GoesOn, NoAccess, Flags
<1>9. LET r == [step |-> "get", at |-> "spi", reg |-> "RXDATA"] IN
      /\ NextPc(r) = pc + 1 /\ SeenBy("spi", r).reg = "RXDATA" /\ r.step = "get"
      /\ Kept(r) = spi_rx[spi_rx_tail % SpiDepth]
  BY DEF NextPc, SeenBy, Access, Kept
<1>10. /\ s[1] = [step |-> "put", at |-> "spi", op |-> [reg |-> "CLKDIV", value |-> 1]]
       /\ s[2] = [step |-> "put", at |-> "spi",
                  op |-> [reg |-> "CTRL",
                          value |-> [enable |-> TRUE, loopback |-> TRUE, count |-> 0]]]
       /\ s[3] = [step |-> "put", at |-> "spi", op |-> [reg |-> "CS_SELECT", value |-> {0}]]
       /\ Exchanges(s, 4, "A5") /\ Exchanges(s, 8, "3C")
  BY SpiSteps
<1> HIDE DEF s
<1>11. CASE Place < 0
  BY <1>4, <1>5, <1>6, <1>11
<1>12. CASE Place \in 0 .. 2
  BY <1>4, <1>5, <1>7, <1>10, <1>12
<1>13. CASE Place \in {3, 7}
  <2>1. Now = [step |-> "until", at |-> "spi", reg |-> "STATUS", flags |-> {"tx_ready"}]
    BY <1>4, <1>10, <1>13 DEF Exchanges
  <2> QED BY <1>4, <1>5, <1>8, <1>13, <2>1
<1>14. CASE Place \in {4, 8}
  <2>1. Now = [step |-> "put", at |-> "spi",
               op |-> [reg |-> "TXDATA", value |-> IF Place = 4 THEN "A5" ELSE "3C"]]
    BY <1>4, <1>10, <1>14 DEF Exchanges
  <2> QED BY <1>4, <1>5, <1>7, <1>14, <2>1
<1>15. CASE Place \in {5, 9}
  <2>1. Now = [step |-> "until", at |-> "spi", reg |-> "STATUS", flags |-> {"rx_valid"}]
    BY <1>4, <1>10, <1>15 DEF Exchanges
  <2>2. /\ NextPc(Now) = pc + 1 /\ SeenBy("spi", Now).reg = "none" /\ Now.step # "get"
        /\ GoesOn(Now) => ~spi_rx_empty
    BY <1>8, <2>1
  <2> QED BY <1>4, <1>5, <1>15, <2>2
<1>16. CASE Place \in {6, 10}
  <2>1. Now = [step |-> "get", at |-> "spi", reg |-> "RXDATA"]
    BY <1>4, <1>10, <1>16 DEF Exchanges
  <2> QED BY <1>4, <1>5, <1>9, <1>16, <2>1
<1> QED BY <1>4, <1>5, <1>11, <1>12, <1>13, <1>14, <1>15, <1>16

\* An edge at which the queues are left alone, while the program stays between two of its
\* accesses to them
LEMMA SpiKept ==
  ASSUME SpiOrder, demo = "spi", NEW at, NEW step, NEW op, NEW fast, NEW rx, NEW in,
         Edge(at, step, op, fast, rx, in),
         NEW w, w = IF at = "spi" THEN op ELSE NoAccess, w.reg \notin {"TXDATA", "RXDATA"},
         Place \in Int, Place' \in Int,
         \/ Place <= 4 /\ Place' <= 4
         \/ \E k \in {5, 7, 9} : Place \in k .. k + 1 /\ Place' \in k .. k + 1
         \/ Place > 10 /\ Place' > 10,
         Place' \in {6, 10} => ~spi_rx_empty,
         Place' > 1 => IF w.reg = "CTRL" THEN w.value.loopback ELSE Place > 1
  PROVE  SpiOrder'
<1>1. SpiEdge(w, fast, active_tx_byte)
  BY EdgeSpi
<1>2. spi_tx = [r \in SpiRow |-> spi_tx[r]] /\ spi_rx = [r \in SpiRow |-> spi_rx[r]]
  BY DEF SpiOrder
<1>3. /\ spi_tx' = [r \in SpiRow |-> spi_tx'[r]] /\ spi_rx' = [r \in SpiRow |-> spi_rx'[r]]
      /\ spi_ctrl' = IF w.reg = "CTRL" THEN w.value ELSE spi_ctrl
  BY <1>1, <1>2, SpiShapes
<1>4. Place' > 1 => spi_ctrl'.loopback
  BY <1>3 DEF SpiOrder
<1>5. PICK m : m = active_tx_byte
  OBVIOUS
<1>6. SpiEdge(w, fast, m)
  BY <1>1, <1>5
<1>7. \A n \in {0, 1} : Home(n) => Home(n)'
  BY <1>2, <1>6, SpiLane
<1>8. \A n \in {0, 1}, b \in {"A5", "3C"} : Away(n, b) /\ spi_ctrl.loopback =>
        Away(n, b)' /\ (~spi_rx_empty => ~spi_rx_empty')
  BY <1>2, <1>6, SpiLane
<1>9. CASE Place <= 4 /\ Place' <= 4
  BY <1>3, <1>4, <1>7, <1>9 DEF SpiOrder
<1>10. CASE Place \in 5 .. 6 /\ Place' \in 5 .. 6
  BY <1>3, <1>4, <1>8, <1>10 DEF SpiOrder
<1>11. CASE Place \in 7 .. 8 /\ Place' \in 7 .. 8
  BY <1>3, <1>4, <1>7, <1>11 DEF SpiOrder
<1>12. CASE Place \in 9 .. 10 /\ Place' \in 9 .. 10
  BY <1>3, <1>4, <1>8, <1>12 DEF SpiOrder
<1>13. CASE Place > 10 /\ Place' > 10
  BY <1>3, <1>4, <1>13 DEF SpiOrder
<1> QED BY <1>9, <1>10, <1>11, <1>12, <1>13

\* A step of the program
LEMMA SpiRuns ==
  ASSUME ControlInv, SpiOrder, demo = "spi", Len(log) = Got,
         NEW fast, NEW rx, NEW in, Execute(fast, rx, in)
  PROVE  SpiOrder' /\ Reads
<1>1. /\ Running /\ GoesOn(Now) /\ Edge(Now.at, Now.step, Access(Now), fast, rx, in)
      /\ pc' = NextPc(Now) /\ demo' = demo
      /\ log' = IF Now.step = "get" THEN Append(log, Kept(Now)) ELSE log
  BY DEF Execute
<1>2. PICK op, at, step, w : /\ op = Access(Now) /\ at = Now.at /\ step = Now.step
                             /\ w = SeenBy("spi", Now)
  OBVIOUS
<1>3. w = (IF at = "spi" THEN op ELSE NoAccess) /\ Edge(at, step, op, fast, rx, in)
  BY <1>1, <1>2 DEF SeenBy
<1>4. /\ pc \in 1 .. 67 /\ MainAt = 57 /\ pc' = pc + 1 /\ Place = pc - 57
      /\ Place \notin {6, 10} => step # "get" /\ w.reg # "RXDATA"
      /\ Place \notin {4, 8} => w.reg # "TXDATA"
      /\ Place > 1 => w.reg # "CTRL"
      /\ Place = 1 => w.reg = "CTRL" /\ w.value.loopback
      /\ Place = 4 => w = [reg |-> "TXDATA", value |-> "A5"]
      /\ Place = 8 => w = [reg |-> "TXDATA", value |-> "3C"]
      /\ Place \in {5, 9} => ~spi_rx_empty
      /\ Place \in {6, 10} => /\ w.reg = "RXDATA" /\ step = "get"
                              /\ Kept(Now) = spi_rx[spi_rx_tail % SpiDepth]
  BY <1>1, <1>2, SpiProgram
<1>5. Place' = Place + 1 /\ Place \in Int /\ Place' \in Int
  BY <1>4 DEF Place, MainAt
<1>6. PICK m : m = active_tx_byte
  OBVIOUS
<1>7. SpiEdge(w, fast, m)
  BY <1>3, <1>6, EdgeSpi
<1>8. spi_tx = [r \in SpiRow |-> spi_tx[r]] /\ spi_rx = [r \in SpiRow |-> spi_rx[r]]
  BY DEF SpiOrder
<1>9. /\ spi_tx' = [r \in SpiRow |-> spi_tx'[r]] /\ spi_rx' = [r \in SpiRow |-> spi_rx'[r]]
      /\ spi_ctrl' = IF w.reg = "CTRL" THEN w.value ELSE spi_ctrl
  BY <1>7, <1>8, SpiShapes
<1>10. Place > 1 => spi_ctrl'.loopback
  BY <1>4, <1>9 DEF SpiOrder
<1>11. /\ Got = IF Place <= 6 THEN 0 ELSE IF Place <= 10 THEN 1 ELSE 2
       /\ Got' = IF Place' <= 6 THEN 0 ELSE IF Place' <= 10 THEN 1 ELSE 2
  BY <1>1 DEF Got
<1>12. Place \notin {6, 10} => Reads
  BY <1>1, <1>2, <1>4, <1>5, <1>11 DEF Reads
<1>13. CASE Place \notin {4, 6, 8, 10}
  <2>1. \/ Place <= 4 /\ Place' <= 4
        \/ \E k \in {5, 7, 9} : Place \in k .. k + 1 /\ Place' \in k .. k + 1
        \/ Place > 10 /\ Place' > 10
    BY <1>4, <1>5, <1>13
  <2>2. SpiOrder'
    <3>1. Place' > 1 => IF w.reg = "CTRL" THEN w.value.loopback ELSE Place > 1
      BY <1>4, <1>5
    <3>2. Place' \in {6, 10} => ~spi_rx_empty
      BY <1>4, <1>5
    <3>3. w.reg \notin {"TXDATA", "RXDATA"}
      BY <1>4, <1>13
    <3> QED BY <1>3, <1>5, <2>1, <3>1, <3>2, <3>3, SpiKept
  <2> QED BY <1>13, <1>12, <2>2
<1>14. CASE Place \in {4, 8}
  <2>1. PICK n \in {0, 1}, b \in {"A5", "3C"} :
             n = (IF Place = 4 THEN 0 ELSE 1) /\ b = IF Place = 4 THEN "A5" ELSE "3C"
    OBVIOUS
  <2>2. Home(n) /\ w.reg = "TXDATA" /\ w.value = b
    BY <1>4, <1>14, <2>1 DEF SpiOrder
  <2>3. Away(n, b)'
    BY <1>7, <1>8, <2>2, SpiLane
  <2>4. SpiOrder'
    <3>1. CASE Place = 4
      <4>1. Place' = 5 /\ Away(0, "A5")'
        BY <1>5, <2>1, <2>3, <3>1
      <4> QED BY <1>4, <1>9, <1>10, <3>1, <4>1 DEF SpiOrder
    <3>2. CASE Place = 8
      <4>1. Place' = 9 /\ Away(1, "3C")'
        BY <1>5, <2>1, <2>3, <3>2
      <4> QED BY <1>4, <1>9, <1>10, <3>2, <4>1 DEF SpiOrder
    <3> QED BY <1>14, <3>1, <3>2
  <2> QED BY <1>14, <1>12, <2>4
<1>15. CASE Place \in {6, 10}
  <2> DEFINE n == IF Place = 6 THEN 0 ELSE 1
             b == IF Place = 6 THEN "A5" ELSE "3C"
  <2>1. n \in {0, 1} /\ Away(n, b) /\ ~spi_rx_empty
    BY <1>15 DEF SpiOrder
  <2>2. PICK i \in {0, 1}, v \in {"A5", "3C"} : i = n /\ v = b
    BY <2>1
  <2>3. spi_rx[i] = v /\ Home(i + 1)'
    BY <1>4, <1>7, <1>8, <1>15, <2>1, <2>2, SpiLane
  <2>4. SpiOrder'
    BY <1>5, <1>9, <1>10, <1>15, <2>2, <2>3 DEF SpiOrder
  <2>5. Kept(Now) = v
    <3>1. spi_rx_tail = i /\ i % SpiDepth = i
      BY <2>1, <2>2, SpiRows DEF Away
    <3> QED BY <1>4, <1>15, <2>3, <3>1
  <2>6. Got = i /\ Got' = Got + 1
    BY <1>5, <1>15, <1>11, <2>2
  <2>7. Grows(v)
    BY <1>15, <2>2, <2>6, ExpectedParts DEF Grows
  <2>8. log' = Append(log, v)
    BY <1>1, <1>2, <1>4, <1>15, <2>5
  <2> QED BY <2>4, <2>6, <2>7, <2>8 DEF Reads
<1> QED BY <1>13, <1>14, <1>15

\* What the converter does at an edge of its client
LEMMA EdgeAdc ==
  ASSUME demo = "adc", NEW at, NEW step, NEW op, NEW fast, NEW rx, NEW in,
         Edge(at, step, op, fast, rx, in)
  PROVE  \E sample : AdcEdge(IF at = "adc" THEN op ELSE NoAccess, sample)
<1>1. "adc" \in Uses["adc"]
  BY DEF Uses
<1> QED BY <1>1 DEF Edge

\* What an edge does without continuous conversion, and to the registers in any case
LEMMA AdcFacts ==
  ASSUME NEW w, NEW sample, AdcEdge(w, sample)
  PROVE  /\ ctrl_continuous' = IF w.reg = "CTRL" THEN w.value.continuous ELSE ctrl_continuous
         /\ ctrl_channel' = IF w.reg = "CTRL" THEN w.value.channel ELSE ctrl_channel
         /\ manual_start_pending' <=>
              ~ManualStart /\ (manual_start_pending \/ (w.reg = "CTRL" /\ w.value.start))
         /\ ~ctrl_continuous =>
              /\ adc_busy' <=> ManualStart \/ (adc_busy /\ ~ConversionEnds)
              /\ active_channel' = IF ManualStart THEN ctrl_channel ELSE active_channel
              /\ data_valid' <=> \/ ConversionEnds
                                 \/ data_valid /\ ~ManualStart /\ "ready" \notin AdcCleared(w)
         /\ result_channel' = IF ConversionEnds THEN active_channel ELSE result_channel
         /\ ManualStart => ~adc_busy /\ manual_start_pending
         /\ ConversionEnds => adc_busy
         /\ w.reg = "RESULT" => "ready" \in AdcCleared(w)
         /\ w.reg \notin {"RESULT", "IRQ_STATUS"} => "ready" \notin AdcCleared(w)
<1>1. AdcRegisters(w) /\ Conversion(sample) /\ Result(w)
  BY DEF AdcEdge
<1>2. ~ctrl_continuous => ~SequencerStart
  BY DEF SequencerStart, AdcWaiting, continuous_ready
<1>3. /\ ctrl_continuous' = IF w.reg = "CTRL" THEN w.value.continuous ELSE ctrl_continuous
      /\ ctrl_channel' = IF w.reg = "CTRL" THEN w.value.channel ELSE ctrl_channel
  BY <1>1 DEF AdcRegisters
<1>4. manual_start_pending' <=>
        ~ManualStart /\ (manual_start_pending \/ (w.reg = "CTRL" /\ w.value.start))
  BY <1>1, Zenon DEF AdcRegisters
<1>5. ~SequencerStart =>
        /\ adc_busy' <=> ManualStart \/ (adc_busy /\ ~ConversionEnds)
        /\ active_channel' = IF ManualStart THEN ctrl_channel ELSE active_channel
        /\ data_valid' <=> \/ ConversionEnds
                           \/ data_valid /\ ~ManualStart /\ "ready" \notin AdcCleared(w)
  <2> SUFFICES ASSUME ~SequencerStart
               PROVE  /\ adc_busy' <=> ManualStart \/ (adc_busy /\ ~ConversionEnds)
                      /\ active_channel' = IF ManualStart THEN ctrl_channel ELSE active_channel
                      /\ data_valid' <=>
                           \/ ConversionEnds
                           \/ data_valid /\ ~ManualStart /\ "ready" \notin AdcCleared(w)
    OBVIOUS
  <2>1. adc_busy' <=> ManualStart \/ (adc_busy /\ ~ConversionEnds)
    BY <1>1, Zenon DEF Conversion
  <2>2. active_channel' = IF ManualStart THEN ctrl_channel ELSE active_channel
    BY <1>1 DEF Conversion
  <2>3. data_valid' <=>
          ConversionEnds \/ (data_valid /\ ~ManualStart /\ "ready" \notin AdcCleared(w))
    BY <1>1, Zenon DEF Result
  <2> QED BY <2>1, <2>2, <2>3
<1>6. result_channel' = IF ConversionEnds THEN active_channel ELSE result_channel
  BY <1>1 DEF Result
<1>7. (ManualStart => ~adc_busy /\ manual_start_pending) /\ (ConversionEnds => adc_busy)
  BY DEF ManualStart, ConversionEnds
<1>8. /\ w.reg = "RESULT" => "ready" \in AdcCleared(w)
      /\ w.reg \notin {"RESULT", "IRQ_STATUS"} => "ready" \notin AdcCleared(w)
  BY DEF AdcCleared
<1> QED BY <1>2, <1>3, <1>4, <1>5, <1>6, <1>7, <1>8

\* How the client goes on: a write of CTRL, a poll that has seen what it waits for, the reads
\* of RESULT, or none of them.
AdcMoves(w) ==
  \/ Place' <= 6 /\ Place <= 6 /\ (w.reg = "CTRL" => ~w.value.start)
  \/ /\ Place = 6 /\ Place' = 7 /\ w.reg = "CTRL"
     /\ ~w.value.start /\ ~w.value.continuous
  \/ Place = 7 /\ Place' = 8 /\ w.reg # "CTRL" /\ ~adc_busy
  \/ Place = 8 /\ Place' = 9 /\ w.reg = "RESULT"
  \/ Place = 9 /\ Place' = 10 /\ w.reg # "CTRL"
  \/ /\ Place = 10 /\ Place' = 11 /\ w.reg = "CTRL"
     /\ ~w.value.continuous /\ w.value.channel = 2
  \/ Place = 11 /\ Place' = 12 /\ w.reg = "none" /\ data_valid
  \/ Place = 12 /\ Place' = 13 /\ w.reg # "CTRL"
  \/ Place' = Place /\ w.reg = "none"

LEMMA AdcKept ==
  ASSUME AdcOrder, Place \in Int, Place' \in Int, NEW w, NEW sample, AdcEdge(w, sample), AdcMoves(w)
  PROVE  AdcOrder'
<1>1. /\ ctrl_continuous' = IF w.reg = "CTRL" THEN w.value.continuous ELSE ctrl_continuous
      /\ ctrl_channel' = IF w.reg = "CTRL" THEN w.value.channel ELSE ctrl_channel
      /\ manual_start_pending' <=>
           ~ManualStart /\ (manual_start_pending \/ (w.reg = "CTRL" /\ w.value.start))
      /\ ~ctrl_continuous =>
           /\ adc_busy' <=> ManualStart \/ (adc_busy /\ ~ConversionEnds)
           /\ active_channel' = IF ManualStart THEN ctrl_channel ELSE active_channel
           /\ data_valid' <=> \/ ConversionEnds
                              \/ data_valid /\ ~ManualStart /\ "ready" \notin AdcCleared(w)
      /\ result_channel' = IF ConversionEnds THEN active_channel ELSE result_channel
      /\ ManualStart => ~adc_busy /\ manual_start_pending
      /\ ConversionEnds => adc_busy
      /\ w.reg = "RESULT" => "ready" \in AdcCleared(w)
      /\ w.reg \notin {"RESULT", "IRQ_STATUS"} => "ready" \notin AdcCleared(w)
  BY AdcFacts
<1>2. CASE Place <= 6 /\ Place' <= 7
  BY <1>1, <1>2 DEF AdcOrder, AdcMoves
<1>3. CASE Place \in 7 .. 9 \/ (Place = 10 /\ Place' = 10)
  <2>1. /\ ~manual_start_pending /\ ~ctrl_continuous /\ ~ManualStart /\ w.reg # "CTRL"
        /\ Place' \in 7 .. 10 /\ Place' >= Place
    BY <1>1, <1>3 DEF AdcOrder, AdcMoves
  <2>2. ~manual_start_pending' /\ ~ctrl_continuous'
    BY <1>1, <2>1
  <2>3. Place' \in 8 .. 10 => ~adc_busy /\ ~adc_busy' /\ ~ConversionEnds
    <3>1. Place' \in 8 .. 10 => ~adc_busy
      BY <1>3, <2>1 DEF AdcOrder, AdcMoves
    <3> QED BY <1>1, <2>1, <3>1
  <2>4. Place' \in 9 .. 10 => ~data_valid'
    <3>1. Place' \in 9 .. 10 => ~data_valid \/ w.reg = "RESULT"
      BY <1>3, <2>1 DEF AdcOrder, AdcMoves
    <3> QED BY <1>1, <2>1, <2>3, <3>1
  <2> QED BY <2>1, <2>2, <2>3, <2>4 DEF AdcOrder
<1>4. CASE Place = 10 /\ Place' = 11
  BY <1>1, <1>4 DEF AdcOrder, AdcMoves
<1>5. CASE Place >= 11
  BY <1>1, <1>5 DEF AdcOrder, AdcMoves
<1>6. Place <= 6 => Place' <= 7
  BY DEF AdcMoves
<1>7. Place = 10 => Place' \in {10, 11}
  BY DEF AdcMoves
<1> QED BY <1>2, <1>3, <1>4, <1>5, <1>6, <1>7

\* What a step of the client gives the converter, and when a poll goes on
LEMMA AdcProgram ==
  ASSUME ControlInv, demo = "adc", Running, GoesOn(Now), pc' = NextPc(Now)
  PROVE  /\ pc \in 1 .. 69 /\ MainAt = 57 /\ Place = pc - 57 /\ Place' = Place + 1
         /\ AdcMoves(SeenBy("adc", Now))
         /\ Place # 12 => Now.step # "get"
         /\ Place = 12 => Now.step = "get" /\ Kept(Now) = result_channel
<1> DEFINE s == adc_client
<1>1. /\ Program["adc"] = s /\ Len(s) = 13 /\ mepc = 0
  BY AdcSteps DEF Program, ControlInv
<1>2. PICK d : d = demo
  OBVIOUS
<1>3. Len(Program[d]) = 13 /\ 13 \in Nat
  BY <1>1, <1>2
<1>4. /\ MainAt = 57 /\ pc \in 1 .. 56 + 13
      /\ Place < 0 => \E at : Hushes(Now, at)
      /\ Place >= 0 => Place \in 0 .. 13 - 1 /\ Now = s[Place + 1]
  BY <1>1, <1>2, <1>3, StepHere
<1>5. Place = pc - 57 /\ Place \in Int
  BY <1>4 DEF Place
<1>6. \A r, at : Hushes(r, at) =>
        /\ NextPc(r) = pc + 1 /\ r.step # "get"
        /\ SeenBy("adc", r).reg = "CTRL" => ~SeenBy("adc", r).value.start
  <2>1. \A r, at : Hushes(r, at) => NextPc(r) = pc + 1 /\ r.step # "get"
    BY DEF Hushes, NextPc
  <2>2. ASSUME NEW r, NEW at, Hushes(r, at), SeenBy("adc", r).reg = "CTRL"
        PROVE  ~SeenBy("adc", r).value.start
    <3>1. r.at = "adc" /\ at = "adc" /\ r.step = "put" /\ SeenBy("adc", r) = r.op
      BY <2>2 DEF Hushes, SeenBy, Access, NoAccess
    <3> QED BY <2>2, <3>1 DEF Hushes, Tame
  <2> QED BY <2>1, <2>2
<1>7. \A op : LET r == [step |-> "put", at |-> "adc", op |-> op] IN
              NextPc(r) = pc + 1 /\ SeenBy("adc", r) = op /\ r.step # "get"
  BY DEF NextPc, SeenBy, Access
<1>8. \A k \in {"until", "while"} : \A flags :
        LET r == [step |-> k, at |-> "adc", reg |-> "STATUS", flags |-> flags] IN
        /\ NextPc(r) = pc + 1 /\ SeenBy("adc", r).reg = "none" /\ r.step # "get"
        /\ GoesOn(r) <=> IF k = "until" THEN flags \cap Flags(r) # {} ELSE flags \cap Flags(r) = {}
        /\ Flags(r) = {f \in {"ready"} : data_valid} \cup {f \in {"busy"} : adc_busy}
  BY DEF NextPc, SeenBy, Access, GoesOn, NoAccess, Flags
<1>9. LET r == [step |-> "get", at |-> "adc", reg |-> "RESULT"] IN
      /\ NextPc(r) = pc + 1 /\ SeenBy("adc", r).reg = "RESULT" /\ r.step = "get"
      /\ Kept(r) = result_channel
  BY DEF NextPc, SeenBy, Access, Kept
<1>10. \A r : r.step \in {"load", "store"} /\ (r.step = "store" => r.reg = "IRQ_EN") =>
         NextPc(r) = pc + 1 /\ r.step # "get" /\ SeenBy("adc", r).reg \in {"none", "IRQ_EN"}
  BY DEF NextPc, SeenBy, Access, NoAccess
<1>11. Place' = pc' - 57
  BY <1>4 DEF Place, MainAt
<1>12. /\ s[1] = [step |-> "put", at |-> "adc", op |-> [reg |-> "SEQ_MASK", value |-> {0, 1}]]
       /\ s[2] = [step |-> "put", at |-> "adc", op |-> [reg |-> "SAMPLE_DIV", value |-> 1]]
       /\ s[3] = AdcCtrlStep(TRUE, FALSE, 0)
       /\ s[4].step = "load"
       /\ s[5].step = "store" /\ s[5].reg = "IRQ_EN"
       /\ s[6] = ReadyStep
       /\ s[7] = AdcCtrlStep(FALSE, FALSE, 0)
       /\ s[8] = [step |-> "while", at |-> "adc", reg |-> "STATUS", flags |-> {"busy"}]
       /\ s[9] = [step |-> "put", at |-> "adc", op |-> [reg |-> "RESULT"]]
       /\ s[10] = [step |-> "put", at |-> "adc",
                   op |-> [reg |-> "IRQ_STATUS", value |-> AdcIrqAll]]
       /\ s[11] = AdcCtrlStep(FALSE, TRUE, 2)
       /\ s[12] = ReadyStep
       /\ s[13] = [step |-> "get", at |-> "adc", reg |-> "RESULT"]
  BY AdcSteps
<1> HIDE DEF s
<1> DEFINE w == SeenBy("adc", Now)
<1>13. CASE Place < 0
  <2>1. NextPc(Now) = pc + 1 /\ Now.step # "get" /\ (w.reg = "CTRL" => ~w.value.start)
    BY <1>4, <1>6, <1>13
  <2> QED BY <1>4, <1>5, <1>11, <1>13, <2>1 DEF AdcMoves
<1>14. CASE Place \in {0, 1, 2, 6, 8, 9, 10}
  <2>1. \E op : Now = [step |-> "put", at |-> "adc", op |-> op]
    BY <1>4, <1>12, <1>14 DEF AdcCtrlStep
  <2>2. NextPc(Now) = pc + 1 /\ Now.step # "get" /\ w = Now.op
    BY <1>7, <2>1
  <2>3. /\ Place \in {0, 1, 9} => Now.op.reg \in {"SEQ_MASK", "SAMPLE_DIV", "IRQ_STATUS"}
        /\ Place = 2 => ~Now.op.value.start
        /\ Place = 6 => Now.op.reg = "CTRL" /\ ~Now.op.value.start /\ ~Now.op.value.continuous
        /\ Place = 8 => Now.op.reg = "RESULT"
        /\ Place = 10 => /\ Now.op.reg = "CTRL"
                         /\ ~Now.op.value.continuous /\ Now.op.value.channel = 2
    BY <1>4, <1>12, <1>14 DEF AdcCtrlStep
  <2> HIDE DEF w
  <2> QED BY <1>4, <1>5, <1>11, <1>14, <2>2, <2>3 DEF AdcMoves, w
<1>15. CASE Place \in {3, 4}
  <2>1. Now.step \in {"load", "store"} /\ (Now.step = "store" => Now.reg = "IRQ_EN")
    BY <1>4, <1>12, <1>15
  <2>2. NextPc(Now) = pc + 1 /\ Now.step # "get" /\ w.reg # "CTRL"
    BY <1>10, <2>1
  <2> QED BY <1>4, <1>5, <1>11, <1>15, <2>2 DEF AdcMoves
<1>16. CASE Place \in {5, 7, 11}
  <2>1. Now = [step |-> IF Place = 7 THEN "while" ELSE "until", at |-> "adc", reg |-> "STATUS",
               flags |-> IF Place = 7 THEN {"busy"} ELSE {"ready"}]
    BY <1>4, <1>12, <1>16 DEF ReadyStep
  <2>2. NextPc(Now) = pc + 1 /\ Now.step # "get" /\ w.reg = "none"
    BY <1>8, <2>1
  <2>3. IF Place = 7 THEN ~adc_busy ELSE data_valid
    <3>1. Place = 7 => ~adc_busy
      BY <1>8, <2>1
    <3>2. Place # 7 => data_valid
      BY <1>8, <2>1
    <3> QED BY <3>1, <3>2
  <2> QED BY <1>4, <1>5, <1>11, <1>16, <2>2, <2>3 DEF AdcMoves
<1>17. CASE Place = 12
  <2>1. Now = [step |-> "get", at |-> "adc", reg |-> "RESULT"]
    BY <1>4, <1>12, <1>17
  <2>2. /\ NextPc(Now) = pc + 1 /\ Now.step = "get" /\ w.reg = "RESULT"
        /\ Kept(Now) = result_channel
    BY <1>9, <2>1
  <2> QED BY <1>4, <1>5, <1>11, <1>17, <2>2 DEF AdcMoves
<1>18. Place < 0 \/ Place \in {0, 1, 2, 6, 8, 9, 10} \/ Place \in {3, 4} \/ Place \in {5, 7, 11}
         \/ Place = 12
  BY <1>4, <1>5
<1> QED BY <1>13, <1>14, <1>15, <1>16, <1>17, <1>18

\* A step of the client
LEMMA AdcRuns ==
  ASSUME ControlInv, AdcOrder, demo = "adc", Len(log) = Got,
         NEW fast, NEW rx, NEW in, Execute(fast, rx, in)
  PROVE  AdcOrder' /\ Reads
<1>1. /\ Running /\ GoesOn(Now) /\ Edge(Now.at, Now.step, Access(Now), fast, rx, in)
      /\ pc' = NextPc(Now) /\ demo' = demo
      /\ log' = IF Now.step = "get" THEN Append(log, Kept(Now)) ELSE log
  BY DEF Execute
<1>2. PICK op, at, step, w : /\ op = Access(Now) /\ at = Now.at /\ step = Now.step
                             /\ w = SeenBy("adc", Now)
  OBVIOUS
<1>3. w = (IF at = "adc" THEN op ELSE NoAccess) /\ Edge(at, step, op, fast, rx, in)
  BY <1>1, <1>2 DEF SeenBy
<1>4. PICK sample : AdcEdge(w, sample)
  BY <1>3, EdgeAdc
<1>5. /\ pc \in 1 .. 69 /\ MainAt = 57 /\ Place = pc - 57 /\ Place' = Place + 1
      /\ AdcMoves(SeenBy("adc", Now))
      /\ Place # 12 => step # "get"
      /\ Place = 12 => step = "get" /\ Kept(Now) = result_channel
  BY <1>1, <1>2, AdcProgram
<1>6. Place \in Int /\ Place' \in Int
  BY <1>5
<1>7. AdcMoves(w)
  BY <1>2, <1>5 DEF AdcMoves
<1>8. AdcOrder'
  BY <1>4, <1>6, <1>7, AdcKept
<1>9. Got = (IF Place <= 12 THEN 0 ELSE 1) /\ Got' = IF Place' <= 12 THEN 0 ELSE 1
  BY <1>1 DEF Got
<1>10. CASE Place # 12
  BY <1>1, <1>2, <1>5, <1>8, <1>9, <1>10 DEF Reads
<1>11. CASE Place = 12
  <2>1. result_channel = 2
    BY <1>11 DEF AdcOrder
  <2>2. Grows(2) /\ Got' = Got + 1
    BY <1>5, <1>9, <1>11, ExpectedParts DEF Grows
  <2>3. log' = Append(log, 2)
    BY <1>1, <1>2, <1>5, <1>11, <2>1
  <2> QED BY <1>8, <2>2, <2>3 DEF Reads
<1> QED BY <1>10, <1>11

\* What the CAN controller does at a write
LEMMA CanFacts ==
  ASSUME NEW w, CanWrites(w)
  PROVE  /\ ctrl' = IF w.reg = "CTRL" THEN w.value ELSE ctrl
         /\ w.reg \notin {"TX_ID", "TX_DLC", "TX_DATA0", "TX_DATA1"} => UNCHANGED mailboxVars
         /\ w.reg \notin {"TX_CMD", "RX_FIFO"} => UNCHANGED fifoVars
         /\ w.reg = "TX_ID" => tx_id' = w.value /\ tx_body' = tx_body
         /\ w.reg = "TX_DLC" => tx_id' = tx_id /\ tx_body' = [tx_body EXCEPT !.dlc = w.value]
         /\ w.reg = "TX_DATA0" => tx_id' = tx_id /\ tx_body' = [tx_body EXCEPT !.data0 = w.value]
         /\ w.reg = "TX_DATA1" => tx_id' = tx_id /\ tx_body' = [tx_body EXCEPT !.data1 = w.value]
         /\ w.reg = "TX_CMD" => TxCmd \/ UNCHANGED fifoVars
         /\ w.reg = "TX_CMD" /\ "enable" \in ctrl => TxCmd
         /\ w.reg = "RX_FIFO" => /\ rx_tail' = NextTail("pop" \in w.value, "flush" \in w.value)
                                 /\ UNCHANGED <<rx_fifo, rx_head>>
<1> DEFINE SetsReg == w.reg \in {"CTRL", "IRQ_EN", "IRQ_STATUS", "FILTER_ID", "FILTER_MASK"}
           Mails == w.reg \in {"TX_ID", "TX_DLC", "TX_DATA0", "TX_DATA1"}
           Queues == (w.reg = "TX_CMD" /\ "enable" \in ctrl) \/ w.reg = "RX_FIFO"
<1>1. /\ w.reg = "CTRL" => SetCtrl(w.value)
      /\ w.reg = "IRQ_EN" => SetIrqEn(w.value)
      /\ w.reg = "IRQ_STATUS" => Acknowledge(w.value)
      /\ w.reg = "FILTER_ID" => SetFilterId(w.value)
      /\ w.reg = "FILTER_MASK" => SetFilterMask(w.value)
      /\ w.reg = "TX_ID" => SetMailbox(w.value, tx_body)
      /\ w.reg = "TX_DLC" => SetMailbox(tx_id, [tx_body EXCEPT !.dlc = w.value])
      /\ w.reg = "TX_DATA0" => SetMailbox(tx_id, [tx_body EXCEPT !.data0 = w.value])
      /\ w.reg = "TX_DATA1" => SetMailbox(tx_id, [tx_body EXCEPT !.data1 = w.value])
      /\ w.reg = "TX_CMD" /\ "enable" \in ctrl => TxCmd
      /\ w.reg = "RX_FIFO" => FifoControl("pop" \in w.value, "flush" \in w.value, FALSE)
  BY DEF CanWrites
<1>2. ~SetsReg /\ ~Mails /\ ~Queues => UNCHANGED canVars
  BY DEF CanWrites
<1>3. CASE w.reg = "CTRL"
  BY <1>1, <1>3 DEF SetCtrl
<1>4. CASE SetsReg /\ w.reg # "CTRL"
  BY <1>1, <1>4 DEF SetIrqEn, Acknowledge, SetFilterId, SetFilterMask
<1>5. CASE Mails
  BY <1>1, <1>5 DEF SetMailbox
<1>6. CASE Queues
  BY <1>1, <1>6 DEF TxCmd, FifoControl, mailboxVars
<1>7. CASE ~SetsReg /\ ~Mails /\ ~Queues
  BY <1>2, <1>7 DEF canVars
<1> QED BY <1>3, <1>4, <1>5, <1>6, <1>7

\* The pointers of the queue of four rows
LEMMA Pointers ==
  ASSUME NEW t \in 0 .. 7
  PROVE  /\ (t + 1) % 8 \in 0 .. 7 /\ (t + 2) % 8 \in 0 .. 7 /\ (t - t) % 8 = 0
         /\ (((t + 1) % 8) + 1) % 8 = (t + 2) % 8
         /\ (((t + 1) % 8) - t) % 8 = 1 /\ (((t + 2) % 8) - t) % 8 = 2
         /\ t % 4 \in 0 .. 3 /\ (t + 1) % 4 \in 0 .. 3
         /\ ((t + 1) % 8) % 4 = (t + 1) % 4 /\ (t + 1) % 4 # t % 4
<1>1. t \in {0, 1, 2, 3, 4, 5, 6, 7}
  OBVIOUS
<1> QED BY <1>1

\* The shape of the registers
LEMMA CanShapes ==
  ASSUME CanShape, NEW w, CanWrites(w)
  PROVE  CanShape'
<1>1. /\ w.reg \notin {"TX_ID", "TX_DLC", "TX_DATA0", "TX_DATA1"} => UNCHANGED mailboxVars
      /\ w.reg \notin {"TX_CMD", "RX_FIFO"} => UNCHANGED fifoVars
      /\ w.reg = "TX_ID" => tx_id' = w.value /\ tx_body' = tx_body
      /\ w.reg = "TX_DLC" => tx_id' = tx_id /\ tx_body' = [tx_body EXCEPT !.dlc = w.value]
      /\ w.reg = "TX_DATA0" => tx_id' = tx_id /\ tx_body' = [tx_body EXCEPT !.data0 = w.value]
      /\ w.reg = "TX_DATA1" => tx_id' = tx_id /\ tx_body' = [tx_body EXCEPT !.data1 = w.value]
      /\ w.reg = "TX_CMD" => TxCmd \/ UNCHANGED fifoVars
      /\ w.reg = "RX_FIFO" => /\ rx_tail' = NextTail("pop" \in w.value, "flush" \in w.value)
                              /\ UNCHANGED <<rx_fifo, rx_head>>
  BY CanFacts
<1>2. rx_tail \in 0 .. 7 /\ rx_head \in 0 .. 7 /\ PTR_SPAN = 8 /\ FIFO_DEPTH = 4
  BY DEF CanShape, PTR_SPAN, FIFO_DEPTH
<1>3. (rx_tail + 1) % 8 \in 0 .. 7 /\ (rx_head + 1) % 8 \in 0 .. 7
  BY <1>2, Pointers
<1>4. rx_tail' \in 0 .. 7 /\ rx_head' \in 0 .. 7
  <2>1. UNCHANGED fifoVars => rx_tail' = rx_tail /\ rx_head' = rx_head
    BY DEF fifoVars
  <2>2. TxCmd => rx_tail' = rx_tail /\ rx_head' \in {rx_head, (rx_head + 1) % 8}
    BY <1>2 DEF TxCmd, fifoVars
  <2>3. \A p, f : NextTail(p, f) \in {rx_head, rx_tail, (rx_tail + 1) % 8}
    BY <1>2 DEF NextTail
  <2> QED BY <1>1, <1>2, <1>3, <2>1, <2>2, <2>3
<1>5. rx_fifo' = [r \in 0 .. 3 |-> rx_fifo'[r]]
  <2>1. \/ rx_fifo' = rx_fifo
        \/ rx_fifo' = [rx_fifo EXCEPT ![rx_head % 4] = [id |-> tx_id, body |-> tx_body]]
    BY <1>1, <1>2 DEF TxCmd, fifoVars
  <2>2. rx_fifo = [r \in 0 .. 3 |-> rx_fifo[r]]
    BY <1>2 DEF CanShape
  <2>3. \A f, i, v : f = [r \in 0 .. 3 |-> f[r]] =>
          [f EXCEPT ![i] = v] = [r \in 0 .. 3 |-> [f EXCEPT ![i] = v][r]]
    OBVIOUS
  <2> QED BY <2>1, <2>2, <2>3
<1>6. tx_body' = [dlc |-> tx_body'.dlc, data0 |-> tx_body'.data0, data1 |-> tx_body'.data1]
  <2>1. \/ tx_body' = tx_body
        \/ tx_body' = [tx_body EXCEPT !.dlc = w.value]
        \/ tx_body' = [tx_body EXCEPT !.data0 = w.value]
        \/ tx_body' = [tx_body EXCEPT !.data1 = w.value]
    BY <1>1 DEF mailboxVars
  <2>2. tx_body = [dlc |-> tx_body.dlc, data0 |-> tx_body.data0, data1 |-> tx_body.data1]
    BY DEF CanShape
  <2> QED BY <2>1, <2>2
<1> QED BY <1>2, <1>4, <1>5, <1>6 DEF CanShape, PTR_SPAN, FIFO_DEPTH

\* send_frame fills the mailbox write by write.
Posts(w, f, n) ==
  w = CASE n = 0 -> [reg |-> "TX_ID", value |-> f.id]
        [] n = 1 -> [reg |-> "TX_DLC", value |-> f.dlc]
        [] n = 2 -> [reg |-> "TX_DATA0", value |-> f.data0]
        [] n = 3 -> [reg |-> "TX_DATA1", value |-> f.data1]

LEMMA Mail ==
  ASSUME CanShape, NEW w, CanWrites(w), NEW f, NEW n \in 0 .. 3, Posts(w, f, n), Mailbox(f, n)
  PROVE  Mailbox(f, n + 1)' /\ UNCHANGED <<ctrl, fifoVars>>
<1>1. /\ ctrl' = IF w.reg = "CTRL" THEN w.value ELSE ctrl
      /\ w.reg \notin {"TX_CMD", "RX_FIFO"} => UNCHANGED fifoVars
      /\ w.reg = "TX_ID" => tx_id' = w.value /\ tx_body' = tx_body
      /\ w.reg = "TX_DLC" => tx_id' = tx_id /\ tx_body' = [tx_body EXCEPT !.dlc = w.value]
      /\ w.reg = "TX_DATA0" => tx_id' = tx_id /\ tx_body' = [tx_body EXCEPT !.data0 = w.value]
      /\ w.reg = "TX_DATA1" => tx_id' = tx_id /\ tx_body' = [tx_body EXCEPT !.data1 = w.value]
  BY CanFacts
<1>2. tx_body = [dlc |-> tx_body.dlc, data0 |-> tx_body.data0, data1 |-> tx_body.data1]
  BY DEF CanShape
<1>3. CASE n = 0
  <2>1. w = [reg |-> "TX_ID", value |-> f.id]
    BY <1>3 DEF Posts
  <2> QED BY <1>1, <1>3, <2>1 DEF Mailbox
<1>4. CASE n = 1
  <2>1. w = [reg |-> "TX_DLC", value |-> f.dlc]
    BY <1>4 DEF Posts
  <2> QED BY <1>1, <1>2, <1>4, <2>1 DEF Mailbox
<1>5. CASE n = 2
  <2>1. w = [reg |-> "TX_DATA0", value |-> f.data0]
    BY <1>5 DEF Posts
  <2> QED BY <1>1, <1>2, <1>5, <2>1 DEF Mailbox
<1>6. CASE n = 3
  <2>1. w = [reg |-> "TX_DATA1", value |-> f.data1]
    BY <1>6 DEF Posts
  <2> QED BY <1>1, <1>2, <1>6, <2>1 DEF Mailbox
<1> QED BY <1>3, <1>4, <1>5, <1>6

\* The mode of can_loopback, in which a frame that is sent waits behind those that wait, and
\* a pop drops the first
LoopMode == {"loopback", "bypass", "enable"}

LEMMA Loop ==
  ASSUME CanShape, ctrl = LoopMode, TxCmd, NEW f, Mailbox(f, 4)
  PROVE  /\ rx_head = rx_tail => WaitOne(f)'
         /\ WaitOne(Frame1) /\ f = Frame2 => WaitTwo'
<1>1. PICK t, h, q : t = rx_tail /\ h = rx_head /\ q = rx_fifo
  OBVIOUS
<1>2. t \in 0 .. 7 /\ h \in 0 .. 7 /\ q = [r \in 0 .. 3 |-> q[r]]
  BY <1>1 DEF CanShape, PTR_SPAN, FIFO_DEPTH
<1>3. [id |-> tx_id, body |-> tx_body] = Carried(f)
  BY DEF Mailbox, Carried, CanShape
<1>4. PICK c : c = Carried(f)
  OBVIOUS
<1>5. Accepted
  BY DEF Accepted, LoopMode
<1>6. (h - t) % 8 < 4 => /\ rx_fifo' = [q EXCEPT ![h % 4] = c]
                         /\ rx_head' = (h + 1) % 8 /\ rx_tail' = t
  BY <1>1, <1>3, <1>4, <1>5 DEF TxCmd, HasRoom, RxEntries, PTR_SPAN, FIFO_DEPTH
<1>7. /\ (t + 1) % 8 \in 0 .. 7 /\ (t - t) % 8 = 0
      /\ (((t + 1) % 8) + 1) % 8 = (t + 2) % 8 /\ (((t + 1) % 8) - t) % 8 = 1
      /\ t % 4 \in 0 .. 3 /\ (t + 1) % 4 \in 0 .. 3
      /\ ((t + 1) % 8) % 4 = (t + 1) % 4 /\ (t + 1) % 4 # t % 4
  BY <1>2, Pointers
<1>8. ASSUME h = t PROVE WaitOne(f)'
  <2>1. rx_fifo' = [q EXCEPT ![t % 4] = c] /\ rx_head' = (t + 1) % 8 /\ rx_tail' = t
    BY <1>6, <1>7, <1>8
  <2>2. rx_fifo'[t % 4] = c
    BY <1>2, <1>7, <2>1
  <2> QED BY <1>4, <2>1, <2>2 DEF WaitOne, PTR_SPAN, FIFO_DEPTH
<1>9. ASSUME WaitOne(Frame1), f = Frame2 PROVE WaitTwo'
  <2>1. h = (t + 1) % 8 /\ q[t % 4] = Carried(Frame1)
    BY <1>1, <1>9 DEF WaitOne, PTR_SPAN, FIFO_DEPTH
  <2>2. /\ rx_fifo' = [q EXCEPT ![(t + 1) % 4] = c] /\ rx_head' = (t + 2) % 8 /\ rx_tail' = t
    BY <1>6, <1>7, <2>1
  <2>3. rx_fifo'[t % 4] = q[t % 4] /\ rx_fifo'[(t + 1) % 4] = c
    BY <1>2, <1>7, <2>2
  <2> QED BY <1>4, <1>9, <2>1, <2>2, <2>3 DEF WaitTwo, PTR_SPAN, FIFO_DEPTH
<1> QED BY <1>1, <1>8, <1>9

LEMMA PopOne ==
  ASSUME CanShape, WaitTwo, UNCHANGED <<rx_fifo, rx_head>>,
         rx_tail' = IF RxEntries # 0 THEN (rx_tail + 1) % PTR_SPAN ELSE rx_tail
  PROVE  WaitOne(Frame2)'
<1>1. PICK t, h : t = rx_tail /\ h = rx_head
  OBVIOUS
<1>2. t \in 0 .. 7 /\ h = (t + 2) % 8
  BY <1>1 DEF CanShape, WaitTwo, PTR_SPAN
<1>3. /\ (((t + 1) % 8) + 1) % 8 = (t + 2) % 8 /\ (((t + 2) % 8) - t) % 8 = 2
      /\ ((t + 1) % 8) % 4 = (t + 1) % 4
  BY <1>2, Pointers
<1>4. rx_tail' = (t + 1) % 8
  BY <1>1, <1>2, <1>3 DEF RxEntries, PTR_SPAN
<1>5. PICK f : f = Frame2
  OBVIOUS
<1>6. rx_fifo[(t + 1) % 4] = Carried(f)
  BY <1>1, <1>5 DEF WaitTwo, FIFO_DEPTH
<1>7. rx_head' = h /\ rx_fifo' = rx_fifo
  BY <1>1
<1>8. WaitOne(f)'
  BY <1>2, <1>3, <1>4, <1>6, <1>7 DEF WaitOne, PTR_SPAN, FIFO_DEPTH
<1> QED BY <1>5, <1>8 DEF WaitOne

\* What the CAN controller sees at an edge
LEMMA EdgeCan ==
  ASSUME NEW at, NEW step, NEW op, NEW fast, NEW rx, NEW in,
         Edge(at, step, op, fast, rx, in), NEW w, w = IF at = "can" THEN op ELSE NoAccess
  PROVE  CanWrites(w)
<1>1. CanWrites(IF at = "can" THEN op ELSE NoAccess)
  BY DEF Edge
<1> QED BY <1>1, Zenon

\* How can_loopback goes on from place p to q: its first steps and the end of main() leave
\* the queue alone.
CanMoves(p, q, w) ==
  \/ q = p /\ w.reg = "none"
  \/ p < 0 /\ q <= 0 /\ w.reg # "TX_CMD" /\ (q = 0 => rx_head' = rx_tail')
  \/ /\ p \in {0, 2, 3, 4, 5, 6} /\ q = p + 1
     /\ w.reg \in {"none", "BITTIME", "FILTER_ID", "FILTER_MASK", "IRQ_STATUS", "IRQ_EN"}
  \/ p = 1 /\ q = 2 /\ w.reg = "CTRL" /\ w.value = LoopMode
  \/ p \in 7 .. 10 /\ q = p + 1 /\ Posts(w, Frame1, p - 7)
  \/ p \in {11, 16} /\ q = p + 1 /\ w.reg = "TX_CMD"
  \/ p \in 12 .. 15 /\ q = p + 1 /\ Posts(w, Frame2, p - 12)
  \/ p \in {17, 18, 19, 20, 22, 23, 24} /\ q = p + 1 /\ w.reg = "none"
  \/ p \in {21, 25} /\ q = p + 1 /\ w.reg = "RX_FIFO" /\ w.value = {"pop"}
  \/ p > 25 /\ q = p + 1

\* The frames that wait, and the mailbox, are left alone.
LEMMA Undisturbed ==
  ASSUME UNCHANGED <<mailboxVars, fifoVars>>
  PROVE  /\ \A f, n : Mailbox(f, n) => Mailbox(f, n)'
         /\ \A f : WaitOne(f) => WaitOne(f)'
         /\ WaitTwo => WaitTwo'
         /\ rx_head = rx_tail => rx_head' = rx_tail'
  BY DEF mailboxVars, fifoVars, Mailbox, WaitOne, WaitTwo

\* CanOrder at place p
CanAt(p) ==
  /\ p \in 2 .. 26 => ctrl = LoopMode
  /\ p \in 7 .. 11 => Mailbox(Frame1, p - 7)
  /\ p \in 12 .. 16 => Mailbox(Frame2, p - 12)
  /\ p \in 0 .. 11 => rx_head = rx_tail
  /\ p \in 12 .. 16 => WaitOne(Frame1)
  /\ p \in 17 .. 21 => WaitTwo
  /\ p \in 22 .. 25 => WaitOne(Frame2)

LEMMA CanPlaces ==
  ASSUME NEW p \in Int, NEW q \in Int, p = Place, q = Place'
  PROVE  /\ CanOrder => /\ CanShape /\ CanAt(p)
                        /\ p <= 11 /\ restarts = 0 => rx_head = rx_tail
         /\ CanShape' /\ CanAt(q)' /\ (q <= 11 /\ restarts' = 0 => rx_head' = rx_tail') => CanOrder'
<1>1. ASSUME CanOrder
      PROVE  CanShape /\ CanAt(p) /\ (p <= 11 /\ restarts = 0 => rx_head = rx_tail)
  <2>1. CanShape
    BY <1>1 DEF CanOrder, CanShape
  <2>2. /\ p \in 2 .. 26 => ctrl = LoopMode
        /\ p \in 12 .. 16 => WaitOne(Frame1)
        /\ p \in 17 .. 21 => WaitTwo
        /\ p \in 22 .. 25 => WaitOne(Frame2)
        /\ p <= 11 /\ (restarts = 0 \/ p >= 0) => rx_head = rx_tail
        /\ p \in 7 .. 11 => Mailbox(Frame1, p - 7)
        /\ p \in 12 .. 16 => Mailbox(Frame2, p - 12)
    BY <1>1, Zenon DEF CanOrder, LoopMode
  <2>3. p \in 0 .. 11 => rx_head = rx_tail
    BY <2>2
  <2> QED BY <2>1, <2>2, <2>3, Zenon DEF CanAt
<1>2. ASSUME CanShape', CanAt(q)', q <= 11 /\ restarts' = 0 => rx_head' = rx_tail'
      PROVE  CanOrder'
  <2>1. /\ q \in 2 .. 26 => ctrl' = LoopMode
        /\ q \in 12 .. 16 => WaitOne(Frame1)'
        /\ q \in 17 .. 21 => WaitTwo'
        /\ q \in 22 .. 25 => WaitOne(Frame2)'
        /\ q \in 0 .. 11 => rx_head' = rx_tail'
        /\ q \in 7 .. 11 => Mailbox(Frame1, q - 7)'
        /\ q \in 12 .. 16 => Mailbox(Frame2, q - 12)'
    BY <1>2, Zenon DEF CanAt
  <2>2. q <= 11 /\ (restarts' = 0 \/ q >= 0) => rx_head' = rx_tail'
    BY <1>2, <2>1
  <2> QED BY <1>2, <2>1, <2>2, Zenon DEF CanOrder, CanShape, LoopMode
<1> QED BY <1>1, <1>2

LEMMA CanGoes ==
  ASSUME CanShape, NEW p \in Int, NEW q \in Int, p >= 0, CanAt(p),
         NEW w, CanWrites(w), CanMoves(p, q, w)
  PROVE  CanAt(q)'
<1>1. /\ ctrl' = IF w.reg = "CTRL" THEN w.value ELSE ctrl
      /\ w.reg \notin {"TX_ID", "TX_DLC", "TX_DATA0", "TX_DATA1"} => UNCHANGED mailboxVars
      /\ w.reg \notin {"TX_CMD", "RX_FIFO"} => UNCHANGED fifoVars
      /\ w.reg = "TX_CMD" /\ "enable" \in ctrl => TxCmd
      /\ w.reg = "RX_FIFO" => /\ rx_tail' = NextTail("pop" \in w.value, "flush" \in w.value)
                              /\ UNCHANGED <<rx_fifo, rx_head>>
  BY CanFacts
<1>2. PICK f1, f2 : f1 = Frame1 /\ f2 = Frame2
  OBVIOUS
<1>3. UNCHANGED <<mailboxVars, fifoVars>> =>
        /\ \A f, n : Mailbox(f, n) => Mailbox(f, n)'
        /\ \A f : WaitOne(f) => WaitOne(f)'
        /\ WaitTwo => WaitTwo'
        /\ rx_head = rx_tail => rx_head' = rx_tail'
  BY Undisturbed
<1>4. UNCHANGED fifoVars =>
        /\ \A f : WaitOne(f) => WaitOne(f)'
        /\ WaitTwo => WaitTwo'
        /\ rx_head = rx_tail => rx_head' = rx_tail'
  BY DEF fifoVars, WaitOne, WaitTwo
<1>5. \A r : CanAt(r) <=>
        /\ r \in 2 .. 26 => ctrl = LoopMode
        /\ r \in 7 .. 11 => Mailbox(f1, r - 7)
        /\ r \in 12 .. 16 => Mailbox(f2, r - 12)
        /\ r \in 0 .. 11 => rx_head = rx_tail
        /\ r \in 12 .. 16 => WaitOne(f1)
        /\ r \in 17 .. 21 => WaitTwo
        /\ r \in 22 .. 25 => WaitOne(f2)
  BY <1>2, Zenon DEF CanAt
<1>6. CanAt(q)' <=>
        /\ q \in 2 .. 26 => ctrl' = LoopMode
        /\ q \in 7 .. 11 => Mailbox(f1, q - 7)'
        /\ q \in 12 .. 16 => Mailbox(f2, q - 12)'
        /\ q \in 0 .. 11 => rx_head' = rx_tail'
        /\ q \in 12 .. 16 => WaitOne(f1)'
        /\ q \in 17 .. 21 => WaitTwo'
        /\ q \in 22 .. 25 => WaitOne(f2)'
  BY <1>2, Zenon DEF CanAt, LoopMode
<1>7. CASE q = p /\ w.reg = "none"
  BY <1>1, <1>3, <1>5, <1>6, <1>7
<1>8. CASE /\ p \in {0, 2, 3, 4, 5, 6} /\ q = p + 1
           /\ w.reg \in {"none", "BITTIME", "FILTER_ID", "FILTER_MASK", "IRQ_STATUS", "IRQ_EN"}
  <2>1. q = 7 => Mailbox(f1, q - 7)'
    BY DEF Mailbox
  <2> QED BY <1>1, <1>4, <1>5, <1>6, <1>8, <2>1
<1>9. CASE p = 1 /\ q = 2 /\ w.reg = "CTRL" /\ w.value = LoopMode
  BY <1>1, <1>4, <1>5, <1>6, <1>9
<1>10. CASE p \in 7 .. 10 /\ q = p + 1 /\ Posts(w, Frame1, p - 7)
  <2>1. PICK n \in 0 .. 3 : n = p - 7
    BY <1>10
  <2>2. Posts(w, f1, n) /\ Mailbox(f1, n)
    BY <1>2, <1>5, <1>10, <2>1
  <2>3. Mailbox(f1, n + 1)' /\ UNCHANGED <<ctrl, fifoVars>>
    BY <2>2, Mail
  <2>4. n + 1 = q - 7
    BY <1>10, <2>1
  <2>5. Mailbox(f1, q - 7)'
    BY <2>3, <2>4
  <2> QED BY <1>4, <1>5, <1>6, <1>10, <2>3, <2>5
<1>11. CASE p = 11 /\ q = 12 /\ w.reg = "TX_CMD"
  <2>1. Mailbox(f1, 4) /\ rx_head = rx_tail /\ ctrl = LoopMode
    BY <1>5, <1>11
  <2>2. TxCmd
    BY <1>1, <1>11, <2>1 DEF LoopMode
  <2>3. WaitOne(f1)'
    BY <2>1, <2>2, Loop
  <2>4. Mailbox(f2, q - 12)'
    BY <1>11 DEF Mailbox
  <2> QED BY <1>1, <1>6, <1>11, <2>1, <2>3, <2>4
<1>12. CASE p \in 12 .. 15 /\ q = p + 1 /\ Posts(w, Frame2, p - 12)
  <2>1. PICK n \in 0 .. 3 : n = p - 12
    BY <1>12
  <2>2. Posts(w, f2, n) /\ Mailbox(f2, n)
    BY <1>2, <1>5, <1>12, <2>1
  <2>3. Mailbox(f2, n + 1)' /\ UNCHANGED <<ctrl, fifoVars>>
    BY <2>2, Mail
  <2>4. n + 1 = q - 12
    BY <1>12, <2>1
  <2>5. Mailbox(f2, q - 12)'
    BY <2>3, <2>4
  <2> QED BY <1>4, <1>5, <1>6, <1>12, <2>3, <2>5
<1>13. CASE p = 16 /\ q = 17 /\ w.reg = "TX_CMD"
  <2>1. Mailbox(f2, 4) /\ WaitOne(Frame1) /\ ctrl = LoopMode
    BY <1>2, <1>5, <1>13
  <2>2. TxCmd
    BY <1>1, <1>13, <2>1 DEF LoopMode
  <2>3. WaitTwo'
    BY <1>2, <2>1, <2>2, Loop
  <2> QED BY <1>1, <1>6, <1>13, <2>1, <2>3
<1>14. CASE p \in {17, 18, 19, 20, 22, 23, 24} /\ q = p + 1 /\ w.reg = "none"
  BY <1>1, <1>4, <1>5, <1>6, <1>14
<1>15. CASE p = 21 /\ q = 22 /\ w.reg = "RX_FIFO" /\ w.value = {"pop"}
  <2>1. WaitTwo /\ ctrl' = LoopMode
    BY <1>1, <1>5, <1>15
  <2>2. /\ rx_tail' = IF RxEntries # 0 THEN (rx_tail + 1) % PTR_SPAN ELSE rx_tail
        /\ UNCHANGED <<rx_fifo, rx_head>>
    BY <1>1, <1>15 DEF NextTail
  <2>3. WaitOne(f2)'
    <3>1. WaitOne(Frame2)'
      BY <2>1, <2>2, PopOne
    <3> QED BY <1>2, <3>1 DEF WaitOne
  <2> QED BY <1>6, <1>15, <2>1, <2>3
<1>16. CASE p = 25 /\ q = 26 /\ w.reg = "RX_FIFO"
  BY <1>1, <1>5, <1>6, <1>16
<1>17. CASE p > 25 /\ q = p + 1
  BY <1>6, <1>17
<1> QED
  BY <1>7, <1>8, <1>9, <1>10, <1>11, <1>12, <1>13, <1>14, <1>15, <1>16, <1>17 DEF CanMoves

LEMMA CanKept ==
  ASSUME CanOrder, NEW p \in Int, NEW q \in Int, p = Place, q = Place', restarts' = restarts,
         NEW w, CanWrites(w), CanMoves(p, q, w)
  PROVE  CanOrder'
<1>1. CanShape /\ CanAt(p) /\ (p <= 11 /\ restarts = 0 => rx_head = rx_tail)
  BY CanPlaces
<1>2. CanShape'
  BY <1>1, CanShapes
<1>3. ASSUME p < 0 PROVE CanAt(q)' /\ (q <= 11 /\ restarts' = 0 => rx_head' = rx_tail')
  <2>1. q <= 0 /\ w.reg # "TX_CMD" /\ (q = 0 /\ q # p => rx_head' = rx_tail')
    BY <1>3 DEF CanMoves
  <2>2. CanAt(q)'
    BY <1>3, <2>1 DEF CanAt
  <2>3. rx_head = rx_tail => rx_head' = rx_tail'
    <3>1. rx_head = rx_tail => \A k, f : NextTail(k, f) = rx_tail
      BY <1>1, Pointers DEF CanShape, NextTail, RxEntries, PTR_SPAN
    <3>2. /\ w.reg \notin {"TX_CMD", "RX_FIFO"} => UNCHANGED fifoVars
          /\ w.reg = "RX_FIFO" => /\ rx_tail' = NextTail("pop" \in w.value, "flush" \in w.value)
                                  /\ UNCHANGED <<rx_fifo, rx_head>>
      BY CanFacts
    <3> QED BY <2>1, <3>1, <3>2 DEF fifoVars
  <2> QED BY <1>1, <1>3, <2>2, <2>3
<1>4. ASSUME p >= 0 PROVE CanAt(q)' /\ (q <= 11 /\ restarts' = 0 => rx_head' = rx_tail')
  <2>1. CanAt(q)' /\ q >= 0
    <3>1. q >= 0
      BY <1>4 DEF CanMoves
    <3> QED BY <1>1, <1>4, <3>1, CanGoes
  <2>2. q \in 0 .. 11 => rx_head' = rx_tail'
    BY <2>1, Zenon DEF CanAt
  <2> QED BY <2>1, <2>2
<1>5. CanAt(q)' /\ (q <= 11 /\ restarts' = 0 => rx_head' = rx_tail')
  BY <1>3, <1>4
<1> QED BY <1>2, <1>5, CanPlaces

\* What a step of can_loopback gives the controller
LEMMA CanProgram ==
  ASSUME ControlInv, demo = "can", Running, pc' = NextPc(Now), NEW p, p = Place
  PROVE  LET w == SeenBy("can", Now) IN
         /\ pc \in 1 .. 88 /\ MainAt = 57 /\ p \in Int /\ p = pc - 57 /\ Place' = p + 1
         /\ p < 0 => w.reg # "TX_CMD"
         /\ p >= 0 => CanMoves(p, p + 1, w)
         /\ p \notin {18, 19, 20, 22, 23, 24} => Now.step # "get"
         /\ p \in {18, 22} => Now.step = "get" /\ Kept(Now) = rx_fifo[rx_tail % FIFO_DEPTH].id
         /\ p \in {19, 23} =>
              Now.step = "get" /\ Kept(Now) = rx_fifo[rx_tail % FIFO_DEPTH].body.data0
         /\ p \in {20, 24} =>
              Now.step = "get" /\ Kept(Now) = rx_fifo[rx_tail % FIFO_DEPTH].body.data1
<1> DEFINE s == can_loopback
<1>1. /\ Program["can"] = s /\ Len(s) = 32 /\ mepc = 0
  BY CanSteps DEF Program, ControlInv
<1>2. PICK d : d = demo
  OBVIOUS
<1>3. Len(Program[d]) = 32 /\ 32 \in Nat
  BY <1>1, <1>2
<1>4. /\ MainAt = 57 /\ pc \in 1 .. 56 + 32
      /\ Place < 0 => \E at : Hushes(Now, at)
      /\ Place >= 0 => Place \in 0 .. 32 - 1 /\ Now = s[Place + 1]
  BY <1>1, <1>2, <1>3, StepHere
<1>5. /\ pc \in 1 .. 88 /\ p = pc - 57 /\ p \in -56 .. 31
      /\ p < 0 => \E at : Hushes(Now, at)
      /\ p >= 0 => Now = s[p + 1]
  BY <1>4 DEF Place
<1>6. Place' = pc' - 57
  BY <1>4 DEF Place, MainAt
<1>7. \A r, at : Hushes(r, at) =>
        NextPc(r) = pc + 1 /\ SeenBy("can", r).reg # "TX_CMD" /\ r.step # "get"
  BY DEF Hushes, NextPc, SeenBy, Access, Tame, NoAccess
<1>8. \A r : Calm(r) =>
        /\ NextPc(r) = pc + 1 /\ r.step # "get"
        /\ SeenBy("can", r).reg
             \in {"none", "BITTIME", "FILTER_ID", "FILTER_MASK", "IRQ_STATUS", "IRQ_EN"}
  BY DEF Calm, NextPc, SeenBy, Access, NoAccess
<1>9. \A op : LET r == [step |-> "put", at |-> "can", op |-> op] IN
              NextPc(r) = pc + 1 /\ SeenBy("can", r) = op /\ r.step # "get"
  BY DEF NextPc, SeenBy, Access
<1>10. LET r == [step |-> "least", at |-> "can", reg |-> "RX_FIFO", n |-> 2] IN
       NextPc(r) = pc + 1 /\ SeenBy("can", r).reg = "none" /\ r.step # "get"
  BY DEF NextPc, SeenBy, Access, NoAccess
<1>11. \A reg \in {"RX_ID", "RX_DATA0", "RX_DATA1"} :
         LET r == [step |-> "get", at |-> "can", reg |-> reg] IN
         /\ NextPc(r) = pc + 1 /\ SeenBy("can", r).reg = "none" /\ r.step = "get"
         /\ LET waiting == rx_fifo[rx_tail % FIFO_DEPTH] IN
            Kept(r) = CASE reg = "RX_ID" -> waiting.id
                        [] reg = "RX_DATA0" -> waiting.body.data0
                        [] reg = "RX_DATA1" -> waiting.body.data1
  BY DEF NextPc, SeenBy, Access, NoAccess, Kept
<1>12. /\ s[2] = [step |-> "put", at |-> "can", op |-> [reg |-> "CTRL", value |-> LoopMode]]
       /\ \A i \in {1, 3, 4, 5, 6, 7} : Calm(s[i])
       /\ Sends(s, 8, Frame1) /\ Sends(s, 13, Frame2)
       /\ s[18] = [step |-> "least", at |-> "can", reg |-> "RX_FIFO", n |-> 2]
       /\ Drains(s, 19) /\ Drains(s, 23)
  BY CanSteps DEF LoopMode
<1>13. /\ s[27].step = "put"
       /\ \A i \in 28 .. 32 : s[i].step = "put"
  <2>1. /\ s[27] = [step |-> "put", at |-> "can",
                    op |-> [reg |-> "CTRL", value |-> {"loopback", "bypass", "quiet"}]]
        /\ Sends(s, 28, Frame3)
    BY CanSteps
  <2> HIDE DEF s
  <2> QED BY <2>1 DEF Sends
<1>14. \A r : r.step = "put" => NextPc(r) = pc + 1
  BY DEF NextPc
<1> HIDE DEF s
<1> DEFINE w == SeenBy("can", Now)
<1>15. CASE p < 0
  <2>1. NextPc(Now) = pc + 1 /\ w.reg # "TX_CMD" /\ Now.step # "get"
    BY <1>5, <1>7, <1>15
  <2> HIDE DEF w
  <2>2. Place' = p + 1
    BY <1>5, <1>6, <2>1
  <2> QED BY <1>4, <1>5, <1>15, <2>1, <2>2 DEF w
<1>16. CASE p \in {0, 2, 3, 4, 5, 6}
  <2>1. Calm(Now)
    BY <1>5, <1>12, <1>16
  <2>2. /\ NextPc(Now) = pc + 1 /\ Now.step # "get"
        /\ w.reg \in {"none", "BITTIME", "FILTER_ID", "FILTER_MASK", "IRQ_STATUS", "IRQ_EN"}
    BY <1>8, <2>1
  <2> HIDE DEF w
  <2>3. Place' = p + 1 /\ CanMoves(p, p + 1, w)
    BY <1>5, <1>6, <1>16, <2>2 DEF CanMoves
  <2> QED BY <1>4, <1>5, <1>16, <2>2, <2>3 DEF w
<1>17. CASE p \in 7 .. 16
  <2>1. PICK i \in {8, 13}, f \in {Frame1, Frame2} :
             /\ i = (IF p <= 11 THEN 8 ELSE 13)
             /\ f = IF p <= 11 THEN Frame1 ELSE Frame2
    OBVIOUS
  <2>2. Sends(s, i, f) /\ p \in i - 1 .. i + 3
    BY <1>12, <1>17, <2>1
  <2>3. Now = [step |-> "put", at |-> "can",
               op |-> CASE p = i - 1 -> [reg |-> "TX_ID", value |-> f.id]
                        [] p = i -> [reg |-> "TX_DLC", value |-> f.dlc]
                        [] p = i + 1 -> [reg |-> "TX_DATA0", value |-> f.data0]
                        [] p = i + 2 -> [reg |-> "TX_DATA1", value |-> f.data1]
                        [] p = i + 3 -> [reg |-> "TX_CMD", value |-> 1]]
    BY <1>5, <1>17, <2>1, <2>2 DEF Sends
  <2>4. NextPc(Now) = pc + 1 /\ w = Now.op /\ Now.step # "get"
    BY <1>9, <2>3
  <2>5. /\ p < i + 3 => Posts(Now.op, f, p - i + 1)
        /\ p = i + 3 => Now.op.reg = "TX_CMD"
    BY <2>2, <2>3 DEF Posts
  <2> HIDE DEF w
  <2>6. CASE p <= 11
    <3>1. i = 8 /\ f = Frame1
      BY <2>1, <2>6
    <3> QED BY <1>4, <1>5, <1>6, <1>17, <2>4, <2>5, <2>6, <3>1 DEF CanMoves, w
  <2>7. CASE p > 11
    <3>1. i = 13 /\ f = Frame2
      BY <1>5, <2>1, <2>7
    <3> QED BY <1>4, <1>5, <1>6, <1>17, <2>4, <2>5, <2>7, <3>1 DEF CanMoves, w
  <2> QED BY <1>5, <2>6, <2>7
<1>18. CASE p = 1
  <2>1. Now = [step |-> "put", at |-> "can", op |-> [reg |-> "CTRL", value |-> LoopMode]]
    BY <1>5, <1>12, <1>18
  <2>2. NextPc(Now) = pc + 1 /\ w.reg = "CTRL" /\ w.value = LoopMode /\ Now.step # "get"
    BY <1>9, <2>1
  <2> QED BY <1>4, <1>5, <1>6, <1>18, <2>2 DEF CanMoves
<1>19. CASE p = 17
  <2>1. NextPc(Now) = pc + 1 /\ w.reg = "none" /\ Now.step # "get"
    BY <1>5, <1>10, <1>12, <1>19
  <2> QED BY <1>4, <1>5, <1>6, <1>19, <2>1 DEF CanMoves
<1>20. CASE p \in {18, 19, 20, 22, 23, 24}
  <2>1. PICK reg \in {"RX_ID", "RX_DATA0", "RX_DATA1"} :
          /\ Now = [step |-> "get", at |-> "can", reg |-> reg]
          /\ reg = CASE p \in {18, 22} -> "RX_ID" [] p \in {19, 23} -> "RX_DATA0"
                     [] p \in {20, 24} -> "RX_DATA1"
    BY <1>5, <1>12, <1>20 DEF Drains
  <2>2. /\ NextPc(Now) = pc + 1 /\ w.reg = "none" /\ Now.step = "get"
        /\ LET waiting == rx_fifo[rx_tail % FIFO_DEPTH] IN
           Kept(Now) = CASE reg = "RX_ID" -> waiting.id
                         [] reg = "RX_DATA0" -> waiting.body.data0
                         [] reg = "RX_DATA1" -> waiting.body.data1
    BY <1>11, <2>1
  <2> HIDE DEF w
  <2>3. Place' = p + 1 /\ CanMoves(p, p + 1, w)
    BY <1>5, <1>6, <1>20, <2>2 DEF CanMoves
  <2>4. /\ p \in {18, 22} => Kept(Now) = rx_fifo[rx_tail % FIFO_DEPTH].id
        /\ p \in {19, 23} => Kept(Now) = rx_fifo[rx_tail % FIFO_DEPTH].body.data0
        /\ p \in {20, 24} => Kept(Now) = rx_fifo[rx_tail % FIFO_DEPTH].body.data1
    BY <2>1, <2>2
  <2> QED BY <1>4, <1>5, <1>20, <2>2, <2>3, <2>4 DEF w
<1>21. CASE p \in {21, 25}
  <2>1. Now = [step |-> "put", at |-> "can", op |-> [reg |-> "RX_FIFO", value |-> {"pop"}]]
    BY <1>5, <1>12, <1>21 DEF Drains
  <2>2. NextPc(Now) = pc + 1 /\ w.reg = "RX_FIFO" /\ w.value = {"pop"} /\ Now.step # "get"
    BY <1>9, <2>1
  <2> QED BY <1>4, <1>5, <1>6, <1>21, <2>2 DEF CanMoves
<1>22. CASE p > 25
  <2>1. Now.step = "put"
    <3>1. p \in 26 .. 31
      BY <1>5, <1>22
    <3> QED BY <1>5, <1>13, <3>1
  <2>2. NextPc(Now) = pc + 1
    BY <1>14, <2>1
  <2> QED BY <1>4, <1>5, <1>6, <1>22, <2>1, <2>2 DEF CanMoves
<1> QED BY <1>5, <1>15, <1>16, <1>17, <1>18, <1>19, <1>20, <1>21, <1>22

\* The queue is empty when main() of a fresh start begins: no frame has been sent since the
\* reset, or qar_sdk_init has flushed what an earlier program left.
LEMMA CanEmpty ==
  ASSUME InitInv', CanOrder, demo = "can", NEW p \in Int, p = Place, MainAt = 57, p = -1, pc' = 57,
         FreshStart, inited' = inited, mepc' = 0, NEW w, CanWrites(w), w.reg # "TX_CMD"
  PROVE  rx_head' = rx_tail'
<1>1. CASE restarts = 0
  <2>1. CanShape /\ rx_head = rx_tail
    BY <1>1 DEF CanOrder, CanShape
  <2>2. \A k, f : NextTail(k, f) = rx_tail
    BY <2>1, Pointers DEF CanShape, NextTail, RxEntries, PTR_SPAN
  <2>3. /\ w.reg \notin {"TX_CMD", "RX_FIFO"} => UNCHANGED fifoVars
        /\ w.reg = "RX_FIFO" => /\ rx_tail' = NextTail("pop" \in w.value, "flush" \in w.value)
                                /\ UNCHANGED <<rx_fifo, rx_head>>
    BY CanFacts
  <2> QED BY <2>1, <2>2, <2>3 DEF fifoVars
<1>2. CASE restarts # 0
  <2>1. PICK s : s = qar_sdk_init[42]
    OBVIOUS
  <2>2. Wrote(s, "can", "RX_FIFO")
    BY <2>1, SdkWrites
  <2>3. MainAt' = 57
    BY DEF MainAt
  <2>4. \A i \in 1 .. pc' - 1 : Lasts(qar_sdk_init[i])'
    BY <1>2, <2>3 DEF InitInv, FreshStart
  <2>5. 42 \in 1 .. pc' - 1
    OBVIOUS
  <2>6. Lasts(s)'
    <3>1. Lasts(qar_sdk_init[42])'
      BY <2>4, <2>5
    <3> QED BY <2>1, <3>1 DEF Lasts
  <2> QED BY <2>2, <2>6 DEF Lasts, Wrote
<1> QED BY <1>1, <1>2

\* What it keeps, of whatever start
LEMMA CanLog ==
  ASSUME ControlInv, demo = "can", NEW fast, NEW rx, NEW in, Execute(fast, rx, in),
         NEW p, p = Place
  PROVE  IF p \in {18, 19, 20, 22, 23, 24}
         THEN Got' = Got + 1 /\ log' = Append(log, Kept(Now))
         ELSE Got' = Got /\ log' = log
<1>1. /\ Running /\ pc' = NextPc(Now) /\ demo' = demo
      /\ log' = IF Now.step = "get" THEN Append(log, Kept(Now)) ELSE log
  BY DEF Execute
<1>2. /\ p \in Int /\ Place' = p + 1
      /\ Now.step = "get" <=> p \in {18, 19, 20, 22, 23, 24}
  BY <1>1, CanProgram
<1>3. /\ Got = IF p <= 18 THEN 0 ELSE IF p <= 21 THEN p - 18 ELSE IF p = 22 THEN 3
               ELSE IF p <= 25 THEN p - 19 ELSE 6
      /\ Got' = IF p + 1 <= 18 THEN 0 ELSE IF p + 1 <= 21 THEN p + 1 - 18
                ELSE IF p + 1 = 22 THEN 3 ELSE IF p + 1 <= 25 THEN p + 1 - 19 ELSE 6
  BY <1>1, <1>2 DEF Got
<1>4. CASE p \notin {18, 19, 20, 22, 23, 24}
  <2>1. p <= 17 \/ p = 21 \/ p >= 25
    BY <1>2, <1>4
  <2>2. Got' = Got
    BY <1>2, <1>3, <2>1
  <2> QED BY <1>1, <1>2, <1>4, <2>2
<1>5. CASE p \in {18, 19, 20, 22, 23, 24}
  <2>1. Got' = Got + 1
    BY <1>3, <1>5
  <2> QED BY <1>1, <1>2, <1>5, <2>1
<1> QED BY <1>4, <1>5

\* A step of the program after a fresh start
LEMMA CanRuns ==
  ASSUME ControlInv, InitInv', CanOrder, demo = "can", Len(log) = Got, FreshStart,
         NEW fast, NEW rx, NEW in, Execute(fast, rx, in)
  PROVE  CanOrder' /\ Reads
<1>1. /\ Running /\ Edge(Now.at, Now.step, Access(Now), fast, rx, in)
      /\ pc' = NextPc(Now) /\ demo' = demo /\ inited' = inited /\ restarts' = restarts
      /\ log' = IF Now.step = "get" THEN Append(log, Kept(Now)) ELSE log
  BY DEF Execute
<1>2. PICK op, at, step, w : /\ op = Access(Now) /\ at = Now.at /\ step = Now.step
                             /\ w = SeenBy("can", Now)
  OBVIOUS
<1>3. CanWrites(w)
  <2>1. w = (IF at = "can" THEN op ELSE NoAccess) /\ Edge(at, step, op, fast, rx, in)
    BY <1>1, <1>2 DEF SeenBy
  <2> QED BY <2>1, EdgeCan
<1>4. PICK p, q : p = Place /\ q = Place'
  OBVIOUS
<1>5. /\ pc \in 1 .. 88 /\ MainAt = 57 /\ p \in Int /\ p = pc - 57 /\ q = p + 1
      /\ p < 0 => w.reg # "TX_CMD"
      /\ p >= 0 => CanMoves(p, p + 1, w)
      /\ p \notin {18, 19, 20, 22, 23, 24} => step # "get"
      /\ p \in {18, 22} => step = "get" /\ Kept(Now) = rx_fifo[rx_tail % FIFO_DEPTH].id
      /\ p \in {19, 23} => step = "get" /\ Kept(Now) = rx_fifo[rx_tail % FIFO_DEPTH].body.data0
      /\ p \in {20, 24} => step = "get" /\ Kept(Now) = rx_fifo[rx_tail % FIFO_DEPTH].body.data1
  BY <1>1, <1>2, <1>4, CanProgram
<1>6. CanMoves(p, q, w)
  <2>1. CASE p >= 0
    BY <1>5, <2>1
  <2>2. CASE p < 0
    <3>1. q = 0 => rx_head' = rx_tail'
      <4> SUFFICES ASSUME q = 0 PROVE rx_head' = rx_tail'
        OBVIOUS
      <4>1. p = -1 /\ pc # 0
        BY <1>5
      <4>2. pc' = 57
        <5>1. MainAt' = 57 /\ pc' \in Nat
          BY <1>5 DEF MainAt, InitInv, ControlInv
        <5>2. Place' = pc' - 57
          BY <5>1 DEF Place
        <5>3. pc' - 57 = 0
          BY <1>4, <5>2, Zenon
        <5> QED BY <5>1, <5>3
      <4>3. mepc' = 0
        BY <1>1 DEF InitInv, ControlInv
      <4> QED BY <1>1, <1>3, <1>4, <1>5, <4>1, <4>2, <4>3, CanEmpty
    <3> QED BY <1>5, <2>2, <3>1 DEF CanMoves
  <2> QED BY <1>5, <2>1, <2>2
<1>7. CanOrder'
  BY <1>1, <1>3, <1>4, <1>5, <1>6, CanKept
<1>8. IF p \in {18, 19, 20, 22, 23, 24}
      THEN Got' = Got + 1 /\ log' = Append(log, Kept(Now))
      ELSE Got' = Got /\ log' = log
  BY <1>4, CanLog
<1>9. CASE p \notin {18, 19, 20, 22, 23, 24}
  BY <1>7, <1>8, <1>9 DEF Reads
<1>10. CASE p \in {18, 19, 20, 22, 23, 24}
  <2>1. PICK f : f = IF p <= 20 THEN Frame1 ELSE Frame2
    OBVIOUS
  <2>2. rx_fifo[rx_tail % FIFO_DEPTH] = Carried(f)
    <3>1. CanAt(p)
      BY <1>4, <1>5, CanPlaces
    <3> QED BY <1>10, <2>1, <3>1 DEF CanAt, WaitTwo, WaitOne
  <2>3. PICK v : v = CASE p \in {18, 22} -> f.id [] p \in {19, 23} -> f.data0
                       [] p \in {20, 24} -> f.data1
    OBVIOUS
  <2>4. log' = Append(log, v)
    <3>1. /\ p \in {18, 22} => Kept(Now) = f.id
          /\ p \in {19, 23} => Kept(Now) = f.data0
          /\ p \in {20, 24} => Kept(Now) = f.data1
      BY <1>5, <2>2 DEF Carried
    <3>2. Kept(Now) = v
      BY <1>10, <2>3, <3>1
    <3> QED BY <1>8, <1>10, <3>2
  <2>5. Got' = Got + 1 /\ Got = IF p <= 20 THEN p - 18 ELSE p - 19
    <3>1. Got = IF p <= 18 THEN 0 ELSE IF p <= 21 THEN p - 18 ELSE IF p = 22 THEN 3
                ELSE IF p <= 25 THEN p - 19 ELSE 6
      BY <1>4 DEF Got
    <3> QED BY <1>8, <1>10, <3>1
  <2>6. Grows(v)
    <3>1. PICK e, n : e = Expected /\ n = Len(log)
      OBVIOUS
    <3>2. PICK f1, f2 : f1 = Frame1 /\ f2 = Frame2
      OBVIOUS
    <3>3. /\ Len(e) = 6 /\ e[1] = f1.id /\ e[2] = f1.data0 /\ e[3] = f1.data1
          /\ e[4] = f2.id /\ e[5] = f2.data0 /\ e[6] = f2.data1
      BY <3>1, <3>2, ExpectedParts
    <3>4. f = IF p <= 20 THEN f1 ELSE f2
      BY <2>1, <3>2
    <3>5. n = IF p <= 20 THEN p - 18 ELSE p - 19
      BY <2>5, <3>1
    <3>6. n + 1 \in 1 .. 6 /\ v = e[n + 1]
      BY <1>10, <2>3, <3>3, <3>4, <3>5
    <3> QED BY <3>1, <3>3, <3>6 DEF Grows
  <2> QED BY <1>7, <2>4, <2>5, <2>6 DEF Reads
<1> QED BY <1>9, <1>10

--------------------------------------------------------------------------------
(* The reads of the programs, one step of the system after the other *)

\* The log grows by the next value, or stays, or is cleared, with the program's place.
Keeps ==
  \/ log' = log /\ (pc' # 0 => Len(log) = Got')
  \/ log' = <<>> /\ Got' = 0
  \/ Got' = Len(log) + 1 /\ \E v : Grows(v) /\ log' = Append(log, v)

\* An edge at which the program rests, starts, or starts again
Rests == Place' = Place /\ restarts' = restarts /\ inited' = inited
Starts == Place = -57 /\ Place' = (IF inited' THEN -56 ELSE 0) /\ restarts' = restarts
Again == Place' = -57 /\ restarts' = restarts + 1 /\ inited' = inited
Idles == \E fast, rx, in : Edge("none", "none", NoAccess, fast, rx, in)

LEMMA Aside ==
  ASSUME [FirmwareNext]_firmwareVars, ControlInv, restarts \in Nat,
         demo \in {"can", "spi", "adc"}, pc # 0 => Len(log) = Got
  PROVE  /\ demo' = demo /\ Place \in Int /\ Place' \in Int
         /\ \/ \E fast, rx, in : Execute(fast, rx, in)
            \/ Keeps /\ Idles /\ (Rests \/ Starts)
            \/ Keeps /\ Idles /\ demo = "can" /\ Again
            \/ Keeps /\ UNCHANGED firmwareVars
<1>1. ControlInv' /\ MainAt = 57 /\ MainAt' = 57
  BY ControlStep, SdkWrites DEF MainAt
<1>2. /\ pc \in Nat /\ pc' \in Nat /\ Place = pc - 57 /\ Place' = pc' - 57
  BY <1>1 DEF ControlInv, Place
<1>3. Place \in Int /\ Place' \in Int
  BY <1>2
<1>4. demo' = demo
  BY FirmwareSteps DEF Execute, Interrupt, Boot, Compute, Restart, Echo, firmwareVars
<1>5. Place' = Place => Got' = Got
  BY <1>4 DEF Got
<1>6. Place' \in {-56, 0} => Got' = 0
  <2>1. demo = "can" /\ Place' \in {-56, 0} => Got' = 0
    BY <1>4 DEF Got
  <2>2. demo = "spi" /\ Place' \in {-56, 0} => Got' = 0
    BY <1>4 DEF Got
  <2>3. demo = "adc" /\ Place' \in {-56, 0} => Got' = 0
    BY <1>4 DEF Got
  <2> QED BY <2>1, <2>2, <2>3
<1>7. ASSUME NEW fast, NEW rx, NEW in, Compute(fast, rx, in)
      PROVE  Keeps /\ Idles /\ Rests
  <2>1. /\ Edge("none", "none", NoAccess, fast, rx, in)
        /\ pc' = pc /\ log' = log /\ restarts' = restarts /\ inited' = inited
    BY <1>7 DEF Compute, programVars
  <2>2. Place' = Place
    BY <1>2, <2>1
  <2> QED BY <1>5, <2>1, <2>2 DEF Keeps, Idles, Rests
<1>8. ASSUME NEW fast, NEW rx, NEW in, Boot(fast, rx, in)
      PROVE  Keeps /\ Idles /\ Starts
  <2>1. /\ Edge("none", "none", NoAccess, fast, rx, in)
        /\ pc = 0 /\ pc' = (IF inited' THEN 1 ELSE 57)
        /\ log' = <<>> /\ restarts' = restarts
    BY <1>1, <1>8 DEF Boot
  <2>2. Place = -57 /\ Place' = (IF inited' THEN -56 ELSE 0)
    BY <1>2, <2>1
  <2>3. Got' = 0
    BY <1>6, <2>2
  <2> QED BY <2>1, <2>2, <2>3 DEF Keeps, Idles, Starts
<1>9. ASSUME NEW fast, NEW rx, NEW in, Restart(fast, rx, in)
      PROVE  Keeps /\ Idles /\ demo = "can" /\ Again
  <2>1. /\ Edge("none", "none", NoAccess, fast, rx, in) /\ inited' = inited
        /\ demo = "can" /\ pc' = 0 /\ restarts' = restarts + 1 /\ log' = log
    BY <1>9 DEF Restart, Restartable
  <2>2. Place' = -57
    BY <1>2, <2>1
  <2> QED BY <2>1, <2>2 DEF Keeps, Idles, Again
<1>10. ASSUME UNCHANGED firmwareVars PROVE Keeps
  <2>1. pc' = pc /\ log' = log
    BY <1>10 DEF firmwareVars, programVars
  <2>2. Place' = Place
    BY <1>2, <2>1
  <2> QED BY <1>5, <2>1, <2>2 DEF Keeps
<1>11. /\ ~\E fast, rx, in : Interrupt(fast, rx, in)
       /\ ~\E fast : Echo(fast)
  BY DEF Interrupt, Strikes, Echo
<1> QED BY <1>3, <1>4, <1>7, <1>8, <1>9, <1>10, <1>11, FirmwareSteps

LEMMA ReadsKeep ==
  ASSUME Len(log) = Got, Reads
  PROVE  Keeps
BY DEF Reads, Keeps

\* Of a start that is not fresh the shape of the registers is known, and how much is kept.
LEMMA CanReads ==
  ASSUME ReadInv, InitInv', [FirmwareNext]_firmwareVars, demo = "can"
  PROVE  CanShape' /\ (FreshStart' => CanOrder') /\ Keeps
<1>1. /\ ControlInv /\ CanShape /\ (FreshStart => CanOrder) /\ restarts \in Nat
      /\ (pc # 0 => Len(log) = Got)
  BY DEF ReadInv, InitInv
<1>2. /\ Place \in Int /\ Place' \in Int
      /\ \/ \E fast, rx, in : Execute(fast, rx, in)
         \/ Keeps /\ Idles /\ (Rests \/ Starts)
         \/ Keeps /\ Idles /\ Again
         \/ Keeps /\ UNCHANGED firmwareVars
  BY <1>1, Aside
<1>3. PICK p \in Int, q \in Int : p = Place /\ q = Place'
  BY <1>2
<1>4. PICK w : w = NoAccess
  OBVIOUS
<1>5. w.reg = "none"
  BY <1>4 DEF NoAccess
<1>6. Idles => CanWrites(w)
  <2> SUFFICES ASSUME NEW fast, NEW rx, NEW in, Edge("none", "none", NoAccess, fast, rx, in)
               PROVE  CanWrites(w)
    BY DEF Idles
  <2> QED BY <1>4, EdgeCan
<1>7. UNCHANGED canVars => CanWrites(w)
  BY <1>5 DEF CanWrites
<1>8. CanWrites(w) => CanShape'
  BY <1>1, CanShapes
<1>9. ASSUME NEW fast, NEW rx, NEW in, Execute(fast, rx, in)
      PROVE  CanShape' /\ (FreshStart' => CanOrder') /\ Keeps
  <2>1. /\ Len(log) = Got /\ restarts' = restarts /\ inited' = inited
        /\ Edge(Now.at, Now.step, Access(Now), fast, rx, in)
    BY <1>1, <1>9 DEF Execute, Running
  <2>2. CanShape'
    <3>1. PICK at, step, op : at = Now.at /\ step = Now.step /\ op = Access(Now)
      OBVIOUS
    <3>2. PICK u : u = IF at = "can" THEN op ELSE NoAccess
      OBVIOUS
    <3>3. Edge(at, step, op, fast, rx, in)
      BY <2>1, <3>1
    <3>4. CanWrites(u)
      BY <3>2, <3>3, EdgeCan
    <3> QED BY <1>1, <3>4, CanShapes
  <2>3. FreshStart' = FreshStart
    BY <2>1 DEF FreshStart
  <2>4. CASE FreshStart
    BY <1>1, <1>9, <2>1, <2>2, <2>4, CanRuns, ReadsKeep
  <2>5. CASE ~FreshStart
    <3>1. \A v : Grows(v)
      BY <2>5 DEF Grows
    <3>2. \/ Got' = Got + 1 /\ log' = Append(log, Kept(Now))
          \/ Got' = Got /\ log' = log
      BY <1>1, <1>3, <1>9, CanLog
    <3> QED BY <2>1, <2>2, <2>3, <2>5, <3>1, <3>2 DEF Keeps
  <2> QED BY <2>4, <2>5
<1>10. ASSUME CanWrites(w), q = p, restarts' = restarts, inited' = inited
       PROVE  FreshStart' => CanOrder'
  <2>1. CanMoves(p, q, w)
    BY <1>5, <1>10 DEF CanMoves
  <2>2. FreshStart' => CanOrder
    BY <1>1, <1>10 DEF FreshStart
  <2> QED BY <1>3, <1>10, <2>1, <2>2, CanKept
<1>11. ASSUME Idles, Rests PROVE FreshStart' => CanOrder'
  BY <1>3, <1>6, <1>10, <1>11 DEF Rests
<1>12. ASSUME Idles, Starts PROVE FreshStart' => CanOrder'
  <2> SUFFICES ASSUME FreshStart' PROVE CanOrder'
    OBVIOUS
  <2>1. p = -57 /\ q = (IF inited' THEN -56 ELSE 0) /\ restarts' = restarts
    BY <1>3, <1>12 DEF Starts
  <2>2. q \in {-56, 0} /\ (q = 0 => restarts = 0)
    BY <2>1 DEF FreshStart
  <2>3. restarts = 0 => rx_head' = rx_tail'
    <3> SUFFICES ASSUME restarts = 0 PROVE rx_head' = rx_tail'
      OBVIOUS
    <3>1. CanOrder
      BY <1>1 DEF FreshStart
    <3>2. rx_head = rx_tail
      BY <1>3, <2>1, <3>1, CanPlaces
    <3>3. UNCHANGED fifoVars
      BY <1>5, <1>6, <1>12, CanFacts
    <3> QED BY <3>2, <3>3 DEF fifoVars
  <2>4. CanAt(q)'
    BY <2>2, <2>3 DEF CanAt
  <2>5. CanShape'
    BY <1>6, <1>8, <1>12
  <2> QED BY <1>3, <2>1, <2>3, <2>4, <2>5, CanPlaces
<1>13. ASSUME Idles, Again PROVE FreshStart' => CanOrder'
  <2>1. q = -57 /\ restarts' # 0
    BY <1>1, <1>3, <1>13 DEF Again
  <2>2. CanShape'
    BY <1>6, <1>8, <1>13
  <2>3. CanAt(q)'
    BY <2>1 DEF CanAt
  <2> QED BY <1>3, <2>1, <2>2, <2>3, CanPlaces
<1>14. ASSUME UNCHANGED firmwareVars PROVE CanShape' /\ (FreshStart' => CanOrder')
  <2>1. pc' = pc /\ restarts' = restarts /\ inited' = inited /\ UNCHANGED canVars
    BY <1>14 DEF firmwareVars, programVars
  <2>2. q = p
    BY <1>3, <2>1 DEF Place, MainAt
  <2> QED BY <1>7, <1>8, <1>10, <2>1, <2>2
<1> QED BY <1>2, <1>6, <1>8, <1>9, <1>11, <1>12, <1>13, <1>14

LEMMA SpiReads ==
  ASSUME ReadInv, [FirmwareNext]_firmwareVars, demo = "spi"
  PROVE  SpiOrder' /\ Keeps
<1>1. /\ ControlInv /\ SpiOrder /\ restarts \in Nat /\ (pc # 0 => Len(log) = Got)
  BY DEF ReadInv, InitInv
<1>2. /\ Place \in Int /\ Place' \in Int
      /\ \/ \E fast, rx, in : Execute(fast, rx, in)
         \/ Keeps /\ Idles /\ (Rests \/ Starts)
         \/ Keeps /\ UNCHANGED firmwareVars
  BY <1>1, Aside
<1>3. ASSUME NEW fast, NEW rx, NEW in, Execute(fast, rx, in) PROVE SpiOrder' /\ Keeps
  <2>1. Len(log) = Got
    BY <1>1, <1>3 DEF Execute, Running
  <2> QED BY <1>1, <1>3, <2>1, SpiRuns, ReadsKeep
<1>4. ASSUME Idles, Rests \/ Starts PROVE SpiOrder'
  <2>1. PICK fast, rx, in : Edge("none", "none", NoAccess, fast, rx, in)
    BY <1>4 DEF Idles
  <2>2. NoAccess.reg = "none"
    BY DEF NoAccess
  <2>3. PICK w : w = NoAccess
    OBVIOUS
  <2>4. \/ Place <= 4 /\ Place' <= 4
        \/ \E k \in {5, 7, 9} : Place \in k .. k + 1 /\ Place' \in k .. k + 1
        \/ Place > 10 /\ Place' > 10
    BY <1>2, <1>4 DEF Rests, Starts
  <2>5. Place' > 1 => Place' = Place
    BY <1>4 DEF Rests, Starts
  <2>6. Place' \in {6, 10} => ~spi_rx_empty
    BY <1>1, <2>5 DEF SpiOrder
  <2>7. /\ w = IF "none" = "spi" THEN NoAccess ELSE NoAccess
        /\ w.reg \notin {"TXDATA", "RXDATA"}
        /\ Place' > 1 => IF w.reg = "CTRL" THEN w.value.loopback ELSE Place > 1
    BY <2>2, <2>3, <2>5
  <2> QED BY <1>1, <1>2, <2>1, <2>4, <2>6, <2>7, SpiKept
<1>5. ASSUME UNCHANGED firmwareVars PROVE SpiOrder'
  <2>1. pc' = pc /\ UNCHANGED spiVars
    BY <1>5 DEF firmwareVars, programVars, echoVars
  <2>2. Place' = Place
    BY <2>1 DEF Place, MainAt
  <2> QED BY <1>1, <2>1, <2>2 DEF SpiOrder, Home, Away, spiVars, spi_rx_empty
<1> QED BY <1>2, <1>3, <1>4, <1>5

LEMMA AdcReads ==
  ASSUME ReadInv, [FirmwareNext]_firmwareVars, demo = "adc"
  PROVE  AdcOrder' /\ Keeps
<1>1. /\ ControlInv /\ AdcOrder /\ restarts \in Nat /\ (pc # 0 => Len(log) = Got)
  BY DEF ReadInv, InitInv
<1>2. /\ Place \in Int /\ Place' \in Int
      /\ \/ \E fast, rx, in : Execute(fast, rx, in)
         \/ Keeps /\ Idles /\ (Rests \/ Starts)
         \/ Keeps /\ UNCHANGED firmwareVars
  BY <1>1, Aside
<1>3. ASSUME NEW fast, NEW rx, NEW in, Execute(fast, rx, in) PROVE AdcOrder' /\ Keeps
  <2>1. Len(log) = Got
    BY <1>1, <1>3 DEF Execute, Running
  <2> QED BY <1>1, <1>3, <2>1, AdcRuns, ReadsKeep
<1>4. ASSUME Idles, Rests \/ Starts PROVE AdcOrder'
  <2>1. PICK fast, rx, in : Edge("none", "none", NoAccess, fast, rx, in)
    BY <1>4 DEF Idles
  <2>2. PICK w : w = NoAccess
    OBVIOUS
  <2>3. w.reg = "none"
    BY <2>2 DEF NoAccess
  <2>4. PICK sample : AdcEdge(w, sample)
    BY <2>1, <2>2, EdgeAdc
  <2>5. AdcMoves(w)
    BY <1>2, <1>4, <2>3 DEF AdcMoves, Rests, Starts
  <2> QED BY <1>1, <1>2, <2>4, <2>5, AdcKept
<1>5. ASSUME UNCHANGED firmwareVars PROVE AdcOrder'
  <2>1. pc' = pc /\ UNCHANGED adcVars
    BY <1>5 DEF firmwareVars, programVars
  <2>2. Place' = Place
    BY <2>1 DEF Place, MainAt
  <2> QED BY <1>1, <2>1, <2>2 DEF AdcOrder, adcVars
<1> QED BY <1>2, <1>3, <1>4, <1>5

LEMMA ReadInvInit == FirmwareInit => ReadInv /\ IsSeq(log)
<1> SUFFICES ASSUME FirmwareInit PROVE ReadInv /\ IsSeq(log)
  OBVIOUS
<1>1. InitInv
  BY InitInvInit
<1>2. pc = 0 /\ log = <<>> /\ restarts = 0
  BY DEF FirmwareInit
<1>3. Place = -57 /\ Place \in Int
  BY <1>2, SdkWrites DEF Place, MainAt
<1>4. IsSeq(log) /\ Len(log) = 0
  <2>1. <<>> \in Seq({}) /\ Len(<<>>) = 0
    OBVIOUS
  <2> QED BY <1>2, <2>1 DEF IsSeq
<1>5. ReadsInOrder
  <2>1. IsSeq(Expected)
    BY <1>4, ExpectedParts
  <2>2. PICK e : e = Expected
    OBVIOUS
  <2>3. SubSeq(e, 1, 0) = <<>>
    BY <2>1, <2>2, Prefixes
  <2> QED BY <1>2, <1>4, <2>2, <2>3 DEF ReadsInOrder, ReadsOwnFrames
<1>6. CanShape /\ CanOrder
  <2>1. rx_head = 0 /\ rx_tail = 0 /\ tx_body \in Body /\ rx_fifo \in [0 .. FIFO_DEPTH - 1 -> Frame]
    BY DEF FirmwareInit, CanInit
  <2>2. tx_body = [dlc |-> tx_body.dlc, data0 |-> tx_body.data0, data1 |-> tx_body.data1]
    BY <2>1, FirmwareAssumption
  <2>3. rx_fifo = [r \in 0 .. FIFO_DEPTH - 1 |-> rx_fifo[r]]
    BY <2>1
  <2>4. rx_tail \in 0 .. PTR_SPAN - 1 /\ rx_head \in 0 .. PTR_SPAN - 1
    BY <2>1 DEF PTR_SPAN
  <2>5. CanShape
    BY <2>2, <2>3, <2>4 DEF CanShape
  <2>6. /\ Place \notin 2 .. 26 /\ Place \notin 7 .. 11 /\ Place \notin 12 .. 16
        /\ Place \notin 17 .. 21 /\ Place \notin 22 .. 25
    BY <1>3
  <2> QED BY <2>1, <2>5, <2>6, Zenon DEF CanOrder, CanShape
<1>7. SpiOrder
  <2>1. spi_tx \in [SpiRow -> Byte] /\ spi_rx \in [SpiRow -> Byte] /\ Home(0)
    BY DEF FirmwareInit, EchoInit, SpiInit, Home
  <2>2. spi_tx = [r \in SpiRow |-> spi_tx[r]] /\ spi_rx = [r \in SpiRow |-> spi_rx[r]]
    BY <2>1
  <2> QED BY <1>3, <2>1, <2>2 DEF SpiOrder
<1>8. AdcOrder
  <2>1. ~manual_start_pending
    BY DEF FirmwareInit, AdcInit
  <2> QED BY <1>3, <2>1 DEF AdcOrder
<1> QED BY <1>1, <1>2, <1>4, <1>5, <1>6, <1>7, <1>8 DEF ReadInv

LEMMA ReadInvStep ==
  ASSUME ReadInv, IsSeq(log), [FirmwareNext]_firmwareVars
  PROVE  ReadInv' /\ IsSeq(log')
<1>1. InitInv /\ InitInv' /\ ControlInv /\ ControlInv' /\ ReadsInOrder
  BY InitInvStep DEF ReadInv, InitInv
<1>2. demo' = demo
  BY FirmwareSteps DEF Execute, Interrupt, Boot, Compute, Restart, Echo, firmwareVars
<1>3. restarts \in Nat
  BY DEF ReadInv
<1>4. restarts' \in Nat /\ (FreshStart' => FreshStart \/ log' = <<>>)
  <2>1. ASSUME NEW fast, NEW rx, NEW in, Execute(fast, rx, in)
        PROVE  restarts' = restarts /\ inited' = inited
    BY <2>1 DEF Execute
  <2>2. ASSUME NEW fast, NEW rx, NEW in, Interrupt(fast, rx, in)
        PROVE  restarts' = restarts /\ inited' = inited
    BY <2>2 DEF Interrupt
  <2>3. ASSUME NEW fast, NEW rx, NEW in, Boot(fast, rx, in)
        PROVE  restarts' = restarts /\ log' = <<>>
    BY <2>3 DEF Boot
  <2>4. ASSUME NEW fast, NEW rx, NEW in, Compute(fast, rx, in)
        PROVE  restarts' = restarts /\ inited' = inited
    BY <2>4 DEF Compute
  <2>5. ASSUME NEW fast, NEW rx, NEW in, Restart(fast, rx, in)
        PROVE  restarts' = restarts + 1 /\ inited' = inited
    BY <2>5 DEF Restart
  <2>6. ASSUME NEW fast, Echo(fast)
        PROVE  restarts' = restarts /\ inited' = inited
    BY <2>6 DEF Echo
  <2>7. ASSUME UNCHANGED firmwareVars
        PROVE  restarts' = restarts /\ inited' = inited
    BY <2>7 DEF firmwareVars
  <2>8. \/ restarts' \in {restarts, restarts + 1} /\ inited' = inited
        \/ restarts' = restarts /\ log' = <<>>
    BY <2>1, <2>2, <2>3, <2>4, <2>5, <2>6, <2>7, FirmwareSteps
  <2> QED BY <1>3, <2>8 DEF FreshStart
<1>5. /\ demo = "can" => CanShape' /\ (FreshStart' => CanOrder') /\ Keeps
      /\ demo = "spi" => SpiOrder' /\ Keeps
      /\ demo = "adc" => AdcOrder' /\ Keeps
  BY <1>1, CanReads, SpiReads, AdcReads
<1>6. \/ log' = log
      \/ log' = <<>>
      \/ \E v : Grows(v) /\ log' = Append(log, v)
  <2>1. CASE demo \in {"can", "spi", "adc"}
    BY <1>5, <2>1 DEF Keeps
  <2>2. CASE demo \notin {"can", "spi", "adc"}
    <3>1. \A v : Grows(v)
      BY <2>2 DEF Grows
    <3>2. \/ log' = log
          \/ log' = <<>>
          \/ \E v : log' = Append(log, v)
      BY FirmwareSteps
      DEF Execute, Interrupt, Boot, Compute, Restart, Echo, firmwareVars, programVars
    <3> QED BY <3>1, <3>2
  <2> QED BY <2>1, <2>2
<1>7. /\ ReadsInOrder' /\ IsSeq(log') /\ Len(log) \in Nat
      /\ log' = <<>> => Len(log') = 0
      /\ \A v : log' = Append(log, v) => Len(log') = Len(log) + 1
  BY <1>1, <1>2, <1>4, <1>6, OrderKept
<1>8. Keeps /\ pc' # 0 => Len(log') = Got'
  BY <1>7 DEF Keeps
<1>9. demo' \in {"can", "spi", "adc"} /\ pc' # 0 => Len(log') = Got'
  BY <1>2, <1>5, <1>8
<1> QED BY <1>1, <1>2, <1>4, <1>5, <1>7, <1>9 DEF ReadInv

\* devkit/examples/c/can_loopback.c and spi_loopback.c read back the frames and the bytes
\* that they sent, in order, at whatever pace the SPI shifter runs; and a client of
\* devkit/hal/adc.h that leaves continuous conversion reads the channel that it then asks
\* for.  can_loopback does so after reset, and when it is started again without a reset,
\* after any number of starts with constructors and without, through a start-up that runs
\* qar_sdk_init, whatever is in the queue by then.  Of a start without a reset that runs no
\* constructor, as crt0.S's, nothing is claimed: ReadsOwnFrames does not hold of it.
THEOREM ReadsAreInOrder == FirmwareSpec => []ReadsInOrder
<1>1. FirmwareInit => ReadInv /\ IsSeq(log)
  BY ReadInvInit
<1>2. ReadInv /\ IsSeq(log) /\ [FirmwareNext]_firmwareVars => ReadInv' /\ IsSeq(log')
  BY ReadInvStep
<1>3. IsSeq(log') => IsSeq(log)'
  BY DEF IsSeq
<1>4. ReadInv => ReadsInOrder
  BY DEF ReadInv
<1> QED BY <1>1, <1>2, <1>3, <1>4, PTL DEF FirmwareSpec
================================================================================
