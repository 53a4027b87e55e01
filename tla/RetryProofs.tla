----------------------------- MODULE RetryProofs -----------------------------
(***************************************************************************)
(* Machine-checked proofs about Retry: the range of the delays for every   *)
(* width of a Duration and every configuration, and what the verdict of a  *)
(* retried delete means, for any number of attempts.                       *)
(***************************************************************************)
EXTENDS Retry, NatFacts, TLAPS

-----------------------------------------------------------------------------
(* Powers of two. *)
LEMMA Pow2Def ==
    /\ Pow2 \in [Nat -> Nat \ {0}]
    /\ \A n \in Nat : Pow2[n] = IF n = 0 THEN 1 ELSE 2 * Pow2[n - 1]
<1>. DEFINE S == Nat \ {0}
            G == [n \in Nat |-> [v \in S |-> 2 * v]]
<1>0. PICK f : Recursion(f, S, 1, G)
  <2>1. G \in [Nat -> [S -> S]] /\ 1 \in S
    OBVIOUS
  <2>. HIDE DEF G, S
  <2>. QED  BY <2>1, RecursiveFunction
<1>1. f \in [Nat -> S] /\ \A n \in Nat : f[n] = IF n = 0 THEN 1 ELSE G[n][f[n - 1]]
  <2>. HIDE DEF G, S
  <2>. QED  BY <1>0 DEF Recursion
<1>2. f = [n \in Nat |-> IF n = 0 THEN 1 ELSE 2 * f[n - 1]]
  <2>1. \A n \in Nat : n # 0 => n - 1 \in Nat /\ f[n - 1] \in Nat \ {0}
    BY <1>1
  <2>2. \A n \in Nat : n # 0 => G[n][f[n - 1]] = 2 * f[n - 1]
    BY <2>1
  <2>. QED  BY <1>1, <2>2
<1>3. Pow2 = [n \in Nat |-> IF n = 0 THEN 1 ELSE 2 * Pow2[n - 1]]
  BY <1>2 DEF Pow2
<1>4. \A n \in Nat : Pow2[n] = IF n = 0 THEN 1 ELSE 2 * Pow2[n - 1]
  BY <1>3
<1>5. \A n \in Nat : Pow2[n] \in Nat \ {0}
  <2>. DEFINE T == {n \in Nat : Pow2[n] \in Nat \ {0}}
  <2>1. 0 \in T
    BY <1>4
  <2>2. \A n \in T : n + 1 \in T
    <3>1. \A n \in Nat : Pow2[n + 1] = 2 * Pow2[n]
      BY <1>4
    <3>. QED  BY <3>1
  <2>. HIDE DEF T
  <2>3. T \in SUBSET Nat
    BY DEF T
  <2>4. T = Nat
    BY <2>1, <2>2, <2>3, NatSetInduction
  <2>. QED  BY <2>4 DEF T
<1>. QED  BY <1>3, <1>4, <1>5

LEMMA Pow2Add == \A a, b \in Nat : Pow2[a + b] = Pow2[a] * Pow2[b]
<1>. SUFFICES ASSUME NEW a \in Nat PROVE \A b \in Nat : Pow2[a + b] = Pow2[a] * Pow2[b]
  OBVIOUS
<1>. DEFINE T == {b \in Nat : Pow2[a + b] = Pow2[a] * Pow2[b]}
<1>1. 0 \in T
  BY Pow2Def
<1>2. ASSUME NEW b \in T PROVE b + 1 \in T
  <2>1. Pow2[a + (b + 1)] = 2 * Pow2[a + b] /\ Pow2[b + 1] = 2 * Pow2[b]
    BY Pow2Def
  <2>2. \A x, y \in Nat : 2 * (x * y) = x * (2 * y)
    OBVIOUS
  <2>3. Pow2[a] \in Nat /\ Pow2[b] \in Nat
    BY Pow2Def
  <2>. QED  BY <2>1, <2>2, <2>3
<1>3. T = Nat
  <2>1. T \in SUBSET Nat
    OBVIOUS
  <2>. HIDE DEF T
  <2>. QED  BY <1>1, <1>2, <2>1, NatSetInduction
<1>. QED  BY <1>3

LEMMA Pow2Mono == \A a, b \in Nat : a <= b => Pow2[a] <= Pow2[b]
<1>. SUFFICES ASSUME NEW a \in Nat, NEW b \in Nat, a <= b PROVE Pow2[a] <= Pow2[b]
  OBVIOUS
<1>1. Pow2[b] = Pow2[a] * Pow2[b - a]
  <2>1. b - a \in Nat /\ a + (b - a) = b
    OBVIOUS
  <2>. QED  BY <2>1, Pow2Add
<1>2. Pow2[a] \in Nat \ {0} /\ Pow2[b - a] \in Nat \ {0}
  BY Pow2Def
<1>3. \A x, y \in Nat \ {0} : x <= x * y
  OBVIOUS
<1>. QED  BY <1>1, <1>2, <1>3
-----------------------------------------------------------------------------
(* A configuration as WithDefaults leaves it. *)
CfgOK ==
    /\ cfg \in RawConfigs
    /\ cfg.MaxAttempts > 0 /\ cfg.InitialBackoff > 0 /\ cfg.MaxBackoff > 0
    /\ cfg.Jitter \in 0 .. 10
    /\ cfg.InitialBackoff < Pow2[Width - 1] /\ cfg.MaxBackoff < Pow2[Width - 1]

LEMMA DefaultsOK == \A c \in Configs : cfg = WithDefaults(c) => CfgOK
<1>. SUFFICES ASSUME NEW c \in Configs, cfg = WithDefaults(c) PROVE CfgOK
  OBVIOUS
<1>1. cfg.InitialBackoff \in Durations /\ cfg.MaxBackoff \in Durations
  BY RetryConstants
<1>2. Pow2[Width - 1] \in Nat
  BY RetryConstants, Pow2Def
<1>3. cfg.InitialBackoff < Pow2[Width - 1] /\ cfg.MaxBackoff < Pow2[Width - 1]
  BY <1>1, <1>2 DEF Durations
<1>4. c \in RawConfigs
  BY RetryConstants
<1>. QED  BY <1>3, <1>4 DEF RawConfigs, WithDefaults, CfgOK

LEMMA ZeroDuration == 0 \in Durations /\ Pow2[Width - 1] \in Nat \ {0}
<1>1. Pow2[Width - 1] \in Nat \ {0}
  BY RetryConstants, Pow2Def
<1>. QED  BY <1>1 DEF Durations

(* A product that is reduced modulo a power of two to a positive value is  *)
(* no smaller than the factor that is a power.                             *)
LEMMA WrappedProduct ==
    ASSUME NEW W \in Nat, NEW i \in Nat \ {0}, NEW n \in Nat,
           (i * Pow2[n]) % Pow2[W] > 0
    PROVE  (i * Pow2[n]) % Pow2[W] >= Pow2[n]
<1>. DEFINE x == (i * Pow2[n]) % Pow2[W]
            q == (i * Pow2[n]) \div Pow2[W]
<1>1. Pow2[n] \in Nat \ {0} /\ Pow2[W] \in Nat \ {0}
  BY Pow2Def
<1>2. i * Pow2[n] \in Nat
  BY <1>1
<1>3. x \in Nat /\ q \in Nat /\ i * Pow2[n] = Pow2[W] * q + x /\ x < Pow2[W]
  <2>1. \A a \in Nat, b \in Nat \ {0} :
           /\ a % b \in Nat /\ a \div b \in Nat /\ a % b < b
           /\ a = (b * (a \div b)) + (a % b)
    OBVIOUS
  <2>. QED  BY <1>1, <1>2, <2>1
<1>4. CASE n >= W
  <2>1. PICK d \in Nat : n = W + d
    <3>1. n - W \in Nat /\ n = W + (n - W)
      BY <1>4
    <3>. QED  BY <3>1
  <2>2. Pow2[n] = Pow2[W] * Pow2[d] /\ Pow2[d] \in Nat
    BY <2>1, Pow2Add, Pow2Def
  <2>3. x = Pow2[W] * (i * Pow2[d] - q)
    <3>1. \A a, b, c, e \in Int : a * (b * c) = b * e + x => x = b * (a * c - e)
      BY <1>3
    <3>. QED  BY <1>1, <1>3, <2>2, <3>1
  <2>4. x = 0
    <3>1. \A b \in Nat \ {0}, k \in Int : b * k >= 0 /\ b * k < b => b * k = 0
      OBVIOUS
    <3>2. i * Pow2[d] - q \in Int
      BY <2>2, <1>3
    <3>. HIDE DEF x, q
    <3>. QED  BY <1>1, <1>3, <2>3, <3>1, <3>2
  <2>. QED  BY <2>4
<1>5. CASE n < W
  <2>1. PICK d \in Nat : W = n + d
    <3>1. W - n \in Nat /\ W = n + (W - n)
      BY <1>5
    <3>. QED  BY <3>1
  <2>2. Pow2[W] = Pow2[n] * Pow2[d] /\ Pow2[d] \in Nat \ {0}
    BY <2>1, Pow2Add, Pow2Def
  <2>3. x = Pow2[n] * (i - Pow2[d] * q)
    <3>1. \A a, b, c, e \in Int : a * b = (b * c) * e + x => x = b * (a - c * e)
      BY <1>3
    <3>. QED  BY <1>1, <1>3, <2>2, <3>1
  <2>4. i - Pow2[d] * q >= 1
    <3>1. \A b \in Nat \ {0}, k \in Int : b * k > 0 => k >= 1
      OBVIOUS
    <3>2. i - Pow2[d] * q \in Int
      BY <2>2, <1>3
    <3>. HIDE DEF q
    <3>. QED  BY <1>1, <2>3, <3>1, <3>2
  <2>5. x >= Pow2[n]
    <3>1. \A b \in Nat \ {0}, k \in Int : k >= 1 => b * k >= b
      OBVIOUS
    <3>2. i - Pow2[d] * q \in Int
      BY <2>2, <1>3
    <3>. HIDE DEF x, q
    <3>. QED  BY <1>1, <2>3, <2>4, <3>1, <3>2
  <2>. QED  BY <2>5
<1>. QED  BY <1>4, <1>5

(* The capped delay of an attempt is between its floor and its ceiling. *)
LEMMA CappedRange ==
    ASSUME CfgOK, attempt \in Nat \ {0}
    PROVE  /\ Capped(Shifted(attempt - 1)) \in Nat \ {0}
           /\ Floor \in Nat \ {0} /\ Ceiling \in Nat \ {0} /\ Ceiling <= cfg.MaxBackoff
           /\ Floor <= Capped(Shifted(attempt - 1)) /\ Capped(Shifted(attempt - 1)) <= Ceiling
<1>. DEFINE n == attempt - 1
            p == Pow2[n]
            h == Pow2[Width - 1]
            f == Pow2[Width]
            E == cfg.InitialBackoff * p
            x == E % f
            s == Shifted(n)
<1>1. cfg.InitialBackoff \in Nat \ {0} /\ cfg.MaxBackoff \in Nat \ {0} /\ n \in Nat
  BY DEF CfgOK, RawConfigs
<1>2. p \in Nat \ {0} /\ h \in Nat \ {0} /\ f = 2 * h
  BY <1>1, RetryConstants, Pow2Def
<1>3. E \in Nat \ {0} /\ Exponential = E
  <2>1. \A a, b \in Nat \ {0} : a * b \in Nat \ {0}
    OBVIOUS
  <2>. QED  BY <1>1, <1>2, <2>1 DEF Exponential
<1>4. x \in Nat /\ x < f /\ (E < f => x = E)
  <2>1. \A a \in Nat, b \in Nat \ {0} : a % b \in Nat /\ a % b < b /\ (a < b => a % b = a)
    OBVIOUS
  <2>. QED  BY <1>2, <1>3, <2>1
<1>5. x > 0 => x >= p
  BY <1>1, RetryConstants, WrappedProduct
<1>6. s = IF x >= h THEN x - f ELSE x
  BY DEF Shifted
<1>7. /\ Floor = Lesser(cfg.MaxBackoff, IF E < h THEN E ELSE p)
      /\ Ceiling = Lesser(cfg.MaxBackoff, IF E < h THEN E ELSE cfg.MaxBackoff)
  BY <1>3 DEF Floor, Ceiling
<1>. HIDE DEF n, p, h, f, E, x, s
<1>8. s \in Int /\ (s > 0 => s = x /\ s >= p) /\ (E < h => s = E)
  BY <1>2, <1>3, <1>4, <1>5, <1>6
<1>9. /\ Capped(s) \in Nat \ {0}
      /\ Floor \in Nat \ {0} /\ Ceiling \in Nat \ {0} /\ Ceiling <= cfg.MaxBackoff
      /\ Floor <= Capped(s) /\ Capped(s) <= Ceiling
  BY <1>1, <1>2, <1>3, <1>7, <1>8 DEF Capped, Lesser
<1>. QED  BY <1>9 DEF s, n

(* What conversion makes of a delay beyond the durations is no more. *)
LEMMA ConvertedRange ==
    ASSUME NEW u \in Nat, NEW t \in Converted(u)
    PROVE  t \in Durations /\ t <= u /\ (u < Pow2[Width - 1] => t = u)
BY ZeroDuration DEF Converted, Durations

(* A delay that jitter makes of the capped one. *)
LEMMA DelaysRange ==
    ASSUME CfgOK, attempt \in Nat \ {0}, NEW t \in Delays
    PROVE  /\ t \in Durations
           /\ 10 * t <= (10 + cfg.Jitter) * Ceiling
           /\ (10 + cfg.Jitter) * Ceiling <= 10 * Pow2[Width - 1]
                => t >= ((10 - cfg.Jitter) * Floor) \div 10
<1>. DEFINE d == Capped(Shifted(attempt - 1))
            j == cfg.Jitter
            m == Ceiling
            h == Pow2[Width - 1]
<1>1. d \in Nat \ {0} /\ Floor \in Nat \ {0} /\ Floor <= d /\ d <= m
  BY CappedRange
<1>2. j \in 0 .. 10 /\ m \in Nat \ {0} /\ m < h /\ h \in Nat \ {0}
  BY CappedRange, ZeroDuration DEF CfgOK, RawConfigs
<1>3. CASE j = 0
  <2>1. t = d
    BY <1>3 DEF Delays
  <2>. HIDE DEF d, j, m, h
  <2>2. t \in Nat /\ Floor <= t /\ t <= m
    BY <1>1, <2>1
  <2>3. t \in Durations
    BY <1>2, <2>2 DEF Durations, h
  <2>4. 10 * t <= (10 + j) * m /\ t >= ((10 - j) * Floor) \div 10
    BY <1>1, <1>2, <1>3, <2>2
  <2>. QED  BY <2>3, <2>4 DEF j, m
<1>4. CASE j # 0
  <2>1. PICK u \in ((10 - j) * d) \div 10 .. ((10 + j) * d - 1) \div 10 : t \in Converted(u)
    BY <1>4 DEF Delays
  <2>. HIDE DEF d, j, m, h
  <2>2. /\ (10 - j) * d \in Nat /\ (10 - j) * Floor \in Nat
        /\ (10 - j) * Floor <= (10 - j) * d
        /\ (10 + j) * d \in Nat /\ (10 + j) * m \in Nat
        /\ (10 + j) * d <= (10 + j) * m
    <3>1. \A a, b, c \in Nat : b <= c => a * b <= a * c /\ a * b \in Nat /\ a * c \in Nat
      OBVIOUS
    <3>2. 10 - j \in Nat /\ 10 + j \in Nat
      BY <1>2
    <3>. QED  BY <1>1, <1>2, <3>1, <3>2
  <2>3. u \in Nat /\ u >= ((10 - j) * Floor) \div 10 /\ 10 * u < (10 + j) * m
    <3>1. \A a, b, c, e \in Nat :
             u \in b \div 10 .. (c - 1) \div 10 /\ a <= b /\ c <= e
               => u \in Nat /\ u >= a \div 10 /\ 10 * u < e
      OBVIOUS
    <3>. QED  BY <2>1, <2>2, <3>1
  <2>4. t \in Durations /\ t <= u /\ (u < h => t = u)
    BY <2>1, <2>3, ConvertedRange DEF h
  <2>5. t \in Int
    BY <1>2, <2>4 DEF Durations, h
  <2>. DEFINE top == (10 + j) * m
              low == ((10 - j) * Floor) \div 10
  <2>6. top \in Nat /\ u >= low /\ 10 * u < top
    BY <2>2, <2>3
  <2>. HIDE DEF top, low
  <2>7. 10 * t <= top /\ (top <= 10 * h => t >= low)
    BY <1>2, <2>3, <2>4, <2>5, <2>6
  <2>. QED  BY <2>4, <2>7 DEF top, low, j, m, h
<1>. QED  BY <1>3, <1>4
-----------------------------------------------------------------------------
(* Attempts are left while the call backs off. *)
AttemptsLeft == pc = "backoff" => attempt < cfg.MaxAttempts

(* The last try's verdict is "ok" only if the object was seen to be gone.  *)
OkMeansAbsent == verdict = "ok" => absent

(* Before a probe fails with a retryable Kind, at most one object has been *)
(* deleted, and the call does not go back to a try.                        *)
OneKill ==
    ~unverified => killed = {} \/ (pc \in {"probe", "done"} /\ \E g : killed = {g})

IInv == CfgOK /\ TypeOK /\ AttemptsLeft /\ DelayBounded /\ OkMeansAbsent /\ OneKill

LEMMA ClassifyKind == \A c : ClassifyCode(c) \in Kinds
<1>. SUFFICES ASSUME NEW c PROVE ClassifyCode(c) \in Kinds
  OBVIOUS
<1>1. CASE \E k \in DOMAIN classByCode : c \in classByCode[k]
  <2>1. ClassifyCode(c) \in DOMAIN classByCode
    BY <1>1 DEF ClassifyCode
  <2>2. DOMAIN classByCode \subseteq Kinds
    BY DEF classByCode, Kinds
  <2>. QED  BY <2>1, <2>2
<1>2. CASE ~\E k \in DOMAIN classByCode : c \in classByCode[k]
  BY <1>2 DEF ClassifyCode, Kinds
<1>. QED  BY <1>1, <1>2

(* What a probe is taken for: it never ends the call with success while    *)
(* the identity names an object.                                           *)
LEMMA ProbeVerdict ==
    ASSUME NEW q \in Probes
    PROVE  /\ ConfirmAbsent(q) \in Kinds \cup {"ok"}
           /\ ConfirmAbsent(q) = "ok" => Gone(object)
<1>1. CASE q = Check(~Gone(object), FALSE, 0, "Unknown")
  BY <1>1 DEF Check, ConfirmAbsent, Kinds
<1>2. CASE q = Check(FALSE, TRUE, 0, "Transport")
  BY <1>2 DEF Check, ConfirmAbsent, Kinds
<1>3. ASSUME NEW c \in Answers, q = Check(FALSE, TRUE, c, ClassifyCode(c))
      PROVE  /\ ConfirmAbsent(q) \in Kinds \cup {"ok"}
             /\ ConfirmAbsent(q) = "ok" => Gone(object)
  <2>1. ClassifyCode(c) \in Kinds /\ (ClassifyCode(c) = "NotFound" => Gone(object))
    BY ClassifyKind DEF Answers
  <2>. HIDE DEF Kinds
  <2>2. ConfirmAbsent(q) = IF ClassifyCode(c) # "NotFound" THEN ClassifyCode(c) ELSE "ok"
    BY <1>3 DEF Check, ConfirmAbsent
  <2>3. "ok" \notin Kinds
    BY DEF Kinds
  <2>. QED  BY <2>1, <2>2, <2>3
<1>. QED  BY <1>1, <1>2, <1>3 DEF Probes

LEMMA EndStep ==
    ASSUME IInv, NEW v \in Kinds \cup {"ok"}, End(v), UNCHANGED call
    PROVE  /\ CfgOK' /\ AttemptsLeft' /\ DelayBounded'
           /\ pc' = IF pc' = "backoff" THEN "backoff" ELSE "done"
           /\ pc' = "backoff" => v = "Transient"
           /\ delay' \in Durations /\ verdict' = v
           /\ attempt' \in 1 .. cfg'.MaxAttempts
<1>. USE DEF IInv, End, call
<1>1. attempt \in Nat \ {0} /\ cfg' = cfg /\ attempt' = attempt
  BY DEF TypeOK, CfgOK, RawConfigs
<1>2. CfgOK' /\ AttemptsLeft'
  BY <1>1 DEF CfgOK, AttemptsLeft
<1>3. pc' = "backoff" => delay' \in Delays /\ v = "Transient"
  BY DEF Retryable
<1>4. Floor' = Floor /\ Ceiling' = Ceiling
  BY <1>1 DEF Floor, Ceiling, Exponential
<1>5. /\ pc' = "backoff" \/ (pc' = "done" /\ delay' = 0)
      /\ verdict' = v
  OBVIOUS
<1>6. pc' = "backoff" =>
         /\ delay' \in Durations
         /\ 10 * delay' <= (10 + cfg.Jitter) * Ceiling
         /\ (10 + cfg.Jitter) * Ceiling <= 10 * Pow2[Width - 1]
              => delay' >= ((10 - cfg.Jitter) * Floor) \div 10
  BY <1>1, <1>3, DelaysRange
<1>7. DelayBounded'
  BY <1>1, <1>4, <1>6 DEF DelayBounded
<1>8. attempt' \in 1 .. cfg'.MaxAttempts
  BY <1>1 DEF TypeOK
<1>. QED  BY <1>2, <1>3, <1>5, <1>6, <1>7, <1>8, ZeroDuration

LEMMA InitInv == Init => IInv
<1>. SUFFICES ASSUME Init PROVE IInv
  OBVIOUS
<1>1. CfgOK
  BY DefaultsOK DEF Init
<1>2. TypeOK
  <2>1. cfg \in RawConfigs /\ attempt \in 1 .. cfg.MaxAttempts
    BY <1>1 DEF Init, CfgOK, RawConfigs
  <2>2. object \in 0 .. guids /\ guids \in 1 .. MaxGuid /\ killed \subseteq 1 .. guids
    BY RetryConstants DEF Init
  <2>3. verdict \in Kinds
    BY DEF Init, Kinds
  <2>4. cfg.Jitter \in 0 .. 10 /\ delay \in Durations
    BY <1>1, ZeroDuration DEF Init, CfgOK
  <2>. QED  BY <2>1, <2>2, <2>3, <2>4 DEF Init, TypeOK
<1>3. AttemptsLeft /\ DelayBounded /\ OkMeansAbsent /\ OneKill
  BY DEF Init, AttemptsLeft, DelayBounded, OkMeansAbsent, OneKill
<1>. QED  BY <1>1, <1>2, <1>3 DEF IInv

(* What every step of the call or of its environment does to absent.       *)
Observed == absent' = (absent \/ Gone(object')) /\ UNCHANGED call

(* The object deleted is one that was under the DN. *)
LEMMA RemoveType ==
    ASSUME TypeOK, Remove \/ UNCHANGED <<object, killed>>, guids' = guids
    PROVE  object' \in 0 .. guids' /\ guids' \in 1 .. MaxGuid /\ killed' \subseteq 1 .. guids'
<1>1. object \in Nat /\ object <= guids /\ guids' \in 1 .. MaxGuid
  BY RetryConstants DEF TypeOK
<1>2. object' \in {object, 0} /\ killed' \subseteq killed \cup ({object} \ {0})
  BY DEF Remove, Gone
<1>3. killed \subseteq 1 .. guids' /\ {object} \ {0} \subseteq 1 .. guids'
  BY <1>1 DEF TypeOK
<1>. QED  BY <1>1, <1>2, <1>3

LEMMA AbsentType ==
    ASSUME TypeOK, Observed
    PROVE  absent' \in BOOLEAN /\ (absent => absent') /\ form' \in {"guid", "dn"}
BY DEF TypeOK, Observed, Gone, call

LEMMA RefusedStep ==
    ASSUME IInv, Refused, Observed
    PROVE  IInv'
<1>1. PICK c \in Answers : End(ClassifyCode(c))
  BY DEF Refused
<1>2. ClassifyCode(c) \in Kinds
  BY ClassifyKind
<1>3. /\ CfgOK' /\ AttemptsLeft' /\ DelayBounded' /\ pc' \in {"backoff", "done"}
      /\ delay' \in Durations /\ verdict' \in Kinds /\ attempt' \in 1 .. cfg'.MaxAttempts
  BY <1>1, <1>2, EndStep DEF Observed
<1>4. UNCHANGED <<object, guids, killed, unverified, cancelled>> /\ pc = "try"
  BY <1>1 DEF Refused, server, End
<1>5. TypeOK'
  BY <1>3, <1>4, AbsentType DEF IInv, TypeOK, CfgOK
<1>6. OkMeansAbsent'
  BY <1>3 DEF OkMeansAbsent, Kinds
<1>7. OneKill'
  BY <1>4 DEF IInv, OneKill
<1>. QED  BY <1>3, <1>5, <1>6, <1>7 DEF IInv

LEMMA AnswerLostStep ==
    ASSUME IInv, AnswerLost, Observed
    PROVE  IInv'
<1>1. PICK v \in {"Transport", "Replication"} : End(v)
  BY DEF AnswerLost
<1>2. v \in Kinds /\ v # "Transient"
  BY DEF Kinds
<1>3. /\ CfgOK' /\ AttemptsLeft' /\ DelayBounded' /\ pc' = "done"
      /\ delay' \in Durations /\ verdict' \in Kinds /\ attempt' \in 1 .. cfg'.MaxAttempts
  BY <1>1, <1>2, EndStep DEF Observed
<1>4. /\ UNCHANGED <<guids, unverified, cancelled>> /\ pc = "try"
      /\ Remove \/ UNCHANGED <<object, killed>>
  BY <1>1 DEF AnswerLost, End
<1>5. TypeOK'
  BY <1>3, <1>4, AbsentType, RemoveType DEF IInv, TypeOK, CfgOK
<1>6. OkMeansAbsent'
  BY <1>3 DEF OkMeansAbsent, Kinds
<1>7. OneKill'
  BY <1>3, <1>4 DEF IInv, OneKill, Remove
<1>. QED  BY <1>3, <1>5, <1>6, <1>7 DEF IInv

LEMMA ReturnedStep ==
    ASSUME IInv, Returned, Observed
    PROVE  IInv'
<1>. USE DEF Returned, IInv
<1>1. CfgOK' /\ AttemptsLeft' /\ DelayBounded'
  BY DEF CfgOK, AttemptsLeft, DelayBounded, Observed, call
<1>2. TypeOK'
  BY <1>1, AbsentType, RemoveType DEF TypeOK, CfgOK, Observed, call
<1>3. OkMeansAbsent'
  BY AbsentType DEF OkMeansAbsent
<1>4. OneKill'
  BY DEF OneKill, Remove
<1>. QED  BY <1>1, <1>2, <1>3, <1>4

(* A probe that finds the identity without an object sees it while absent  *)
(* is recorded; one that fails retryably after a delete is recorded, too.  *)
LEMMA ProbeStep ==
    ASSUME IInv, Probe, Observed
    PROVE  IInv'
<1>1. PICK q \in Probes :
         /\ End(ConfirmAbsent(q))
         /\ unverified' = (unverified \/ (killed # {} /\ Retryable(ConfirmAbsent(q))))
  BY DEF Probe
<1>. DEFINE v == ConfirmAbsent(q)
<1>2. v \in Kinds \cup {"ok"} /\ (v = "ok" => Gone(object))
  BY ProbeVerdict
<1>3. /\ CfgOK' /\ AttemptsLeft' /\ DelayBounded' /\ pc' \in {"backoff", "done"}
      /\ pc' = "backoff" => v = "Transient"
      /\ delay' \in Durations /\ verdict' = v /\ attempt' \in 1 .. cfg'.MaxAttempts
  <2>. HIDE DEF v
  <2>. QED  BY <1>1, <1>2, EndStep DEF Observed, v
<1>4. UNCHANGED <<object, guids, killed, cancelled>> /\ pc = "probe" /\ form' = form
  BY <1>1 DEF Probe, server, End, Observed, call
<1>5. unverified' \in BOOLEAN /\ (~unverified' => ~unverified /\ (killed = {} \/ v # "Transient"))
  BY <1>1 DEF IInv, TypeOK, Retryable
<1>. HIDE DEF v
<1>6. TypeOK'
  BY <1>2, <1>3, <1>4, <1>5, AbsentType DEF IInv, TypeOK, CfgOK
<1>7. OkMeansAbsent'
  BY <1>2, <1>3, <1>4 DEF OkMeansAbsent, Observed, Gone
<1>8. OneKill'
  BY <1>3, <1>4, <1>5 DEF IInv, OneKill
<1>. QED  BY <1>3, <1>6, <1>7, <1>8 DEF IInv

LEMMA BackoffStep ==
    ASSUME IInv, TimerFires \/ ContextDone, Observed
    PROVE  IInv'
<1>. USE DEF TimerFires, ContextDone, IInv
<1>1. cfg' = cfg /\ form' = form /\ UNCHANGED <<object, guids, killed, unverified, cancelled>>
  BY DEF Observed, call, server
<1>2. CfgOK' /\ AttemptsLeft' /\ DelayBounded'
  BY <1>1 DEF CfgOK, AttemptsLeft, DelayBounded
<1>3. attempt' \in 1 .. cfg'.MaxAttempts
  BY <1>1 DEF AttemptsLeft, TypeOK, CfgOK, RawConfigs
<1>4. TypeOK'
  BY <1>1, <1>2, <1>3, AbsentType, ZeroDuration DEF TypeOK, CfgOK, Kinds
<1>5. OkMeansAbsent'
  BY AbsentType DEF OkMeansAbsent
<1>6. OneKill'
  BY <1>1 DEF OneKill
<1>. QED  BY <1>2, <1>4, <1>5, <1>6

LEMMA EnvironmentStep ==
    ASSUME IInv, Cancel \/ Others, Observed
    PROVE  IInv'
<1>. USE DEF Cancel, Others, IInv
<1>1. cfg' = cfg /\ form' = form /\ UNCHANGED <<pc, attempt, delay, verdict, killed, unverified>>
  BY DEF Observed, call, server
<1>2. CfgOK' /\ AttemptsLeft' /\ DelayBounded'
  <2>1. Floor' = Floor /\ Ceiling' = Ceiling
    BY <1>1 DEF Floor, Ceiling, Exponential
  <2>. QED  BY <1>1, <2>1 DEF CfgOK, AttemptsLeft, DelayBounded
<1>3. object' \in 0 .. guids' /\ guids' \in 1 .. MaxGuid /\ guids <= guids'
  BY RetryConstants DEF TypeOK, server
<1>4. killed' \subseteq 1 .. guids' /\ cancelled' \in BOOLEAN
  <2>1. guids \in Int /\ guids' \in Int /\ 1 .. guids \subseteq 1 .. guids'
    BY <1>3 DEF TypeOK
  <2>. QED  BY <1>1, <2>1 DEF TypeOK
<1>5. TypeOK'
  BY <1>1, <1>2, <1>3, <1>4, AbsentType DEF TypeOK, CfgOK
<1>6. OkMeansAbsent'
  BY <1>1, AbsentType DEF OkMeansAbsent
<1>7. OneKill'
  BY <1>1 DEF OneKill
<1>. QED  BY <1>2, <1>5, <1>6, <1>7

LEMMA NextInv == IInv /\ [Next]_vars => IInv'
<1>1. ASSUME IInv, Next PROVE IInv'
  BY <1>1, RefusedStep, AnswerLostStep, ReturnedStep, ProbeStep, BackoffStep, EnvironmentStep
     DEF Next, Step, Environment, Observed
<1>2. ASSUME IInv, UNCHANGED vars PROVE IInv'
  <2>1. Floor' = Floor /\ Ceiling' = Ceiling
    BY <1>2 DEF vars, Floor, Ceiling, Exponential
  <2>. QED  BY <1>2, <2>1 DEF vars, IInv, CfgOK, TypeOK, AttemptsLeft, DelayBounded, OkMeansAbsent, OneKill
<1>. QED  BY <1>1, <1>2

(* The inductive invariant holds in every reachable state. *)
LEMMA Invariance == Spec => []IInv
BY InitInv, NextInv, PTL DEF Spec
-----------------------------------------------------------------------------
(* The call's state stays well-formed: the attempts never exceed what the  *)
(* configuration allows (retry.go:19-34).                                  *)
THEOREM TypeCorrect == Spec => []TypeOK
BY Invariance, PTL DEF IInv

(* For every width of a Duration, for all delays that are Durations and at *)
(* every attempt, Backoff sleeps the exponential delay of its attempt, up  *)
(* to the cap, give or take the jitter; once the shift overflows no longer *)
(* than the cap and its jitter, and no less than the attempt's power of    *)
(* two and its jitter, wherever it overflows to (retry.go:42-53).          *)
THEOREM DelaysBounded == Spec => []DelayBounded
BY Invariance, PTL DEF IInv

(* A delete that reports success is right, however many attempts it took   *)
(* and whatever was lost on the way: the object it names has been absent   *)
(* since it began (spec.go:66-93).                                         *)
THEOREM SuccessIsAbsence == Spec => []SuccessMeansAbsent
<1>1. IInv => SuccessMeansAbsent
  BY DEF IInv, OkMeansAbsent, SuccessMeansAbsent
<1>. QED  BY <1>1, Invariance, PTL

(* A delete that was executed is issued again only after a probe that      *)
(* failed with a retryable Kind (errors.go:21-47, 97-105).                 *)
THEOREM ReissueIsInformed == Spec => []NoBlindReissue
<1>1. IInv => NoBlindReissue
  <2>1. ASSUME NEW g, killed = {g} PROVE Cardinality(killed) = 1
    BY <2>1, FS_Singleton
  <2>2. killed = {} => Cardinality(killed) = 0
    BY FS_EmptySet
  <2>. QED  BY <2>1, <2>2 DEF IInv, OneKill, NoBlindReissue
<1>. QED  BY <1>1, Invariance, PTL
=============================================================================
