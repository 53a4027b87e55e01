-------------------------------- MODULE Retry --------------------------------
(***************************************************************************)
(* Re-attempts: RetryConfig and Backoff (src/retry.go), the classification *)
(* of errors (src/errors.go) and the verdict of a delete (ConfirmAbsent,   *)
(* src/spec.go), around the loop that the contract of KindTransient        *)
(* prescribes to backends.  The loop and the server are not in this        *)
(* repository: what they do is what errors.go says a backend and a server  *)
(* do.                                                                     *)
(*                                                                         *)
(* One call deletes the object named by its GUID or its DN, while others   *)
(* delete it and create it anew and the caller may give up.                *)
(***************************************************************************)
EXTENDS Integers, FiniteSets

CONSTANTS
    Width,      \* the bits of a time.Duration, counted in 25 ms
    Configs,    \* the RetryConfigs callers pass
    Codes,      \* Win32 codes the server answers with
    MaxGuid     \* bound on the objects ever created

VARIABLES
    cfg,        \* the configuration with its defaults
    form,       \* how the call names its object: "guid" or "dn"
    pc,         \* the call: "try", "probe", "backoff" or "done"
    attempt,    \* the number of the current try, from 1
    delay,      \* what Backoff sleeps, or 0
    verdict,    \* the Kind the last try ended with, or "ok"
    cancelled,  \* the caller's context is done
    object,     \* the GUID of the object under the DN, or 0
    guids,      \* the number of GUIDs handed out
    killed,     \* history: the objects this call has deleted
    absent,     \* history: the named object has been absent during the call
    unverified  \* history: a probe failed with a retryable Kind after a delete

call   == <<cfg, form>>
server == <<object, guids>>
vars   == <<cfg, form, pc, attempt, delay, verdict, cancelled, object, guids, killed, absent, unverified>>

(* RetryConfig; Jitter in tenths. *)
RawConfigs == [MaxAttempts : Int, InitialBackoff : Int, MaxBackoff : Int, Jitter : Int]

(* Mutant of WithDefaults: a jitter above one is kept. *)
WithDefaultsAnyJitter(r) ==
    [MaxAttempts    |-> IF r.MaxAttempts <= 0 THEN 4 ELSE r.MaxAttempts,
     InitialBackoff |-> IF r.InitialBackoff <= 0 THEN 10 ELSE r.InitialBackoff,
     MaxBackoff     |-> IF r.MaxBackoff <= 0 THEN 200 ELSE r.MaxBackoff,
     Jitter         |-> IF r.Jitter < 0 THEN 2 ELSE r.Jitter]

WithDefaults(r) ==
    [MaxAttempts    |-> IF r.MaxAttempts <= 0 THEN 4 ELSE r.MaxAttempts,
     InitialBackoff |-> IF r.InitialBackoff <= 0 THEN 10 ELSE r.InitialBackoff,
     MaxBackoff     |-> IF r.MaxBackoff <= 0 THEN 200 ELSE r.MaxBackoff,
     Jitter         |-> IF r.Jitter < 0 \/ r.Jitter > 10 THEN 2 ELSE r.Jitter]

(* 1 << n. *)
Pow2[n \in Nat] == IF n = 0 THEN 1 ELSE 2 * Pow2[n - 1]

(* time.Duration, a signed integer. *)
Durations == -Pow2[Width - 1] .. Pow2[Width - 1] - 1

ASSUME RetryConstants ==
    /\ Width \in Nat \ {0} /\ MaxGuid \in Nat \ {0} /\ Codes \subseteq Nat \ {0}
    /\ Configs \subseteq RawConfigs
    /\ \A c \in Configs : {WithDefaults(c).InitialBackoff, WithDefaults(c).MaxBackoff} \subseteq Durations

(* InitialBackoff << n, in two's complement. *)
Shifted(n) ==
    LET x == (cfg.InitialBackoff * Pow2[n]) % Pow2[Width]
    IN  IF x >= Pow2[Width - 1] THEN x - Pow2[Width] ELSE x

(* Mutant of Capped: an overflow into a negative delay is not looked for. *)
CappedAbove(d) == IF d > cfg.MaxBackoff THEN cfg.MaxBackoff ELSE d

Capped(d) == IF d > cfg.MaxBackoff \/ d <= 0 THEN cfg.MaxBackoff ELSE d

(* A float64 beyond the durations converts to the last of them or to the   *)
(* least, as the build's architecture has it.                              *)
Converted(t) == IF t < Pow2[Width - 1] THEN {t} ELSE {Pow2[Width - 1] - 1, -Pow2[Width - 1]}

(* The delays jitter makes of the capped one, which it may exceed. *)
Delays ==
    LET d == Capped(Shifted(attempt - 1))
    IN  IF cfg.Jitter = 0 THEN {d}
        ELSE UNION {Converted(t) : t \in ((10 - cfg.Jitter) * d) \div 10 .. ((10 + cfg.Jitter) * d - 1) \div 10}

-----------------------------------------------------------------------------
Kinds == {"Unknown", "NotFound", "AlreadyExists", "Denied", "Constraint", "Password", "Referral",
          "Transient", "Transport", "InvalidAttribute", "Schema", "Replication", "TooManyResults",
          "Unsupported"}

classByCode ==
    [Denied        |-> {5, 8344},
     Password      |-> {1325},
     Transient     |-> {1722, 1723, 8206, 8438},
     AlreadyExists |-> {5010, 8305},
     Referral      |-> {8235},
     NotFound      |-> {8240, 8333},
     Constraint    |-> {8212, 8213, 8239, 8245, 8247, 8310, 8311, 8318, 8472}]

(* A code that is not in the table is KindUnknown. *)
ClassifyCode(code) ==
    IF \E k \in DOMAIN classByCode : code \in classByCode[k]
    THEN CHOOSE k \in DOMAIN classByCode : code \in classByCode[k] ELSE "Unknown"

(* Mutant of Retryable: a transport failure is retried. *)
RetryableTransport(kind) == kind \in {"Transient", "Transport"}

Retryable(kind) == kind = "Transient"

(* What a probe reports: the object, nothing, or that it failed. *)
Check(present, typed, code, kind) == [present |-> present, typed |-> typed, code |-> code, kind |-> kind]

(* Mutant of ConfirmAbsent: a failure nobody could classify is absence. *)
ConfirmAbsentUnknown(q) ==
    IF q.present THEN "Constraint"
    ELSE IF q.kind \in {"Unknown", "NotFound"} THEN "ok" ELSE q.kind

ConfirmAbsent(q) ==
    IF q.present THEN "Constraint"
    ELSE IF ~q.typed /\ q.code = 0 /\ q.kind = "Unknown" THEN "ok"
    ELSE IF q.kind # "NotFound" THEN q.kind ELSE "ok"

-----------------------------------------------------------------------------
(* Whether the call's identity names no object when o is under the DN. *)
Gone(o) == o = 0 \/ (form = "guid" /\ o # 1)

(* Codes the server answers with: "not found" only if that is so. *)
Answers == {c \in Codes : ClassifyCode(c) = "NotFound" => Gone(object)}

Init ==
    /\ \E c \in Configs : cfg = WithDefaults(c)
    /\ form \in {"guid", "dn"}
    /\ pc = "try" /\ attempt = 1 /\ delay = 0 /\ verdict = "Unknown" /\ cancelled = FALSE
    /\ object = 1 /\ guids = 1
    /\ killed = {} /\ absent = FALSE /\ unverified = FALSE

(* The loop: retry what may be retried while attempts are left. *)
End(v) ==
    /\ verdict' = v
    /\ \/ /\ Retryable(v) /\ attempt < cfg.MaxAttempts
          /\ pc' = "backoff" /\ delay' \in Delays
       \/ /\ ~Retryable(v) \/ attempt >= cfg.MaxAttempts
          /\ pc' = "done" /\ delay' = 0
    /\ UNCHANGED <<attempt, cancelled>>

(* The server deletes the object, if the identity names one. *)
Remove ==
    /\ object' = IF Gone(object) THEN object ELSE 0
    /\ killed' = IF Gone(object) THEN killed ELSE killed \cup {object}

(* The request is refused with a code, or before it is sent. *)
Refused ==
    /\ pc = "try"
    /\ \E c \in Answers : End(ClassifyCode(c))
    /\ UNCHANGED <<server, killed, unverified>>

(* The answer is lost, whatever the server did; a replication wait that    *)
(* times out is an answer, after the write.                                *)
AnswerLost ==
    /\ pc = "try"
    /\ \/ End("Transport") /\ UNCHANGED <<object, killed>>
       \/ End("Transport") /\ Remove
       \/ End("Replication") /\ Remove
    /\ UNCHANGED <<guids, unverified>>

(* The remove returns cleanly, executed or not. *)
Returned ==
    /\ pc = "try"
    /\ pc' = "probe"
    /\ Remove \/ UNCHANGED <<object, killed>>
    /\ UNCHANGED <<attempt, delay, verdict, cancelled, guids, unverified>>

(* The probe sees the object or its absence, is answered with a code, or   *)
(* fails on its way.                                                       *)
Probes == {Check(~Gone(object), FALSE, 0, "Unknown"), Check(FALSE, TRUE, 0, "Transport")}
              \cup {Check(FALSE, TRUE, c, ClassifyCode(c)) : c \in Answers}

Probe ==
    /\ pc = "probe"
    /\ \E q \in Probes :
          /\ End(ConfirmAbsent(q))
          /\ unverified' = (unverified \/ (killed # {} /\ Retryable(ConfirmAbsent(q))))
    /\ UNCHANGED <<server, killed>>

(* Mutant of TimerFires: the attempt is not counted. *)
TimerFiresUncounted ==
    /\ pc = "backoff"
    /\ pc' = "try" /\ delay' = 0
    /\ UNCHANGED <<attempt, verdict, cancelled, server, killed, unverified>>

(* Backoff's select: the timer, or the context if it is done; when both    *)
(* are ready either is taken.                                              *)
TimerFires ==
    /\ pc = "backoff"
    /\ pc' = "try" /\ attempt' = attempt + 1 /\ delay' = 0
    /\ UNCHANGED <<verdict, cancelled, server, killed, unverified>>

ContextDone ==
    /\ pc = "backoff" /\ cancelled
    /\ pc' = "done" /\ verdict' = "Transport" /\ delay' = 0
    /\ UNCHANGED <<attempt, cancelled, server, killed, unverified>>

Cancel ==
    /\ pc # "done" /\ ~cancelled
    /\ cancelled' = TRUE
    /\ UNCHANGED <<pc, attempt, delay, verdict, server, killed, unverified>>

(* Others delete the object, or create one under the DN. *)
Others ==
    /\ pc # "done"
    /\ \/ object # 0 /\ object' = 0 /\ UNCHANGED guids
       \/ object = 0 /\ guids < MaxGuid /\ object' = guids + 1 /\ guids' = guids + 1
    /\ UNCHANGED <<pc, attempt, delay, verdict, cancelled, killed, unverified>>

Step ==
    /\ Refused \/ AnswerLost \/ Returned \/ Probe \/ TimerFires \/ ContextDone
    /\ absent' = (absent \/ Gone(object'))
    /\ UNCHANGED call

Environment ==
    /\ Cancel \/ Others
    /\ absent' = (absent \/ Gone(object'))
    /\ UNCHANGED call

Next == Step \/ Environment

Spec == Init /\ [][Next]_vars

(* A request is answered or given up, and a timer fires. *)
FairSpec == Spec /\ WF_vars(Step)

-----------------------------------------------------------------------------
TypeOK ==
    /\ cfg \in RawConfigs /\ cfg.Jitter \in 0 .. 10 /\ form \in {"guid", "dn"}
    /\ pc \in {"try", "probe", "backoff", "done"}
    /\ attempt \in 1 .. cfg.MaxAttempts /\ delay \in Durations
    /\ verdict \in Kinds \cup {"ok"} /\ cancelled \in BOOLEAN
    /\ object \in 0 .. guids /\ guids \in 1 .. MaxGuid
    /\ killed \subseteq 1 .. guids /\ absent \in BOOLEAN /\ unverified \in BOOLEAN

Lesser(a, b) == IF a < b THEN a ELSE b

(* The exponential delay of an attempt, in whole numbers. *)
Exponential == cfg.InitialBackoff * Pow2[attempt - 1]

(* What an attempt sleeps before jitter, between these: its exponential    *)
(* delay up to the cap, while the shift is exact; once it overflows the    *)
(* cap at most, and at least the power of two it still is a multiple of.   *)
Ceiling == Lesser(cfg.MaxBackoff,
                  IF Exponential < Pow2[Width - 1] THEN Exponential ELSE cfg.MaxBackoff)

Floor == Lesser(cfg.MaxBackoff,
                IF Exponential < Pow2[Width - 1] THEN Exponential ELSE Pow2[attempt - 1])

(* Backoff sleeps the exponential delay of its attempt, and the cap when   *)
(* that is more, give or take the jitter; however many attempts there are  *)
(* and wherever the shift overflows to, no longer than the cap and its     *)
(* jitter, and no less than a floor that grows with the attempts: the cap  *)
(* does not turn into a busy loop (retry.go:36, 43-45), unless the delay   *)
(* and its jitter are more than a Duration holds.                          *)
DelayBounded ==
    pc = "backoff" =>
        /\ 10 * delay <= (10 + cfg.Jitter) * Ceiling
        /\ (10 + cfg.Jitter) * Ceiling <= 10 * Pow2[Width - 1]
              => delay >= ((10 - cfg.Jitter) * Floor) \div 10

(* A call that reports success is right: the object it names has been      *)
(* absent since it began, through lost answers, failed probes and others'  *)
(* deletes and creates (spec.go:66-93).                                    *)
SuccessMeansAbsent == pc = "done" /\ verdict = "ok" => absent

(* A delete that was executed is issued again, and may then delete an      *)
(* object created since, only after a probe that failed with a retryable   *)
(* Kind: never because an answer was lost (errors.go:21-47, 97-105).       *)
NoBlindReissue ==
    Cardinality(killed) > 1 \/ (killed # {} /\ pc = "backoff") => unverified

(* A call that backs off to issue its delete again has executed none: that *)
(* is what a Kind that may be retried means (errors.go:21-29).             *)
RetriedNeverExecuted == pc = "backoff" => killed = {}

(* Every call returns, whatever fails and whoever deletes and creates in   *)
(* the meantime: attempts are counted and delays end (retry.go:8-15).      *)
CallReturns == <>(pc = "done")
=============================================================================
