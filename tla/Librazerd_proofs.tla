------------------------- MODULE Librazerd_proofs -------------------------
(***************************************************************************)
(* Proofs about the two parts of librazerd that are modelled beside its    *)
(* calls: razerd_open (ClientOpen) and the notifications (NotifyQueue).    *)
(***************************************************************************)
EXTENDS ClientOpen, NotifyQueue, SequenceTheorems, TLAPS

-----------------------------------------------------------------------------
(* razerd_open, for any number of hot-plug events, with a daemon that may  *)
(* exit at any step and one that does not.                                 *)
(*                                                                         *)
(* The argument: at every step razerd_open holds exactly what the steps    *)
(* before it took, but for the privileged connection, which it may go      *)
(* without (Holding); so the label that a failing step jumps to gives back *)
(* all there is.                                                           *)


Do(what, r) == [do |-> what, on |-> r]

StepType == [do : {"connect", "send", "recv", "make"}, on : Resources]

LEMMA PiecesListed ==
  ASSUME NEW f \in Resources
  PROVE  /\ Revision(f) \in Seq(StepType) /\ Len(Revision(f)) = 3
         /\ Revision(f)[1] = Do("connect", f) /\ Revision(f)[2] = Do("send", f)
         /\ Revision(f)[3] = Do("recv", f)
         /\ Make(f) \in Seq(StepType) /\ Len(Make(f)) = 1 /\ Make(f)[1] = Do("make", f)
<1>1. Do("connect", f) \in StepType /\ Do("send", f) \in StepType
      /\ Do("recv", f) \in StepType /\ Do("make", f) \in StepType
  BY DEF Do, StepType
<1>2. Revision(f) = <<Do("connect", f), Do("send", f), Do("recv", f)>> /\ Make(f) = <<Do("make", f)>>
  BY DEF Revision, Make, Do
<1>3. QED
  BY <1>1, <1>2

(* Where the elements of a concatenation are.                              *)
LEMMA ConcatAt ==
  ASSUME NEW s \in Seq(StepType), NEW t \in Seq(StepType)
  PROVE  /\ s \o t \in Seq(StepType) /\ Len(s \o t) = Len(s) + Len(t)
         /\ \A i \in 1 .. Len(s) : (s \o t)[i] = s[i]
         /\ \A i \in 1 .. Len(t) : (s \o t)[Len(s) + i] = t[i]
  OBVIOUS

(* The two shapes there are: t goes on after the n elements of s with the  *)
(* three steps of a revision check, or with one step.                      *)
ThenRevision(n, s, f, t) ==
  /\ t \in Seq(StepType) /\ Len(t) = n + 3
  /\ \A i \in 1 .. n : t[i] = s[i]
  /\ t[n + 1] = Do("connect", f) /\ t[n + 2] = Do("send", f) /\ t[n + 3] = Do("recv", f)

ThenMake(n, s, f, t) ==
  /\ t \in Seq(StepType) /\ Len(t) = n + 1
  /\ \A i \in 1 .. n : t[i] = s[i]
  /\ t[n + 1] = Do("make", f)

LEMMA ThreeMore ==
  ASSUME NEW n \in Nat, NEW s \in Seq(StepType), Len(s) = n, NEW f \in Resources
  PROVE  ThenRevision(n, s, f, s \o Revision(f))
<1> DEFINE r == Revision(f)
<1>1. /\ r \in Seq(StepType) /\ Len(r) = 3
      /\ r[1] = Do("connect", f) /\ r[2] = Do("send", f) /\ r[3] = Do("recv", f)
  BY PiecesListed
<1> HIDE DEF r
<1>2. /\ s \o r \in Seq(StepType) /\ Len(s \o r) = Len(s) + Len(r)
      /\ \A i \in 1 .. Len(s) : (s \o r)[i] = s[i]
      /\ \A i \in 1 .. Len(r) : (s \o r)[Len(s) + i] = r[i]
  BY <1>1, ConcatAt
<1>3. (s \o r)[n + 1] = r[1] /\ (s \o r)[n + 2] = r[2] /\ (s \o r)[n + 3] = r[3]
  BY <1>1, <1>2
<1>4. QED
  BY <1>1, <1>2, <1>3 DEF r, ThenRevision

LEMMA OneMore ==
  ASSUME NEW n \in Nat, NEW s \in Seq(StepType), Len(s) = n, NEW f \in Resources
  PROVE  ThenMake(n, s, f, s \o Make(f))
<1> DEFINE r == Make(f)
<1>1. r \in Seq(StepType) /\ Len(r) = 1 /\ r[1] = Do("make", f)
  BY PiecesListed
<1> HIDE DEF r
<1>2. /\ s \o r \in Seq(StepType) /\ Len(s \o r) = Len(s) + Len(r)
      /\ \A i \in 1 .. Len(s) : (s \o r)[i] = s[i]
      /\ \A i \in 1 .. Len(r) : (s \o r)[Len(s) + i] = r[i]
  BY <1>1, ConcatAt
<1>3. (s \o r)[n + 1] = r[1]
  BY <1>1, <1>2
<1>4. QED
  BY <1>1, <1>2, <1>3 DEF r, ThenMake

(* The steps one by one.                                                   *)
LEMMA StepsListed ==
  /\ Len(Steps) = 13 /\ DOMAIN Steps = 1 .. 13
  /\ Steps[1]  = Do("connect", "cmd_fd")    /\ Steps[2]  = Do("send", "cmd_fd")
  /\ Steps[3]  = Do("recv", "cmd_fd")
  /\ Steps[4]  = Do("connect", "priv_fd")   /\ Steps[5]  = Do("send", "priv_fd")
  /\ Steps[6]  = Do("recv", "priv_fd")
  /\ Steps[7]  = Do("make", "lock")         /\ Steps[8]  = Do("make", "notify_evfd")
  /\ Steps[9]  = Do("connect", "notify_fd") /\ Steps[10] = Do("send", "notify_fd")
  /\ Steps[11] = Do("recv", "notify_fd")
  /\ Steps[12] = Do("make", "notify_lock")  /\ Steps[13] = Do("make", "notify_thr")
<1> DEFINE s0 == Revision("cmd_fd")
           s1 == s0 \o Revision("priv_fd")
           s2 == s1 \o Make("lock")
           s3 == s2 \o Make("notify_evfd")
           s4 == s3 \o Revision("notify_fd")
           s5 == s4 \o Make("notify_lock")
           s6 == s5 \o Make("notify_thr")
<1>0. /\ "cmd_fd" \in Resources /\ "priv_fd" \in Resources /\ "notify_fd" \in Resources
      /\ "lock" \in Resources /\ "notify_evfd" \in Resources
      /\ "notify_lock" \in Resources /\ "notify_thr" \in Resources
  BY DEF Resources, Socks
<1>1. Steps = s6
  BY DEF Steps
<1>2. /\ s0 \in Seq(StepType) /\ Len(s0) = 3
      /\ s0[1] = Do("connect", "cmd_fd") /\ s0[2] = Do("send", "cmd_fd") /\ s0[3] = Do("recv", "cmd_fd")
  BY <1>0, PiecesListed
<1> HIDE DEF s0
<1>3. /\ s1 \in Seq(StepType) /\ Len(s1) = 6 /\ \A i \in 1 .. 3 : s1[i] = s0[i]
      /\ s1[4] = Do("connect", "priv_fd")
      /\ s1[5] = Do("send", "priv_fd")
      /\ s1[6] = Do("recv", "priv_fd")
  <2>1. ThenRevision(3, s0, "priv_fd", s1)
    BY <1>0, <1>2, ThreeMore
  <2> HIDE DEF s1
  <2>2. QED
    BY <2>1 DEF ThenRevision
<1> HIDE DEF s1
<1>4. /\ s2 \in Seq(StepType) /\ Len(s2) = 7 /\ \A i \in 1 .. 6 : s2[i] = s1[i]
      /\ s2[7] = Do("make", "lock")
  <2>1. ThenMake(6, s1, "lock", s2)
    BY <1>0, <1>3, OneMore
  <2> HIDE DEF s2
  <2>2. QED
    BY <2>1 DEF ThenMake
<1> HIDE DEF s2
<1>5. /\ s3 \in Seq(StepType) /\ Len(s3) = 8 /\ \A i \in 1 .. 7 : s3[i] = s2[i]
      /\ s3[8] = Do("make", "notify_evfd")
  <2>1. ThenMake(7, s2, "notify_evfd", s3)
    BY <1>0, <1>4, OneMore
  <2> HIDE DEF s3
  <2>2. QED
    BY <2>1 DEF ThenMake
<1> HIDE DEF s3
<1>6. /\ s4 \in Seq(StepType) /\ Len(s4) = 11 /\ \A i \in 1 .. 8 : s4[i] = s3[i]
      /\ s4[9] = Do("connect", "notify_fd")
      /\ s4[10] = Do("send", "notify_fd")
      /\ s4[11] = Do("recv", "notify_fd")
  <2>1. ThenRevision(8, s3, "notify_fd", s4)
    BY <1>0, <1>5, ThreeMore
  <2> HIDE DEF s4
  <2>2. QED
    BY <2>1 DEF ThenRevision
<1> HIDE DEF s4
<1>7. /\ s5 \in Seq(StepType) /\ Len(s5) = 12 /\ \A i \in 1 .. 11 : s5[i] = s4[i]
      /\ s5[12] = Do("make", "notify_lock")
  <2>1. ThenMake(11, s4, "notify_lock", s5)
    BY <1>0, <1>6, OneMore
  <2> HIDE DEF s5
  <2>2. QED
    BY <2>1 DEF ThenMake
<1> HIDE DEF s5
<1>8. /\ s6 \in Seq(StepType) /\ Len(s6) = 13 /\ \A i \in 1 .. 12 : s6[i] = s5[i]
      /\ s6[13] = Do("make", "notify_thr")
  <2>1. ThenMake(12, s5, "notify_thr", s6)
    BY <1>0, <1>7, OneMore
  <2> HIDE DEF s6
  <2>2. QED
    BY <2>1 DEF ThenMake
<1> HIDE DEF s6
<1>9. DOMAIN s6 = 1 .. 13
  BY <1>8
<1>10. QED
  BY <1>1, <1>2, <1>3, <1>4, <1>5, <1>6, <1>7, <1>8, <1>9

(* Which step it is tells where razerd_open is.                            *)
LEMMA StepIndex ==
  ASSUME Running
  PROVE  /\ pc \in 1 .. 13
         /\ Step.do = "connect" => \/ pc = 1 /\ Step.on = "cmd_fd"
                                   \/ pc = 4 /\ Step.on = "priv_fd"
                                   \/ pc = 9 /\ Step.on = "notify_fd"
         /\ Step.do = "send" => \/ pc = 2 /\ Step.on = "cmd_fd"
                                \/ pc = 5 /\ Step.on = "priv_fd"
                                \/ pc = 10 /\ Step.on = "notify_fd"
         /\ Step.do = "recv" => \/ pc = 3 /\ Step.on = "cmd_fd"
                                \/ pc = 6 /\ Step.on = "priv_fd"
                                \/ pc = 11 /\ Step.on = "notify_fd"
         /\ Step.do = "make" => \/ pc = 7 /\ Step.on = "lock"
                                \/ pc = 8 /\ Step.on = "notify_evfd"
                                \/ pc = 12 /\ Step.on = "notify_lock"
                                \/ pc = 13 /\ Step.on = "notify_thr"
<1>1. pc \in 1 .. 13
  BY StepsListed DEF Running
<1>2. \/ pc = 1 \/ pc = 2 \/ pc = 3 \/ pc = 4 \/ pc = 5 \/ pc = 6 \/ pc = 7
      \/ pc = 8 \/ pc = 9 \/ pc = 10 \/ pc = 11 \/ pc = 12 \/ pc = 13
  BY <1>1
<1>3. QED
  BY <1>1, <1>2, StepsListed DEF Step, Do

(* Where trouble with the privileged connection continues.                 *)
LEMMA LockIsSeventh == (CHOOSE i \in DOMAIN Steps : Steps[i].on = "lock") = 7
<1>1. 7 \in DOMAIN Steps /\ Steps[7].on = "lock"
  BY StepsListed DEF Do
<1>2. ASSUME NEW i \in DOMAIN Steps, Steps[i].on = "lock"
      PROVE  i = 7
  <2>1. \/ i = 1 \/ i = 2 \/ i = 3 \/ i = 4 \/ i = 5 \/ i = 6 \/ i = 7
        \/ i = 8 \/ i = 9 \/ i = 10 \/ i = 11 \/ i = 12 \/ i = 13
    BY StepsListed
  <2>2. QED
    BY <1>2, <2>1, StepsListed DEF Do
<1>3. QED
  BY <1>1, <1>2

-----------------------------------------------------------------------------
(* The inductive invariant.                                                *)

(* What the steps before the n-th took, apart from the privileged          *)
(* connection.                                                             *)
Before(n) ==
  (IF n > 1 THEN {"cmd_fd"} ELSE {}) \cup (IF n > 7 THEN {"lock"} ELSE {})
  \cup (IF n > 8 THEN {"notify_evfd"} ELSE {}) \cup (IF n > 9 THEN {"notify_fd"} ELSE {})
  \cup (IF n > 12 THEN {"notify_lock"} ELSE {}) \cup (IF n > 13 THEN {"notify_thr"} ELSE {})

(* What the steps before each one took.                                    *)
LEMMA BeforeListed ==
  /\ Before(1) = {}
  /\ \A n \in 2 .. 7 : Before(n) = {"cmd_fd"}
  /\ Before(8) = Before(7) \cup {"lock"}
  /\ Before(9) = Before(8) \cup {"notify_evfd"}
  /\ Before(10) = Before(9) \cup {"notify_fd"}
  /\ \A n \in 10 .. 12 : Before(n) = Before(10)
  /\ Before(13) = Before(12) \cup {"notify_lock"}
  /\ Before(14) = Before(13) \cup {"notify_thr"}
<1>1. Before(1) = {}
  BY DEF Before
<1>2. \A n \in 2 .. 7 : Before(n) = {"cmd_fd"}
  BY DEF Before
<1>3. Before(8) = Before(7) \cup {"lock"}
  BY DEF Before
<1>4. Before(9) = Before(8) \cup {"notify_evfd"}
  BY DEF Before
<1>5. Before(10) = Before(9) \cup {"notify_fd"}
  BY DEF Before
<1>6. \A n \in 10 .. 12 : Before(n) = Before(10)
  BY DEF Before
<1>7. Before(13) = Before(12) \cup {"notify_lock"}
  BY DEF Before
<1>8. Before(14) = Before(13) \cup {"notify_thr"}
  BY DEF Before
<1>9. QED
  BY <1>1, <1>2, <1>3, <1>4, <1>5, <1>6, <1>7, <1>8

Holding ==
  /\ pc = 0 => held = {}
  /\ pc # 0 => held \ {"priv_fd"} = Before(pc)
  /\ pc \in 1 .. 4 => "priv_fd" \notin held
  /\ pc \in 5 .. 6 => "priv_fd" \in held

Heard ==
  /\ pc > 3 => "cmd_fd" \in heard
  /\ pc > 11 => "notify_fd" \in heard

IInv == OpenTypeOK /\ asked \subseteq Socks /\ Holding /\ Heard

(* A failing step gives back all there is, or goes on without the          *)
(* privileged connection.                                                  *)
LEMMA FailEffect ==
  ASSUME IInv, Running, Fail
  PROVE  \/ pc \in 4 .. 6 /\ pc' = 7 /\ held' = held
         \/ pc' = 0 /\ held' = {}
<1>1. \/ pc = 1 \/ pc = 2 \/ pc = 3 \/ pc = 4 \/ pc = 5 \/ pc = 6 \/ pc = 7
      \/ pc = 8 \/ pc = 9 \/ pc = 10 \/ pc = 11 \/ pc = 12 \/ pc = 13
  BY StepIndex
<1>2. CASE pc \in 4 .. 6
  <2>1. Step.on = "priv_fd"
    BY <1>1, <1>2, StepsListed DEF Step, Do
  <2>2. QED
    BY <1>2, <2>1, LockIsSeventh DEF Fail
<1>3. CASE pc \notin 4 .. 6
  <2>1. Step.on # "priv_fd"
    BY <1>1, <1>3, StepsListed DEF Step, Do
  <2>2. pc' = 0 /\ held' = held \ CleanupAt(Step)
    BY <2>1 DEF Fail
  <2>3. held \subseteq Before(pc) \cup {"priv_fd"}
    BY <1>1 DEF IInv, Holding
  <2>4. CASE pc = 1
    BY <2>2, <2>4 DEF IInv, Holding, Before
  <2>5. CASE pc = 2
    <3>1. CleanupAt(Step) = {"cmd_fd"}
      BY <2>5, StepsListed DEF Step, Do, CleanupAt
    <3>2. held \subseteq {"cmd_fd"}
      BY <2>5, <2>3 DEF IInv, Holding, Before
    <3>3. QED
      BY <2>2, <3>1, <3>2
  <2>6. CASE pc = 3
    <3>1. CleanupAt(Step) = {"cmd_fd"}
      BY <2>6, StepsListed DEF Step, Do, CleanupAt
    <3>2. held \subseteq {"cmd_fd"}
      BY <2>6, <2>3 DEF IInv, Holding, Before
    <3>3. QED
      BY <2>2, <3>1, <3>2
  <2>7. CASE pc = 7
    <3>1. CleanupAt(Step) = {"cmd_fd", "priv_fd"}
      BY <2>7, StepsListed DEF Step, Do, CleanupAt
    <3>2. Before(pc) = {"cmd_fd"}
      BY <2>7 DEF Before
    <3>3. QED
      BY <2>2, <2>3, <3>1, <3>2
  <2>8. CASE pc = 8
    <3>1. CleanupAt(Step) = {"cmd_fd", "priv_fd", "lock"}
      BY <2>8, StepsListed DEF Step, Do, CleanupAt
    <3>2. Before(pc) = {"cmd_fd", "lock"}
      BY <2>8 DEF Before
    <3>3. QED
      BY <2>2, <2>3, <3>1, <3>2
  <2>9. CASE pc = 9
    <3>1. CleanupAt(Step) = {"cmd_fd", "priv_fd", "lock", "notify_evfd"}
      BY <2>9, StepsListed DEF Step, Do, CleanupAt
    <3>2. Before(pc) = {"cmd_fd", "lock", "notify_evfd"}
      BY <2>9 DEF Before
    <3>3. QED
      BY <2>2, <2>3, <3>1, <3>2
  <2>10. CASE pc = 10 \/ pc = 11
    <3>1. CleanupAt(Step) = {"cmd_fd", "priv_fd", "lock", "notify_evfd", "notify_fd"}
      BY <2>10, StepsListed DEF Step, Do, CleanupAt
    <3>2. Before(pc) = {"cmd_fd", "lock", "notify_evfd", "notify_fd"}
      BY <2>10 DEF Before
    <3>3. QED
      BY <2>2, <2>3, <3>1, <3>2
  <2>11. CASE pc = 12
    <3>1. CleanupAt(Step) = {"cmd_fd", "priv_fd", "lock", "notify_evfd", "notify_fd"}
      BY <2>11, StepsListed DEF Step, Do, CleanupAt
    <3>2. Before(pc) = {"cmd_fd", "lock", "notify_evfd", "notify_fd"}
      BY <2>11 DEF Before
    <3>3. QED
      BY <2>2, <2>3, <3>1, <3>2
  <2>12. CASE pc = 13
    <3>1. CleanupAt(Step) = {"cmd_fd", "priv_fd", "lock", "notify_evfd", "notify_fd", "notify_lock"}
      BY <2>12, StepsListed DEF Step, Do, CleanupAt
    <3>2. Before(pc) = {"cmd_fd", "lock", "notify_evfd", "notify_fd", "notify_lock"}
      BY <2>12 DEF Before
    <3>3. QED
      BY <2>2, <2>3, <3>1, <3>2
  <2>13. QED
    BY <1>1, <1>3, <2>4, <2>5, <2>6, <2>7, <2>8, <2>9, <2>10, <2>11, <2>12
<1>4. QED
  BY <1>2, <1>3

(* The steps of razerd_open keep what the invariant says of its place.     *)
LEMMA OpenSteps ==
  ASSUME IInv, \/ \E f \in Socks : Connect(f) \/ AskRevision(f) \/ HearRevision(f)
               \/ Acquire
  PROVE  /\ pc' \in 0 .. 14 /\ held' \subseteq Resources
         /\ Holding' /\ Heard'
         /\ heard' \subseteq Socks /\ asked' \subseteq Socks
         /\ pc' # 0 => asked' \subseteq held'
<1>1. Running
  BY DEF Connect, AskRevision, HearRevision, Acquire
<1>2. /\ pc \in 1 .. 13 /\ held \subseteq Resources /\ Holding /\ Heard
      /\ heard \subseteq Socks /\ asked \subseteq Socks /\ asked \subseteq held
  BY <1>1, StepIndex DEF IInv, OpenTypeOK, IsNull
<1>3. ASSUME Fail, heard' = heard, asked' = asked
      PROVE  /\ pc' \in 0 .. 14 /\ held' \subseteq Resources
             /\ Holding' /\ Heard'
             /\ heard' \subseteq Socks /\ asked' \subseteq Socks
             /\ pc' # 0 => asked' \subseteq held'
  <2>1. CASE pc \in 4 .. 6 /\ pc' = 7 /\ held' = held
    <3>1. Before(pc) = {"cmd_fd"} /\ Before(7) = {"cmd_fd"}
      BY <2>1 DEF Before
    <3>2. Holding'
      BY <1>2, <2>1, <3>1 DEF Holding
    <3>3. Heard'
      BY <1>2, <1>3, <2>1 DEF Heard
    <3>4. QED
      BY <1>2, <1>3, <2>1, <3>2, <3>3
  <2>2. CASE pc' = 0 /\ held' = {}
    BY <1>2, <1>3, <2>2 DEF Holding, Heard
  <2>3. QED
    BY <1>1, <1>3, <2>1, <2>2, FailEffect
<1>4. ASSUME NEW f \in Socks, Connect(f), held' = held \cup {f}, Advance
      PROVE  /\ pc' \in 0 .. 14 /\ held' \subseteq Resources
             /\ Holding' /\ Heard'
             /\ heard' \subseteq Socks /\ asked' \subseteq Socks
             /\ pc' # 0 => asked' \subseteq held'
  <2>1. \/ pc = 1 /\ f = "cmd_fd"
        \/ pc = 4 /\ f = "priv_fd"
        \/ pc = 9 /\ f = "notify_fd"
    BY <1>1, <1>4, StepIndex DEF Connect
  <2>2. pc' = pc + 1 /\ heard' = heard /\ asked' = asked
    BY <1>4 DEF Connect, Advance
  <2>3. Holding'
    <3>1. CASE pc = 1 /\ f = "cmd_fd"
      <4>1. pc' = 2 /\ held = {}
        BY <1>2, <2>2, <3>1, BeforeListed DEF Holding
      <4>2. held' = {"cmd_fd"} /\ Before(pc') = {"cmd_fd"}
        BY <1>4, <3>1, <4>1, BeforeListed
      <4>3. QED
        BY <4>1, <4>2 DEF Holding
    <3>2. CASE pc = 4 /\ f = "priv_fd"
      <4>1. pc' = 5 /\ held \ {"priv_fd"} = {"cmd_fd"}
        BY <1>2, <2>2, <3>2, BeforeListed DEF Holding
      <4>2. held' \ {"priv_fd"} = {"cmd_fd"} /\ "priv_fd" \in held' /\ Before(pc') = {"cmd_fd"}
        BY <1>4, <3>2, <4>1, BeforeListed
      <4>3. QED
        BY <4>1, <4>2 DEF Holding
    <3>3. CASE pc = 9 /\ f = "notify_fd"
      <4>1. pc' = 10 /\ held \ {"priv_fd"} = Before(9)
        BY <1>2, <2>2, <3>3 DEF Holding
      <4>2. held' \ {"priv_fd"} = Before(pc')
        BY <1>4, <3>3, <4>1, BeforeListed
      <4>3. QED
        BY <4>1, <4>2 DEF Holding
    <3>4. QED
      BY <2>1, <3>1, <3>2, <3>3
  <2>4. Heard'
    BY <1>2, <2>1, <2>2 DEF Heard
  <2>5. QED
    BY <1>2, <1>4, <2>1, <2>2, <2>3, <2>4 DEF Resources
<1>5. ASSUME NEW f \in Socks, AskRevision(f), asked' = asked \cup {f}, Advance, UNCHANGED held
      PROVE  /\ pc' \in 0 .. 14 /\ held' \subseteq Resources
             /\ Holding' /\ Heard'
             /\ heard' \subseteq Socks /\ asked' \subseteq Socks
             /\ pc' # 0 => asked' \subseteq held'
  <2>1. \/ pc = 2 /\ f = "cmd_fd"
        \/ pc = 5 /\ f = "priv_fd"
        \/ pc = 10 /\ f = "notify_fd"
    BY <1>1, <1>5, StepIndex DEF AskRevision
  <2>2. pc' = pc + 1 /\ heard' = heard
    BY <1>5 DEF AskRevision, Advance
  <2>3. f \in held
    BY <1>2, <2>1 DEF Holding, Before
  <2>4. Holding'
    <3>1. Before(pc') = Before(pc)
      BY <2>1, <2>2, BeforeListed
    <3>2. QED
      BY <1>2, <1>5, <2>1, <2>2, <3>1 DEF Holding
  <2>5. Heard'
    BY <1>2, <2>1, <2>2 DEF Heard
  <2>6. QED
    BY <1>2, <1>5, <2>2, <2>3, <2>4, <2>5
<1>6. ASSUME NEW f \in Socks, HearRevision(f), heard' = heard \cup {f}, Advance, UNCHANGED held
      PROVE  /\ pc' \in 0 .. 14 /\ held' \subseteq Resources
             /\ Holding' /\ Heard'
             /\ heard' \subseteq Socks /\ asked' \subseteq Socks
             /\ pc' # 0 => asked' \subseteq held'
  <2>1. \/ pc = 3 /\ f = "cmd_fd"
        \/ pc = 6 /\ f = "priv_fd"
        \/ pc = 11 /\ f = "notify_fd"
    BY <1>1, <1>6, StepIndex DEF HearRevision
  <2>2. pc' = pc + 1 /\ asked' = asked
    BY <1>6 DEF HearRevision, Advance
  <2>3. Holding'
    <3>1. Before(pc') = Before(pc)
      BY <2>1, <2>2, BeforeListed
    <3>2. QED
      BY <1>2, <1>6, <2>1, <2>2, <3>1 DEF Holding
  <2>4. Heard'
    BY <1>2, <1>6, <2>1, <2>2 DEF Heard
  <2>5. QED
    BY <1>2, <1>6, <2>2, <2>3, <2>4
<1>7. ASSUME Acquire, held' = held \cup {Step.on}, Advance
      PROVE  /\ pc' \in 0 .. 14 /\ held' \subseteq Resources
             /\ Holding' /\ Heard'
             /\ heard' \subseteq Socks /\ asked' \subseteq Socks
             /\ pc' # 0 => asked' \subseteq held'
  <2>1. \/ pc = 7 /\ Step.on = "lock"
        \/ pc = 8 /\ Step.on = "notify_evfd"
        \/ pc = 12 /\ Step.on = "notify_lock"
        \/ pc = 13 /\ Step.on = "notify_thr"
    BY <1>1, <1>7, StepIndex DEF Acquire
  <2>2. pc' = pc + 1 /\ heard' = heard /\ asked' = asked
    BY <1>7 DEF Acquire, Advance
  <2>3. Holding'
    <3>1. Before(pc') = Before(pc) \cup {Step.on} /\ Step.on # "priv_fd"
      <4>1. CASE pc = 7 /\ Step.on = "lock"
        BY <2>2, <4>1, BeforeListed
      <4>2. CASE pc = 8 /\ Step.on = "notify_evfd"
        BY <2>2, <4>2, BeforeListed
      <4>3. CASE pc = 12 /\ Step.on = "notify_lock"
        BY <2>2, <4>3, BeforeListed
      <4>4. CASE pc = 13 /\ Step.on = "notify_thr"
        BY <2>2, <4>4, BeforeListed
      <4>5. QED
        BY <2>1, <4>1, <4>2, <4>3, <4>4
    <3>2. held \ {"priv_fd"} = Before(pc)
      BY <1>2 DEF Holding
    <3>3. held' \ {"priv_fd"} = Before(pc')
      BY <1>7, <3>1, <3>2
    <3>4. pc' \in 8 .. 14
      BY <2>1, <2>2
    <3>5. QED
      BY <3>3, <3>4 DEF Holding
  <2>4. Heard'
    BY <1>2, <2>1, <2>2 DEF Heard
  <2>5. QED
    BY <1>2, <1>7, <2>1, <2>2, <2>3, <2>4 DEF Resources
<1>8. CASE \E f \in Socks : Connect(f)
  BY <1>3, <1>4, <1>8 DEF Connect
<1>9. CASE \E f \in Socks : AskRevision(f)
  BY <1>3, <1>5, <1>9 DEF AskRevision
<1>10. CASE \E f \in Socks : HearRevision(f)
  BY <1>3, <1>6, <1>10 DEF HearRevision
<1>11. CASE Acquire
  BY <1>3, <1>7, <1>11 DEF Acquire
<1>12. QED
  BY <1>8, <1>9, <1>10, <1>11

(* IInv holds initially and every step keeps it.                           *)
LEMMA IInvInductive ==
  /\ OpenInit => IInv
  /\ IInv /\ [OpenNext]_openVars => IInv'
<1>1. OpenInit => IInv
  <2> SUFFICES ASSUME OpenInit PROVE IInv
    OBVIOUS
  <2>1. OpenTypeOK
    BY StepsListed, OpenAssumption DEF OpenInit, OpenTypeOK, IsNull
  <2>2. Holding /\ Heard /\ asked \subseteq Socks
    BY DEF OpenInit, Holding, Heard, Before
  <2>3. QED
    BY <2>1, <2>2 DEF IInv
<1>2. IInv /\ [OpenNext]_openVars => IInv'
  <2> SUFFICES ASSUME IInv, [OpenNext]_openVars PROVE IInv'
    OBVIOUS
  <2>0. /\ pc \in 0 .. 14 /\ held \subseteq Resources
        /\ {alive, same, permitted} \subseteq BOOLEAN
        /\ clients \subseteq Socks /\ heard \subseteq Socks /\ asked \subseteq Socks
        /\ pc # 0 => asked \subseteq held
        /\ events \in 0 .. MaxEvents
        /\ Holding /\ Heard
    BY StepsListed DEF IInv, OpenTypeOK, IsNull
  <2>1. CASE \/ \E f \in Socks : Connect(f) \/ AskRevision(f) \/ HearRevision(f)
             \/ Acquire
    <3>1. /\ pc' \in 0 .. 14 /\ held' \subseteq Resources
          /\ Holding' /\ Heard'
          /\ heard' \subseteq Socks /\ asked' \subseteq Socks
          /\ pc' # 0 => asked' \subseteq held'
      BY <2>1, OpenSteps
    <3>2. UNCHANGED razerd
      BY <2>1 DEF Connect, AskRevision, HearRevision, Acquire
    <3>3. OpenTypeOK'
      BY <2>0, <3>1, <3>2, StepsListed DEF OpenTypeOK, IsNull, razerd
    <3>4. QED
      BY <3>1, <3>3 DEF IInv
  <2>2. ASSUME NEW f \in Socks, Accept(f) PROVE IInv'
    BY <2>0, <2>2, StepsListed DEF Accept, IInv, OpenTypeOK, IsNull, Holding, Heard
  <2>3. ASSUME NEW f \in Socks, Serve(f) PROVE IInv'
    BY <2>0, <2>3, StepsListed DEF Serve, IInv, OpenTypeOK, IsNull, Holding, Heard
  <2>4. CASE Notify
    BY <2>0, <2>4, StepsListed, OpenAssumption DEF Notify, IInv, OpenTypeOK, IsNull, Holding, Heard
  <2>5. CASE Die
    BY <2>0, <2>5, StepsListed DEF Die, IInv, OpenTypeOK, IsNull, Holding, Heard
  <2>6. CASE UNCHANGED openVars
    BY <2>0, <2>6, StepsListed DEF openVars, IInv, OpenTypeOK, IsNull, Holding, Heard
  <2>7. QED
    BY <2>1, <2>2, <2>3, <2>4, <2>5, <2>6 DEF OpenNext
<1>3. QED
  BY <1>1, <1>2

(* The invariant holds in every reachable state.                           *)
THEOREM Invariance == OpenSpec => []IInv
  BY IInvInductive, PTL DEF OpenSpec

(* The types are kept.                                                     *)
THEOREM OpenTypeCorrect == OpenSpec => []OpenTypeOK
<1>1. IInv => OpenTypeOK
  BY DEF IInv
<1>2. QED
  BY <1>1, Invariance, PTL

(* Every label of razerd_open's error path gives back all that was taken   *)
(* by the steps before it.  (librazerd.c, razerd_open.)                    *)
THEOREM NothingLeaks == OpenSpec => []FailureCleansUp
<1>1. IInv => FailureCleansUp
  BY DEF IInv, Holding, FailureCleansUp, IsNull
<1>2. QED
  BY <1>1, Invariance, PTL

(* A handle is complete, and its two ordinary connections have been told   *)
(* the right revision.  (librazerd.c, razerd_open and check_revision.)     *)
THEOREM HandleComplete == OpenSpec => []OpenIsComplete
<1>1. IInv => OpenIsComplete
  <2> SUFFICES ASSUME IInv, IsOpen PROVE Ordinary \subseteq heard /\ Resources \ {"priv_fd"} \subseteq held
    BY DEF OpenIsComplete
  <2>1. pc = 14
    BY StepsListed DEF IsOpen
  <2>2. Ordinary \subseteq heard
    BY <2>1 DEF IInv, Heard, Ordinary
  <2>3. held \ {"priv_fd"} = Before(14)
    BY <2>1 DEF IInv, Holding
  <2>4. Resources \ {"priv_fd"} \subseteq Before(14)
    BY DEF Before, Resources, Socks
  <2>5. QED
    BY <2>2, <2>3, <2>4
<1>2. QED
  BY <1>1, Invariance, PTL

-----------------------------------------------------------------------------
(* The notifications, for every ring size, every set of events and any     *)
(* amount of traffic: types, no lost wakeup, and that the ring implements  *)
(* a bounded queue.                                                        *)


(* Indices below Size are their own remainder; below 2 * Size one turn is  *)
(* taken off.                                                              *)
LEMMA ModLow == ASSUME NEW x \in 0 .. Size - 1 PROVE x % Size = x
  BY SizeAssumption, Z3

LEMMA ModHigh == ASSUME NEW x \in Size .. 2 * Size - 1 PROVE x % Size = x - Size
  BY SizeAssumption, Z3

(* Stepping an index stays in the ring.                                    *)
LEMMA SlotAfter ==
  ASSUME NEW x \in Slots
  PROVE  /\ (x + 1) % Size = IF x = Size - 1 THEN 0 ELSE x + 1
         /\ (x + 1) % Size \in Slots
<1>1. CASE x = Size - 1
  <2>1. (x + 1) % Size = x + 1 - Size
    BY <1>1, ModHigh, SizeAssumption DEF Slots
  <2>2. QED
    BY <1>1, <2>1, SizeAssumption DEF Slots
<1>2. CASE x # Size - 1
  <2>1. (x + 1) % Size = x + 1
    BY <1>2, ModLow, SizeAssumption DEF Slots
  <2>2. QED
    BY <1>2, <2>1, SizeAssumption DEF Slots
<1>3. QED
  BY <1>1, <1>2

-----------------------------------------------------------------------------
(* The types are kept, the ring's indices among them.                      *)
THEOREM TypeCorrect == Spec => []TypeOK
<1>1. ASSUME Init PROVE TypeOK
  <2>1. 0 \in Slots
    BY SizeAssumption DEF Slots
  <2>2. <<>> \in Seq(Events \cup {"other"})
    OBVIOUS
  <2>3. QED
    BY <1>1, <2>1, <2>2 DEF Init, TypeOK
<1>2. TypeOK /\ [Next]_vars => TypeOK'
  <2> SUFFICES ASSUME TypeOK, [Next]_vars PROVE TypeOK'
    OBVIOUS
  <2> USE DEF TypeOK
  <2>1. ASSUME NEW b \in Events \cup {"other"}, Announce(b) PROVE TypeOK'
    BY <2>1 DEF Announce
  <2>2. CASE Recv
    BY <2>2 DEF Recv
  <2>3. CASE Enqueue
    BY <2>3, SlotAfter DEF Enqueue, NextTail
  <2>4. CASE Dequeue
    BY <2>4, SlotAfter DEF Dequeue
  <2>5. CASE RecvEnd \/ Signal \/ Wake \/ Empty \/ Drain
    BY <2>5 DEF RecvEnd, Signal, Wake, Empty, Drain
  <2>6. CASE Close \/ Stop \/ Join
    BY <2>6 DEF Close, Stop, Join
  <2>7. CASE UNCHANGED vars
    BY <2>7 DEF vars
  <2>8. CASE Exit
    BY <2>8 DEF Exit
  <2>9. QED
    BY <2>1, <2>2, <2>3, <2>4, <2>5, <2>6, <2>7, <2>8 DEF Next
<1>3. QED
  BY <1>1, <1>2, PTL DEF Spec

(* No wakeup is lost by callers that read until -EAGAIN, although the      *)
(* eventfd is written and reset outside of the lock: a reset is always     *)
(* followed by one more look at the queue.  (notify_enqueue and            *)
(* razerd_read_event.)                                                     *)
THEOREM WakeupsKept == Spec => []NoLostWakeup
<1>1. Init => NoLostWakeup
  BY DEF Init, NoLostWakeup
<1>2. NoLostWakeup /\ [Next]_vars => NoLostWakeup'
  BY DEF NoLostWakeup, Next, vars, Announce, Exit, Recv, RecvEnd, Enqueue, Signal,
         Wake, Dequeue, Empty, Drain, Close, Stop, Join
<1>3. QED
  BY <1>1, <1>2, PTL DEF Spec

-----------------------------------------------------------------------------
(* How many events wait, and in which slot the i-th of them lies.          *)
Count(h, t) == (t - h + Size) % Size
Slot(h, i)  == (h + i - 1) % Size

LEMMA CountIs ==
  ASSUME NEW h \in Slots, NEW t \in Slots
  PROVE  Count(h, t) = IF t >= h THEN t - h ELSE t - h + Size
<1>1. CASE t >= h
  <2>1. t - h + Size \in Size .. 2 * Size - 1
    BY <1>1, SizeAssumption DEF Slots
  <2>2. QED
    BY <1>1, <2>1, ModHigh, SizeAssumption DEF Slots, Count
<1>2. CASE t < h
  <2>1. t - h + Size \in 0 .. Size - 1
    BY <1>2, SizeAssumption DEF Slots
  <2>2. QED
    BY <1>2, <2>1, ModLow, SizeAssumption DEF Slots, Count
<1>3. QED
  BY <1>1, <1>2, SizeAssumption DEF Slots

LEMMA SlotIs ==
  ASSUME NEW h \in Slots, NEW i \in 1 .. Size
  PROVE  /\ Slot(h, i) = IF h + i - 1 < Size THEN h + i - 1 ELSE h + i - 1 - Size
         /\ Slot(h, i) \in Slots
<1>1. CASE h + i - 1 < Size
  <2>1. h + i - 1 \in 0 .. Size - 1
    BY <1>1, SizeAssumption DEF Slots
  <2>2. QED
    BY <1>1, <2>1, ModLow, SizeAssumption DEF Slots, Slot
<1>2. CASE h + i - 1 >= Size
  <2>1. h + i - 1 \in Size .. 2 * Size - 1
    BY <1>2, SizeAssumption DEF Slots
  <2>2. QED
    BY <1>2, <2>1, ModHigh, SizeAssumption DEF Slots, Slot
<1>3. QED
  BY <1>1, <1>2, SizeAssumption DEF Slots

Contents(q, h, t) == [i \in 1 .. Count(h, t) |-> q[Slot(h, i)]]

LEMMA WaitingIs == Waiting = Contents(nqueue, head, tail)
  BY DEF Waiting, Contents, Count, Slot

(* The waiting events form a sequence of at most Size - 1 events.          *)
LEMMA ContentsSeq ==
  ASSUME NEW q \in [Slots -> Events], NEW h \in Slots, NEW t \in Slots
  PROVE  /\ Count(h, t) \in 0 .. Size - 1
         /\ Contents(q, h, t) \in Seq(Events)
         /\ Len(Contents(q, h, t)) = Count(h, t)
         /\ \A i \in 1 .. Count(h, t) : Contents(q, h, t)[i] = q[Slot(h, i)]
<1>1. Count(h, t) \in 0 .. Size - 1
  <2>1. Count(h, t) = IF t >= h THEN t - h ELSE t - h + Size
    BY CountIs
  <2>2. QED
    BY <2>1, SizeAssumption DEF Slots
<1>2. \A i \in 1 .. Count(h, t) : q[Slot(h, i)] \in Events
  BY <1>1, SlotIs, SizeAssumption
<1>3. Contents(q, h, t) \in Seq(Events) /\ Len(Contents(q, h, t)) = Count(h, t)
  BY <1>1, <1>2, SizeAssumption DEF Contents
<1>4. QED
  BY <1>1, <1>3 DEF Contents

(* What notify_enqueue does to the waiting events.                         *)
LEMMA EnqueueStep ==
  ASSUME TypeOK, Enqueue
  PROVE  Waiting' = IF Len(Waiting) < Size - 1 THEN Append(Waiting, event) ELSE Waiting
<1> DEFINE n == Count(head, tail)
<1>1. /\ head \in Slots /\ tail \in Slots /\ event \in Events
      /\ nqueue \in [Slots -> Events] /\ nqueue' \in [Slots -> Events]
      /\ head' = head
  BY DEF TypeOK, Enqueue
<1>2. NextTail \in Slots /\ NextTail = IF tail = Size - 1 THEN 0 ELSE tail + 1
  BY <1>1, SlotAfter DEF NextTail
<1>3. n = IF tail >= head THEN tail - head ELSE tail - head + Size
  BY <1>1, CountIs
<1>4. /\ n \in 0 .. Size - 1 /\ Len(Waiting) = n /\ Waiting \in Seq(Events)
      /\ \A i \in 1 .. n : Waiting[i] = nqueue[Slot(head, i)]
  BY <1>1, ContentsSeq, WaitingIs
<1>5. NextTail = head <=> n = Size - 1
  BY <1>1, <1>2, <1>3, SizeAssumption DEF Slots
<1>6. CASE NextTail = head
  <2>1. Waiting' = Waiting
    BY <1>6 DEF Enqueue, Waiting
  <2>2. QED
    BY <2>1, <1>4, <1>5, <1>6
<1>7. CASE NextTail # head
  <2>1. nqueue' = [nqueue EXCEPT ![tail] = event] /\ tail' = NextTail
    BY <1>7 DEF Enqueue
  <2>2. Count(head, NextTail) = IF NextTail >= head THEN NextTail - head ELSE NextTail - head + Size
    BY <1>1, <1>2, CountIs
  <2>3. Count(head, NextTail) = n + 1
    BY <1>1, <1>2, <1>3, <1>7, <2>2, SizeAssumption DEF Slots
  <2>4. Waiting' = Contents(nqueue', head, NextTail)
    BY <1>1, <2>1 DEF Waiting, Contents, Count, Slot
  <2>5. /\ Waiting' \in Seq(Events) /\ Len(Waiting') = n + 1
        /\ \A i \in 1 .. n + 1 : Waiting'[i] = nqueue'[Slot(head, i)]
    <3>1. /\ Contents(nqueue', head, NextTail) \in Seq(Events)
          /\ Len(Contents(nqueue', head, NextTail)) = Count(head, NextTail)
          /\ \A i \in 1 .. Count(head, NextTail) :
               Contents(nqueue', head, NextTail)[i] = nqueue'[Slot(head, i)]
      BY <1>1, <1>2, ContentsSeq
    <3>2. QED
      BY <3>1, <2>3, <2>4
  <2>6. Slot(head, n + 1) = tail
    <3>1. n + 1 \in 1 .. Size
      BY <1>4, SizeAssumption
    <3>2. Slot(head, n + 1) = IF head + (n + 1) - 1 < Size THEN head + (n + 1) - 1
                              ELSE head + (n + 1) - 1 - Size
      BY <1>1, <3>1, SlotIs
    <3>3. QED
      BY <3>2, <1>1, <1>3, SizeAssumption DEF Slots
  <2>7. \A i \in 1 .. n : Slot(head, i) \in Slots /\ Slot(head, i) # tail
    <3> SUFFICES ASSUME NEW i \in 1 .. n PROVE Slot(head, i) \in Slots /\ Slot(head, i) # tail
      OBVIOUS
    <3>1. /\ Slot(head, i) = IF head + i - 1 < Size THEN head + i - 1 ELSE head + i - 1 - Size
          /\ Slot(head, i) \in Slots
      BY <1>1, <1>4, SlotIs, SizeAssumption
    <3>2. QED
      BY <3>1, <1>1, <1>3, <1>4, SizeAssumption DEF Slots
  <2>8. \A i \in 1 .. n : Waiting'[i] = Waiting[i]
    BY <1>1, <1>4, <2>1, <2>5, <2>7
  <2>9. Waiting'[n + 1] = event
    BY <1>1, <1>4, <2>1, <2>5, <2>6
  <2>10. Waiting' = Append(Waiting, event)
    <3>1. /\ Append(Waiting, event) \in Seq(Events) /\ Len(Append(Waiting, event)) = n + 1
          /\ \A i \in 1 .. n : Append(Waiting, event)[i] = Waiting[i]
          /\ Append(Waiting, event)[n + 1] = event
      BY <1>1, <1>4, AppendProperties
    <3>2. \A i \in 1 .. n + 1 : Waiting'[i] = Append(Waiting, event)[i]
      BY <3>1, <2>8, <2>9, <1>4
    <3>3. QED
      BY <3>1, <3>2, <2>5, SeqEqual
  <2>11. QED
    BY <2>10, <1>4, <1>5, <1>7, SizeAssumption
<1>8. QED
  BY <1>6, <1>7

(* What razerd_read_event does to the waiting events.                      *)
LEMMA DequeueStep ==
  ASSUME TypeOK, Dequeue
  PROVE  Waiting # <<>> /\ got' = Head(Waiting) /\ Waiting' = Tail(Waiting)
<1> DEFINE n == Count(head, tail)
<1> DEFINE h == (head + 1) % Size
<1>1. /\ head \in Slots /\ tail \in Slots /\ head # tail
      /\ nqueue \in [Slots -> Events]
      /\ nqueue' = nqueue /\ tail' = tail /\ head' = h /\ got' = nqueue[head]
  BY DEF TypeOK, Dequeue
<1>2. h \in Slots /\ h = IF head = Size - 1 THEN 0 ELSE head + 1
  BY <1>1, SlotAfter
<1>3. n = IF tail >= head THEN tail - head ELSE tail - head + Size
  BY <1>1, CountIs
<1>4. /\ n \in 0 .. Size - 1 /\ Len(Waiting) = n /\ Waiting \in Seq(Events)
      /\ \A i \in 1 .. n : Waiting[i] = nqueue[Slot(head, i)]
  BY <1>1, ContentsSeq, WaitingIs
<1>5. n \in 1 .. Size - 1
  BY <1>1, <1>3, <1>4, SizeAssumption DEF Slots
<1>6. Slot(head, 1) = head
  <2>1. Slot(head, 1) = IF head + 1 - 1 < Size THEN head + 1 - 1 ELSE head + 1 - 1 - Size
    BY <1>1, SlotIs, SizeAssumption
  <2>2. QED
    BY <2>1, <1>1, SizeAssumption DEF Slots
<1>7. Waiting # <<>> /\ got' = Head(Waiting)
  BY <1>1, <1>4, <1>5, <1>6
<1>8. Count(h, tail) = n - 1
  <2>1. Count(h, tail) = IF tail >= h THEN tail - h ELSE tail - h + Size
    BY <1>1, <1>2, CountIs
  <2>2. QED
    BY <2>1, <1>1, <1>2, <1>3, SizeAssumption DEF Slots
<1>9. Waiting' = Contents(nqueue, h, tail)
  BY <1>1 DEF Waiting, Contents, Count, Slot
<1>10. /\ Waiting' \in Seq(Events) /\ Len(Waiting') = n - 1
       /\ \A i \in 1 .. n - 1 : Waiting'[i] = nqueue[Slot(h, i)]
  <2>1. /\ Contents(nqueue, h, tail) \in Seq(Events)
        /\ Len(Contents(nqueue, h, tail)) = Count(h, tail)
        /\ \A i \in 1 .. Count(h, tail) : Contents(nqueue, h, tail)[i] = nqueue[Slot(h, i)]
    BY <1>1, <1>2, ContentsSeq
  <2>2. QED
    BY <2>1, <1>8, <1>9
<1>11. \A i \in 1 .. n - 1 : Slot(h, i) = Slot(head, i + 1)
  <2> SUFFICES ASSUME NEW i \in 1 .. n - 1 PROVE Slot(h, i) = Slot(head, i + 1)
    OBVIOUS
  <2> HIDE DEF h, n
  <2>1. Slot(h, i) = IF h + i - 1 < Size THEN h + i - 1 ELSE h + i - 1 - Size
    <3>1. h \in Slots /\ i \in 1 .. Size
      BY <1>2, <1>5, SizeAssumption
    <3>2. QED
      BY <3>1, SlotIs
  <2>2. Slot(head, i + 1) = IF head + (i + 1) - 1 < Size THEN head + (i + 1) - 1
                            ELSE head + (i + 1) - 1 - Size
    BY <1>1, <1>5, SlotIs, SizeAssumption
  <2>3. i \in 1 .. Size - 2 /\ head \in 0 .. Size - 1
    BY <1>1, <1>5, SizeAssumption DEF Slots
  <2>4. CASE head = Size - 1
    BY <2>1, <2>2, <2>3, <2>4, <1>2, SizeAssumption
  <2>5. CASE head # Size - 1
    BY <2>1, <2>2, <2>3, <2>5, <1>2, SizeAssumption
  <2>6. QED
    BY <2>4, <2>5
<1>12. Waiting' = Tail(Waiting)
  <2>1. /\ Tail(Waiting) \in Seq(Events) /\ Len(Tail(Waiting)) = n - 1
        /\ \A i \in 1 .. n - 1 : Tail(Waiting)[i] = Waiting[i + 1]
    BY <1>4, <1>5, <1>7, HeadTailProperties
  <2>2. \A i \in 1 .. n - 1 : Waiting'[i] = Tail(Waiting)[i]
    BY <2>1, <1>4, <1>5, <1>10, <1>11
  <2>3. QED
    BY <2>1, <2>2, <1>10, SeqEqual
<1>13. QED
  BY <1>7, <1>12

(* The other steps leave the waiting events alone.                         *)
LEMMA OtherStep ==
  ASSUME [Next]_vars, ~Enqueue, ~Dequeue
  PROVE  Waiting' = Waiting
<1>1. nqueue' = nqueue /\ head' = head /\ tail' = tail
  BY DEF Next, vars, Announce, Exit, Recv, RecvEnd, Signal, Wake, Empty, Drain,
         Close, Stop, Join
<1>2. QED
  BY <1>1 DEF Waiting

(* An event arrives, or nothing happens to the queue.                      *)
LEMMA QuietStep ==
  ASSUME TypeOK, [Next]_vars, ~Enqueue, ~Dequeue, ~Empty
  PROVE  [Queue!Next]_Queue!qvars
<1>1. Waiting' = Waiting
  BY OtherStep
<1>2. got' = got
  BY DEF Next, vars, Announce, Exit, Recv, RecvEnd, Signal, Wake, Drain, Close, Stop, Join
<1>3. CASE Recv /\ Head(socket) \in Events
  <2>1. thread = "recv" /\ thread' = "enqueue" /\ event' \in Events
    BY <1>3 DEF Recv
  <2>2. Queue!Arrive(event')
    BY <1>1, <1>2, <2>1 DEF Queue!Arrive
  <2>3. QED
    BY <2>1, <2>2 DEF Queue!Next
<1>4. CASE ~(Recv /\ Head(socket) \in Events)
  <2>1. \/ thread # "enqueue" /\ thread' # "enqueue"
        \/ thread' = thread /\ event' = event
    BY <1>4 DEF Next, vars, Announce, Exit, Recv, RecvEnd, Signal, Wake, Drain, Close, Stop, Join
  <2>2. QED
    BY <1>1, <1>2, <2>1 DEF Queue!qvars
<1>5. QED
  BY <1>3, <1>4

(* The ring with its wrapped indices is a bounded FIFO queue: what is read *)
(* is what was put in first, and an event is dropped if the ring is full   *)
(* and in no other case.  (notify_enqueue, razerd_read_event.)             *)
THEOREM FifoImplemented == Spec => Fifo
<1>1. ASSUME Init PROVE Queue!Init
  <2>1. head = 0 /\ tail = 0 /\ 0 \in Slots /\ nqueue \in [Slots -> Events]
    BY <1>1, SizeAssumption DEF Init, Slots
  <2>2. Count(0, 0) = 0
    BY <2>1, CountIs, SizeAssumption DEF Slots
  <2>3. Waiting \in Seq(Events) /\ Len(Waiting) = 0
    BY <2>1, <2>2, ContentsSeq, WaitingIs
  <2>4. Waiting = <<>>
    BY <2>3, EmptySeq
  <2>5. QED
    BY <1>1, <2>4 DEF Init, Queue!Init
<1>2. ASSUME TypeOK, [Next]_vars PROVE [Queue!Next]_Queue!qvars
  <2>1. CASE Enqueue
    <3>1. thread = "enqueue" /\ thread' = "signal" /\ got' = got /\ event \in Events /\ event # Again
      BY <1>2, <2>1, EventsAssumption DEF TypeOK, Enqueue, Again
    <3>2. Len(Waiting) \in 0 .. Size - 1
      BY <1>2, ContentsSeq, WaitingIs DEF TypeOK
    <3>3. Waiting' = IF Len(Waiting) < Size - 1 THEN Append(Waiting, event) ELSE Waiting
      BY <1>2, <2>1, EnqueueStep
    <3>4. CASE Len(Waiting) < Size - 1
      BY <3>1, <3>3, <3>4 DEF Queue!Next, Queue!Put
    <3>5. CASE ~(Len(Waiting) < Size - 1)
      <4>1. Len(Waiting) = Size - 1
        BY <3>2, <3>5, SizeAssumption
      <4>2. Waiting' = Waiting
        BY <3>3, <3>5, Zenon
      <4>3. QED
        BY <3>1, <4>1, <4>2 DEF Queue!Next, Queue!Drop
    <3>6. QED
      BY <3>4, <3>5
  <2>2. CASE Dequeue
    <3>1. Waiting # <<>> /\ got' = Head(Waiting) /\ Waiting' = Tail(Waiting)
      BY <1>2, <2>2, DequeueStep
    <3>2. thread' = thread /\ event' = event
      BY <2>2 DEF Dequeue
    <3>3. QED
      BY <3>1, <3>2 DEF Queue!Next, Queue!Get
  <2>3. CASE Empty
    <3>1. head \in Slots /\ tail = head /\ nqueue \in [Slots -> Events]
      BY <1>2, <2>3 DEF Empty, TypeOK
    <3>2. Count(head, tail) = 0
      BY <3>1, CountIs, SizeAssumption DEF Slots
    <3>3. Waiting \in Seq(Events) /\ Len(Waiting) = 0
      BY <3>1, <3>2, ContentsSeq, WaitingIs
    <3>4. Waiting = <<>>
      BY <3>3, EmptySeq
    <3>5. /\ nqueue' = nqueue /\ head' = head /\ tail' = tail
          /\ thread' = thread /\ event' = event /\ got' = Again
      BY <2>3 DEF Empty
    <3>6. Waiting' = Waiting
      BY <3>5 DEF Waiting
    <3>7. QED
      BY <3>4, <3>5, <3>6 DEF Queue!Next, Queue!Miss
  <2>4. CASE ~Enqueue /\ ~Dequeue /\ ~Empty
    BY <1>2, <2>4, QuietStep
  <2>5. QED
    BY <2>1, <2>2, <2>3, <2>4
<1>3. QED
  BY <1>1, <1>2, TypeCorrect, PTL DEF Spec, Fifo, Queue!Spec
=============================================================================
