--------------------------- MODULE Session_proofs ---------------------------
(***************************************************************************)
(* Proofs about Session: why a client and razerd stay in step.  The three  *)
(* programs' tables of replies are shown to agree, command by command; the *)
(* inductive invariant says where the answer of a call in progress is: the *)
(* command still on its way, or the tokens of the answer that are left, in *)
(* one piece, notifications before and after it, and no token of anybody   *)
(* else.  An upload goes through five such places.                         *)
(***************************************************************************)
EXTENDS Session, TLAPS

-----------------------------------------------------------------------------
(* The three programs' tables.                                             *)

(* s is n numbers.  That many are n numbers, however they are put          *)
(* together.                                                               *)
Numbers(s, n) == s \in Seq({"u32"}) /\ Len(s) = n

LEMMA NumbersJoin ==
  ASSUME NEW s, NEW t, NEW m \in Nat, NEW n \in Nat, Numbers(s, m), Numbers(t, n)
  PROVE  Numbers(s \o t, m + n)
<1>1. \A x, y \in Seq({"u32"}) : x \o y \in Seq({"u32"}) /\ Len(x \o y) = Len(x) + Len(y)
  OBVIOUS
<1>2. s \o t \in Seq({"u32"}) /\ Len(s \o t) = Len(s) + Len(t)
  BY <1>1, Zenon DEF Numbers
<1>3. QED
  BY <1>2, Zenon DEF Numbers

LEMMA NumbersSame ==
  ASSUME NEW s, NEW t, NEW n \in Nat, Numbers(s, n), Numbers(t, n)
  PROVE  s = t
  BY DEF Numbers

LEMMA MappingEntry ==
  /\ <<"u32", "u32">> \o <<"u32", "u32", "u32">> \o <<"u32", "u32">> \o <<"u32">>
       = <<"u32", "u32">> \o <<"u32", "u32", "u32">> \o <<"u32", "u32", "u32">>
  /\ Numbers(<<"u32", "u32">> \o <<"u32", "u32", "u32">> \o <<"u32", "u32", "u32">>, 8)
<1> DEFINE one   == <<"u32">>
           two   == <<"u32", "u32">>
           three == <<"u32", "u32", "u32">>
<1>1. Numbers(one, 1) /\ Numbers(two, 2) /\ Numbers(three, 3)
  BY DEF Numbers
<1> HIDE DEF one, two, three
<1>2. Numbers(two \o three, 5)
  BY <1>1, NumbersJoin, 2 + 3 = 5
<1>3. Numbers(two \o three \o two, 7)
  BY <1>1, <1>2, NumbersJoin, 5 + 2 = 7
<1>4. Numbers(two \o three \o two \o one, 8)
  BY <1>1, <1>3, NumbersJoin, 7 + 1 = 8
<1>5. Numbers(two \o three \o three, 8)
  BY <1>1, <1>2, NumbersJoin, 5 + 3 = 8
<1>6. two \o three \o two \o one = two \o three \o three
  BY <1>4, <1>5, NumbersSame
<1>7. QED
  BY <1>5, <1>6 DEF one, two, three

(* The reply to each command, as razerd's clients know it.                 *)
Mapping == Counted(<<"u32", "u32">> \o <<"u32", "u32", "u32">> \o <<"u32", "u32", "u32">>)

Form(c) ==
  CASE c \in {"rescanmice", "reconfigmice"} -> NoReply
    [] c = "getmice" -> Counted(<<"str">>)
    [] c = "getleds" -> Counted(<<"u32", "str", "u32", "u32", "u32", "u32">>)
    [] c = "suppdpimappings" -> Mapping
    [] c \in {"suppfreqs", "suppresol", "getprofiles"} -> Counted(<<"u32">>)
    [] c = "getprofname" -> Tokens(<<"str">>)
    [] c \in {"suppbuttons", "suppbutfuncs"} -> Counted(<<"u32", "str">>)
    [] c = "getbutfunc" -> Tokens(<<"u32", "str">>)
    [] c = "suppaxes" -> Counted(<<"u32", "str", "u32">>)
    [] OTHER -> Scalar

(* Table t agrees with that, for the commands it has.                      *)
Says(t) == \A c \in DOMAIN t : t[c] = Form(c)

LEMMA Together ==
  ASSUME NEW f, NEW g, Says(f), Says(g)
  PROVE  Says(f ++ g)
  BY DEF Says, ++

LEMMA RazerdRepliesSays == Says(RazerdReplies)
<1>1. Says(RazerdDevices)
  BY DEF Says, Form, RazerdDevices, Scalars, ++
<1>2. Says(RazerdDpi)
  <2>1. RazerdDpi = Scalars({"changedpimapping", "getdpimapping", "setdpimapping"})
                    ++ [suppdpimappings |-> Mapping]
    BY MappingEntry, Zenon DEF RazerdDpi, Mapping
  <2>2. QED
    BY <2>1 DEF Says, Form, Scalars, ++
<1>3. Says(RazerdLeds)
  BY DEF Says, Form, RazerdLeds, Scalars, ++
<1>4. Says(RazerdSetLed)
  BY DEF Says, Form, RazerdSetLed, Scalars, ++
<1>5. Says(RazerdProfiles)
  BY DEF Says, Form, RazerdProfiles, Scalars, ++
<1>6. Says(RazerdButtons)
  BY DEF Says, Form, RazerdButtons, Scalars, ++
<1>7. Says(RazerdAxes)
  BY DEF Says, Form, RazerdAxes, Scalars, ++
<1>8. Says([getrev |-> Scalar])
  BY DEF Says, Form
<1>9. Says(RazerdDevices ++ RazerdDpi)
  BY <1>1, <1>2, Together
<1>10. Says(RazerdDevices ++ RazerdDpi ++ RazerdLeds)
  BY <1>9, <1>3, Together
<1>11. Says(RazerdDevices ++ RazerdDpi ++ RazerdLeds ++ RazerdSetLed)
  BY <1>10, <1>4, Together
<1>12. Says(RazerdDevices ++ RazerdDpi ++ RazerdLeds ++ RazerdSetLed ++ RazerdProfiles)
  BY <1>11, <1>5, Together
<1>13. Says(RazerdDevices ++ RazerdDpi ++ RazerdLeds ++ RazerdSetLed ++ RazerdProfiles ++ RazerdButtons)
  BY <1>12, <1>6, Together
<1>14. Says(RazerdDevices ++ RazerdDpi ++ RazerdLeds ++ RazerdSetLed ++ RazerdProfiles ++ RazerdButtons ++ RazerdAxes)
  BY <1>13, <1>7, Together
<1>15. QED
  BY <1>14, <1>8, Together DEF RazerdReplies

LEMMA LibReadsSays == Says(LibReads)
<1>1. Says(LibDevices)
  BY DEF Says, Form, LibDevices, Scalars, ++
<1>2. Says(LibLeds)
  BY DEF Says, Form, LibLeds, Scalars, ++
<1>3. Says(LibDpi)
  BY DEF Says, Form, LibDpi, Scalars, ++, Mapping
<1>4. Says(LibFreqs)
  BY DEF Says, Form, LibFreqs, Scalars, ++
<1>5. Says(LibProfiles)
  BY DEF Says, Form, LibProfiles, Scalars, ++
<1>6. Says(LibButtons)
  BY DEF Says, Form, LibButtons, Scalars, ++
<1>7. Says(LibAxes)
  BY DEF Says, Form, LibAxes, Scalars, ++
<1>8. Says(LibDevices ++ LibLeds)
  BY <1>1, <1>2, Together
<1>9. Says(LibDevices ++ LibLeds ++ LibDpi)
  BY <1>8, <1>3, Together
<1>10. Says(LibDevices ++ LibLeds ++ LibDpi ++ LibFreqs)
  BY <1>9, <1>4, Together
<1>11. Says(LibDevices ++ LibLeds ++ LibDpi ++ LibFreqs ++ LibProfiles)
  BY <1>10, <1>5, Together
<1>12. Says(LibDevices ++ LibLeds ++ LibDpi ++ LibFreqs ++ LibProfiles ++ LibButtons)
  BY <1>11, <1>6, Together
<1>13. QED
  BY <1>12, <1>7, Together DEF LibReads

LEMMA PyReadsSays == Says(PyReads)
<1>1. Says(PyDevices)
  BY DEF Says, Form, PyDevices, Scalars, ++
<1>2. Says(PyLeds)
  BY DEF Says, Form, PyLeds, Scalars, ++
<1>3. Says(PyDpi)
  BY DEF Says, Form, PyDpi, Scalars, ++, Mapping
<1>4. Says(PyProfiles)
  BY DEF Says, Form, PyProfiles, Scalars, ++
<1>5. Says(PyButtons)
  BY DEF Says, Form, PyButtons, Scalars, ++
<1>6. Says(PyDevices ++ PyLeds)
  BY <1>1, <1>2, Together
<1>7. Says(PyDevices ++ PyLeds ++ PyDpi)
  BY <1>6, <1>3, Together
<1>8. Says(PyDevices ++ PyLeds ++ PyDpi ++ PyProfiles)
  BY <1>7, <1>4, Together
<1>9. QED
  BY <1>8, <1>5, Together DEF PyReads

(* razerd serves all that librazerd sends.                                 *)
LEMMA Served == DOMAIN LibReads \subseteq DOMAIN RazerdReplies
<1>1. ASSUME NEW f, NEW g PROVE DOMAIN (f ++ g) = DOMAIN f \cup DOMAIN g
  BY DEF ++
<1>2. /\ DOMAIN LibDevices = {"rescanmice", "reconfigmice", "getmice", "getmouseinfo"}
      /\ DOMAIN LibLeds = {"getleds", "setled"}
      /\ DOMAIN LibDpi = {"changedpimapping", "getdpimapping", "setdpimapping", "suppdpimappings"}
      /\ DOMAIN LibFreqs = {"getfreq", "setfreq", "getfwver", "suppfreqs", "suppresol"}
      /\ DOMAIN LibProfiles = {"getactiveprof", "setactiveprof", "setprofname", "getprofiles",
                               "getprofname"}
      /\ DOMAIN LibButtons = {"suppbuttons", "suppbutfuncs", "getbutfunc", "setbutfunc"}
      /\ DOMAIN LibAxes = {"suppaxes"}
  BY DEF LibDevices, LibLeds, LibDpi, LibFreqs, LibProfiles, LibButtons, LibAxes, Scalars,
         ++
<1>3. /\ DOMAIN RazerdDevices = {"getfwver", "getfreq", "getmice", "suppfreqs", "suppresol"}
      /\ DOMAIN RazerdDpi = {"changedpimapping", "getdpimapping", "setdpimapping",
                              "suppdpimappings"}
      /\ DOMAIN RazerdLeds = {"rescanmice", "reconfigmice", "getmouseinfo", "getleds"}
      /\ DOMAIN RazerdSetLed = {"setled", "setfreq"}
      /\ DOMAIN RazerdProfiles = {"setprofname", "getactiveprof", "setactiveprof", "getprofiles",
                                  "getprofname"}
      /\ DOMAIN RazerdButtons = {"suppbuttons", "suppbutfuncs", "getbutfunc", "setbutfunc"}
      /\ DOMAIN RazerdAxes = {"suppaxes"}
  BY DEF RazerdDevices, RazerdDpi, RazerdLeds, RazerdSetLed, RazerdProfiles, RazerdButtons,
         RazerdAxes, Scalars, ++
<1>4. DOMAIN LibReads =
        DOMAIN LibDevices \cup DOMAIN LibLeds \cup DOMAIN LibDpi \cup DOMAIN LibFreqs
        \cup DOMAIN LibProfiles \cup DOMAIN LibButtons \cup DOMAIN LibAxes
  BY SMTT(30) DEF LibReads, ++
<1>5. DOMAIN RazerdReplies =
        DOMAIN RazerdDevices \cup DOMAIN RazerdDpi \cup DOMAIN RazerdLeds
        \cup DOMAIN RazerdSetLed \cup DOMAIN RazerdProfiles \cup DOMAIN RazerdButtons
        \cup DOMAIN RazerdAxes \cup DOMAIN [getrev |-> Scalar]
  <2> DEFINE seven == RazerdDevices ++ RazerdDpi ++ RazerdLeds ++ RazerdSetLed ++ RazerdProfiles
                      ++ RazerdButtons ++ RazerdAxes
  <2>1. DOMAIN seven = DOMAIN RazerdDevices \cup DOMAIN RazerdDpi \cup DOMAIN RazerdLeds
                       \cup DOMAIN RazerdSetLed \cup DOMAIN RazerdProfiles
                       \cup DOMAIN RazerdButtons \cup DOMAIN RazerdAxes
    BY SMTT(30) DEF ++
  <2>2. RazerdReplies = seven ++ [getrev |-> Scalar]
    BY Zenon DEF RazerdReplies
  <2> HIDE DEF seven
  <2>3. DOMAIN RazerdReplies = DOMAIN seven \cup DOMAIN [getrev |-> Scalar]
    BY <1>1, <2>2, Zenon
  <2>4. QED
    BY <2>1, <2>3, Zenon
<1>6. QED
  BY <1>2, <1>3, <1>4, <1>5

(* The three programs agree on every reply.                                *)
LEMMA SameForm ==
  ASSUME NEW c \in Commands
  PROVE  LibReads[c] = Form(c) /\ PyReads[c] = Form(c) /\ RazerdReplies[c] = Form(c)
<1>1. c \in DOMAIN LibReads /\ c \in DOMAIN PyReads /\ c \in DOMAIN RazerdReplies
  BY CommandsAssumption, Served
<1>2. QED
  BY <1>1, LibReadsSays, PyReadsSays, RazerdRepliesSays DEF Says

-----------------------------------------------------------------------------
(* The inductive invariant.                                                *)

Kinds  == {"u32", "str"}
Needs  == Kinds \cup {"count"}
Token  == [kind : Kinds \cup {"note", "body"}, of : Nat, val : Nat]
Unit   == [no : Nat, cmd : {"flashfw", "rest", "chunk"}, size : Nat]
Call   == [no : 0 .. MaxCalls, cmd : Commands \cup {Nobody, "flashfw"},
           need : Seq(Needs), took : SUBSET Nat]

Command    == [no : Nat, cmd : Commands]
Request(w) == IF w = "control" THEN Command ELSE Unit

(* A call in progress has something to receive; on the control connection  *)
(* the count of a list comes alone.                                        *)
Waiting(k) ==
  /\ k.no > 0 /\ k.need # <<>>
  /\ wire = "control" => /\ k.cmd \in Commands
                         /\ k.need = <<"count">> \/ k.need \in Seq(Kinds)

(* One thread at a time is in a call, and it holds the lock.               *)
Calling ==
  /\ lock \in Threads \cup {Nobody}
  /\ call \in [Threads -> Call]
  /\ \A t \in Threads : call[t] = Idle <=> lock # t
  /\ \A t \in Threads : lock = t => Waiting(call[t])

(* The types, of what TypeOK does not speak of also.                       *)
Shaped ==
  /\ library \in {"librazerd", "pyrazer"} /\ wire \in {"control", "privileged"}
  /\ Calling
  /\ up \in Seq(Request(wire))
  /\ down \in Seq(Token)
  /\ bulk \in [no : Nat, left : 0 .. MaxChunks]
  /\ big \in BOOLEAN /\ alive \in BOOLEAN /\ failed \in BOOLEAN
  /\ calls \in 0 .. MaxCalls /\ events \in 0 .. MaxEvents
  /\ ~alive => up = <<>>
  /\ wire = "control" /\ events = 0 => \A i \in DOMAIN down : down[i] # Note

Quiet(s)  == \A i \in DOMAIN s : s[i] = Note
Silent(s) == \A i \in DOMAIN s : Form(s[i].cmd) = NoReply

AtFirst(c) == IF Form(c).list THEN <<"count">> ELSE Form(c).ts

(* The kinds of the tokens that call k still receives, n being its count.  *)
Expected(k, n) == IF k.need = <<"count">> THEN <<"u32">> \o Entries(Form(k.cmd).ts, n) ELSE k.need

(* razerd has not received the command, but will.                          *)
Sent(k) ==
  /\ alive /\ up # <<>> /\ up[Len(up)] = [no |-> k.no, cmd |-> k.cmd]
  /\ \A i \in 1 .. Len(up) - 1 : Form(up[i].cmd) = NoReply
  /\ k.need = AtFirst(k.cmd)
  /\ Quiet(down)

(* Token tok is of that kind, and answers the call no.                     *)
Fitting(tok, kind, no) == tok.kind = kind /\ tok.of = no

(* Of the tokens s those after the first a are what e asks for, in answer  *)
(* to the call no, and the others are notifications.                       *)
Carries(s, a, e, no) ==
  /\ a + Len(e) <= Len(s)
  /\ \A i \in DOMAIN s :
       IF i \in a + 1 .. a + Len(e) THEN Fitting(s[i], e[i - a], no) ELSE s[i] = Note

(* What is left of the answer has been sent.                               *)
Answered(k) ==
  /\ up = <<>>
  /\ \E a \in Nat, n \in Nat :
       /\ Carries(down, a, Expected(k, n), k.no)
       /\ k.need = <<"count">> => down[a + 1].val = n

(* razerd has gone before it answered.                                     *)
Cut == ~alive /\ Quiet(down)

(* The control connection, as long as nothing has disturbed librazerd.     *)
Steady == wire = "control" /\ (library = "pyrazer" \/ events = 0)

Whereabouts ==
  /\ OwnAnswer
  /\ lock = Nobody => Quiet(down) /\ Silent(up)
  /\ \A t \in Threads : lock = t => Sent(call[t]) \/ Answered(call[t]) \/ Cut

CallsInStep == Steady => Whereabouts

(* Where an upload can be: the command is on its way; a chunk is; a chunk  *)
(* is acknowledged; the last chunk is, and the result has been sent; the   *)
(* result has not been received; razerd has gone.                          *)
AtCommand(k) ==
  /\ alive /\ down = <<>> /\ bulk.left = 0
  /\ up = FlashCommand(k.no, Len(k.need) - 1)
          \o (IF Len(k.need) = 1 THEN <<>> ELSE <<Chunk(k.no)>>)
AtChunk(k) ==
  /\ alive /\ down = <<>> /\ up = <<Chunk(k.no)>>
  /\ Len(k.need) > 1 /\ bulk = [no |-> k.no, left |-> Len(k.need) - 1]
AtAck(k) ==
  /\ up = <<>> /\ down = <<Code(k.no, 0)>>
  /\ Len(k.need) > 2 /\ bulk = [no |-> k.no, left |-> Len(k.need) - 2]
AtLastAck(k) ==
  /\ up = <<>> /\ Len(k.need) = 2 /\ bulk.left = 0
  /\ \E val \in {0, 1} : down = <<Code(k.no, 0), Code(k.no, val)>>
AtResult(k) ==
  /\ up = <<>> /\ Len(k.need) = 1 /\ bulk.left = 0
  /\ \E val \in {0, 1} : down = <<Code(k.no, val)>>
Gone == ~alive /\ up = <<>> /\ down = <<>>

Place(k) ==
  \/ AtCommand(k) \/ AtChunk(k) \/ AtAck(k) \/ AtLastAck(k) \/ AtResult(k) \/ Gone

UploadWhereabouts ==
  /\ OwnAnswer
  /\ lock = Nobody => down = <<>> /\ (alive => up = <<>> /\ bulk.left = 0)
  /\ \A t \in Threads : lock = t => Len(call[t].need) - 1 <= MaxChunks /\ Place(call[t])

UploadsInStep == wire = "privileged" /\ ~big => UploadWhereabouts

IInv ==
  /\ Shaped
  /\ CallsInStep /\ UploadsInStep
  /\ FailsForAReason

(* What each form is: a list has an entry, and a reply that is none has no *)
(* tokens.                                                                 *)
LEMMA FormShape ==
  ASSUME NEW c \in Commands
  PROVE  /\ Reads(c) = Form(c) /\ RazerdReplies[c] = Reads(c)
         /\ Form(c).list \in BOOLEAN /\ Form(c).ts \in Seq(Kinds)
         /\ Form(c).list => Form(c).ts # <<>>
         /\ Form(c).ts = <<>> <=> Form(c) = NoReply
<1>1. Reads(c) = Form(c) /\ RazerdReplies[c] = Reads(c)
  BY SameForm DEF Reads
<1>2. ASSUME NEW ts \in Seq(Kinds), ts # <<>>
      PROVE  \A f \in {Counted(ts), Tokens(ts)} :
               /\ f.list \in BOOLEAN /\ f.ts \in Seq(Kinds) /\ f.ts # <<>> /\ f # NoReply
  <2>1. NoReply.ts = <<>>
    BY DEF NoReply, Tokens
  <2>2. Counted(ts).list = TRUE /\ Counted(ts).ts = ts
    BY DEF Counted
  <2>3. Tokens(ts).list = FALSE /\ Tokens(ts).ts = ts
    BY DEF Tokens
  <2>4. QED
    BY <1>2, <2>1, <2>2, <2>3
<1>3. NoReply.list = FALSE /\ NoReply.ts = <<>> /\ <<>> \in Seq(Kinds)
  BY DEF NoReply, Tokens
<1>4. /\ <<"str">> \in Seq(Kinds) /\ <<"u32">> \in Seq(Kinds) /\ <<"u32", "str">> \in Seq(Kinds)
      /\ <<"u32", "str", "u32">> \in Seq(Kinds)
      /\ <<"u32", "str", "u32", "u32", "u32", "u32">> \in Seq(Kinds)
  BY DEF Kinds
<1>5. PICK m \in Seq(Kinds) : m # <<>> /\ Mapping = Counted(m)
  <2> DEFINE m == <<"u32", "u32">> \o <<"u32", "u32", "u32">> \o <<"u32", "u32", "u32">>
  <2>1. m \in Seq({"u32"}) /\ Len(m) = 8
    BY MappingEntry, Zenon DEF Numbers
  <2>2. Mapping = Counted(m)
    BY Zenon DEF Mapping
  <2> HIDE DEF m
  <2>3. {"u32"} \subseteq Kinds
    BY DEF Kinds
  <2>4. m \in Seq(Kinds) /\ m # <<>>
    BY <2>1, <2>3
  <2>5. QED
    BY <2>2, <2>4
<1>6. \/ Form(c) = NoReply
      \/ \E ts \in Seq(Kinds) : ts # <<>> /\ Form(c) \in {Counted(ts), Tokens(ts)}
  BY <1>4, <1>5 DEF Form, Scalar
<1>7. CASE Form(c) = NoReply
  BY <1>1, <1>3, <1>7
<1>8. CASE \E ts \in Seq(Kinds) : ts # <<>> /\ Form(c) \in {Counted(ts), Tokens(ts)}
  BY <1>1, <1>2, <1>8
<1>9. QED
  BY <1>6, <1>7, <1>8

LEMMA EntriesType ==
  ASSUME NEW e \in Seq(Kinds), NEW n \in Nat
  PROVE  Entries(e, n) \in Seq(Kinds)
<1>1. n * Len(e) \in Nat
  OBVIOUS
<1>2. ASSUME NEW i \in 1 .. n * Len(e) PROVE e[((i - 1) % Len(e)) + 1] \in Kinds
  <2>1. Len(e) # 0
    BY <1>2
  <2>2. (i - 1) % Len(e) \in 0 .. Len(e) - 1
    BY <1>2, <2>1
  <2>3. QED
    BY <2>2
<1>3. QED
  BY <1>1, <1>2 DEF Entries

-----------------------------------------------------------------------------
(* Tokens.                                                                 *)

LEMMA ExpectedType ==
  ASSUME NEW k \in Call, NEW n \in Nat, Waiting(k), wire = "control"
  PROVE  Expected(k, n) \in Seq(Kinds) /\ Expected(k, n) # <<>>
<1>1. CASE k.need = <<"count">>
  <2>1. Entries(Form(k.cmd).ts, n) \in Seq(Kinds)
    BY FormShape, EntriesType DEF Waiting
  <2>2. <<"u32">> \in Seq(Kinds) /\ Len(<<"u32">>) = 1
    BY DEF Kinds
  <2>3. QED
    BY <1>1, <2>1, <2>2 DEF Expected
<1>2. CASE k.need # <<"count">>
  BY <1>2 DEF Expected, Waiting
<1>3. QED
  BY <1>1, <1>2

LEMMA NoteType == Note \in Token /\ Note.kind = "note" /\ Note.kind \notin Kinds
  BY DEF Note, Token, Kinds

LEMMA KindsNeeded ==
  ASSUME NEW s \in Seq(Kinds)
  PROVE  s \in Seq(Needs)
<1>1. Kinds \subseteq Needs
  BY DEF Needs
<1>2. QED
  BY <1>1

(* What is not a notification is not in a quiet connection.                *)
LEMMA QuietTail ==
  ASSUME NEW s \in Seq(Token), s # <<>>, Quiet(s)
  PROVE  Head(s) = Note /\ Quiet(Tail(s))
  BY DEF Quiet

LEMMA QuietNote ==
  ASSUME NEW s \in Seq(Token), Quiet(s)
  PROVE  Quiet(Append(s, Note))
  BY DEF Quiet

(* Receiving the first token of an answer, and a notification before it.   *)
LEMMA CarriesTail ==
  ASSUME NEW s \in Seq(Token), NEW e \in Seq(Kinds), e # <<>>, NEW no, Carries(s, 0, e, no)
  PROVE  s # <<>> /\ Fitting(s[1], e[1], no) /\ Carries(Tail(s), 0, Tail(e), no)
<1>1. Len(s) > 0 /\ Len(e) > 0 /\ Len(e) <= Len(s)
  BY DEF Carries
<1>2. Fitting(s[1], e[1], no)
  BY <1>1 DEF Carries
<1>3. ASSUME NEW i \in DOMAIN Tail(s)
      PROVE  IF i \in 0 + 1 .. 0 + Len(Tail(e)) THEN Fitting(Tail(s)[i], Tail(e)[i - 0], no)
             ELSE Tail(s)[i] = Note
  <2>1. i + 1 \in DOMAIN s /\ Tail(s)[i] = s[i + 1] /\ i \in 1 .. Len(s) - 1
    BY <1>1, <1>3
  <2>2. CASE i \in 1 .. Len(e) - 1
    BY <1>1, <2>1, <2>2 DEF Carries
  <2>3. CASE i \notin 1 .. Len(e) - 1
    BY <1>1, <2>1, <2>3 DEF Carries
  <2>4. QED
    BY <2>2, <2>3
<1>4. QED
  BY <1>1, <1>2, <1>3 DEF Carries

LEMMA CarriesSkip ==
  ASSUME NEW s \in Seq(Token), NEW e \in Seq(Kinds), NEW no, NEW a \in Nat \ {0}, Carries(s, a, e, no)
  PROVE  s # <<>> /\ s[1] = Note /\ a - 1 \in Nat /\ Carries(Tail(s), a - 1, e, no)
<1>1. Len(s) > 0 /\ a + Len(e) <= Len(s) /\ Len(e) \in Nat
  BY DEF Carries
<1>2. s[1] = Note
  BY <1>1 DEF Carries
<1>3. ASSUME NEW i \in DOMAIN Tail(s)
      PROVE  IF i \in (a - 1) + 1 .. (a - 1) + Len(e) THEN Fitting(Tail(s)[i], e[i - (a - 1)], no)
             ELSE Tail(s)[i] = Note
  <2>1. i + 1 \in DOMAIN s /\ Tail(s)[i] = s[i + 1] /\ i \in 1 .. Len(s) - 1
    BY <1>1, <1>3
  <2>2. IF i + 1 \in a + 1 .. a + Len(e) THEN Fitting(s[i + 1], e[(i + 1) - a], no) ELSE s[i + 1] = Note
    BY <2>1 DEF Carries
  <2>3. (i + 1) - a = i - (a - 1)
    BY <2>1
  <2>4. QED
    BY <1>1, <2>1, <2>2, <2>3
<1>4. QED
  BY <1>1, <1>2, <1>3 DEF Carries

LEMMA CarriesNote ==
  ASSUME NEW s \in Seq(Token), NEW e \in Seq(Kinds), NEW no, NEW a \in Nat, Carries(s, a, e, no)
  PROVE  Carries(Append(s, Note), a, e, no)
<1>1. /\ Append(s, Note) \in Seq(Token) /\ Len(Append(s, Note)) = Len(s) + 1
      /\ Append(s, Note)[Len(s) + 1] = Note
      /\ \A i \in 1 .. Len(s) : Append(s, Note)[i] = s[i]
  BY NoteType
<1>2. a + Len(e) <= Len(s) /\ Len(e) \in Nat /\ Len(s) \in Nat
  BY DEF Carries
<1>3. ASSUME NEW i \in DOMAIN Append(s, Note)
      PROVE  IF i \in a + 1 .. a + Len(e) THEN Fitting(Append(s, Note)[i], e[i - a], no)
             ELSE Append(s, Note)[i] = Note
  <2>1. CASE i \in 1 .. Len(s)
    BY <1>1, <2>1 DEF Carries
  <2>2. CASE i = Len(s) + 1
    BY <1>1, <1>2, <2>2
  <2>3. QED
    BY <1>1, <2>1, <2>2
<1>4. QED
  BY <1>1, <1>2, <1>3 DEF Carries

LEMMA CarriesNothing ==
  ASSUME NEW s \in Seq(Token), NEW no, NEW a \in Nat, Carries(s, a, <<>>, no)
  PROVE  Quiet(s)
  BY DEF Carries, Quiet

(* The next token of an answer is what the call can take.                  *)
LEMMA AnswerFits ==
  ASSUME NEW k \in Call, NEW n \in Nat, Waiting(k), wire = "control"
  PROVE  /\ Fits(Head(k.need), Expected(k, n)[1])
         /\ ~Fits(Head(k.need), "note")
<1>1. CASE k.need = <<"count">>
  <2>1. Head(k.need) = "count"
    BY <1>1
  <2>2. Entries(Form(k.cmd).ts, n) \in Seq(Kinds)
    BY FormShape, EntriesType DEF Waiting
  <2>3. Expected(k, n)[1] = "u32"
    BY <1>1, <2>2 DEF Expected
  <2>4. QED
    BY <2>1, <2>3 DEF Fits
<1>2. CASE k.need # <<"count">>
  <2>1. k.need \in Seq(Kinds) /\ k.need # <<>> /\ Expected(k, n) = k.need
    BY <1>2 DEF Waiting, Expected
  <2>2. Head(k.need) = k.need[1] /\ k.need[1] \in Kinds
    BY <2>1
  <2>3. QED
    BY <2>1, <2>2 DEF Fits, Kinds
<1>3. QED
  BY <1>1, <1>2

LEMMA JoinAt ==
  ASSUME NEW s \in Seq(Kinds), NEW t \in Seq(Kinds)
  PROVE  /\ s \o t \in Seq(Kinds) /\ Len(s \o t) = Len(s) + Len(t)
         /\ \A i \in 1 .. Len(t) : (s \o t)[Len(s) + i] = t[i]
  OBVIOUS

LEMMA TailJoin ==
  ASSUME NEW s \in Seq(Kinds), Len(s) = 1, NEW t \in Seq(Kinds)
  PROVE  Tail(s \o t) = t
<1> DEFINE j == s \o t
<1>0. /\ j \in Seq(Kinds) /\ Len(j) = Len(s) + Len(t)
      /\ \A i \in 1 .. Len(t) : j[Len(s) + i] = t[i]
  BY JoinAt
<1> HIDE DEF j
<1>1. /\ j \in Seq(Kinds) /\ Len(j) = 1 + Len(t)
      /\ \A i \in 1 .. Len(t) : j[1 + i] = t[i]
  BY <1>0
<1>2. Tail(j) \in Seq(Kinds) /\ Len(Tail(j)) = Len(t)
  BY <1>1
<1>3. ASSUME NEW i \in 1 .. Len(t) PROVE Tail(j)[i] = t[i]
  BY <1>1
<1>4. Tail(j) = t
  BY <1>2, <1>3
<1>5. QED
  BY <1>4 DEF j

(* A call that takes a token goes on to expect the rest.                   *)
LEMMA TakenNeeds ==
  ASSUME NEW k \in Call, NEW tok \in Token, Waiting(k), wire = "control"
  PROVE  /\ Taken(k, tok) = [k EXCEPT !.took = k.took \cup {tok.of},
                                      !.need = Tail(Expected(k, tok.val))]
         /\ Taken(k, tok).need \in Seq(Kinds) /\ Taken(k, tok) \in Call
<1>0. tok.val \in Nat /\ tok.of \in Nat
  BY DEF Token
<1>1. Tail(Expected(k, tok.val)) \in Seq(Kinds)
  BY <1>0, ExpectedType
<1>2. ASSUME k.need = <<"count">>
      PROVE  Taken(k, tok) = [k EXCEPT !.took = k.took \cup {tok.of},
                                       !.need = Tail(Expected(k, tok.val))]
  <2>1. Entries(Form(k.cmd).ts, tok.val) \in Seq(Kinds)
    BY <1>0, FormShape, EntriesType DEF Waiting
  <2>2. Tail(<<"u32">> \o Entries(Form(k.cmd).ts, tok.val)) = Entries(Form(k.cmd).ts, tok.val)
    <3>1. <<"u32">> \in Seq(Kinds) /\ Len(<<"u32">>) = 1
      BY DEF Kinds
    <3>2. QED
      BY <2>1, <3>1, TailJoin, Zenon
  <2>3. Head(k.need) = "count" /\ Reads(k.cmd) = Form(k.cmd)
    BY <1>2, FormShape DEF Waiting
  <2>4. Tail(Expected(k, tok.val)) = Entries(Form(k.cmd).ts, tok.val)
    BY <1>2, <2>2, Zenon DEF Expected
  <2>5. QED
    BY <2>3, <2>4 DEF Taken, Call
<1>3. ASSUME k.need # <<"count">>
      PROVE  Taken(k, tok) = [k EXCEPT !.took = k.took \cup {tok.of},
                                       !.need = Tail(Expected(k, tok.val))]
  <2>1. k.need \in Seq(Kinds) /\ k.need # <<>> /\ Expected(k, tok.val) = k.need
    BY <1>3 DEF Waiting, Expected
  <2>2. Head(k.need) # "count"
    BY <2>1 DEF Kinds
  <2>3. QED
    BY <2>1, <2>2 DEF Taken, Call
<1>4. Taken(k, tok) = [k EXCEPT !.took = k.took \cup {tok.of}, !.need = Tail(Expected(k, tok.val))]
  BY <1>2, <1>3
<1>5. k.took \cup {tok.of} \in SUBSET Nat /\ Tail(Expected(k, tok.val)) \in Seq(Needs)
  BY <1>0, <1>1, KindsNeeded DEF Call
<1>6. [k EXCEPT !.took = k.took \cup {tok.of}, !.need = Tail(Expected(k, tok.val))] \in Call
  BY <1>5 DEF Call
<1>7. [k EXCEPT !.took = k.took \cup {tok.of}, !.need = Tail(Expected(k, tok.val))].need
        = Tail(Expected(k, tok.val))
  BY DEF Call
<1>8. QED
  BY <1>1, <1>4, <1>6, <1>7

-----------------------------------------------------------------------------
(* The types are kept.                                                     *)

LEMMA CallsSame ==
  ASSUME Calling, UNCHANGED <<lock, call, wire>>
  PROVE  Calling'
  BY DEF Calling, Waiting

LEMMA EndCall ==
  ASSUME Calling, NEW t \in Threads, lock = t, Return(t), UNCHANGED wire
  PROVE  Calling' /\ lock' = Nobody /\ \A u \in Threads : call'[u] = Idle
<1>1. Idle \in Call
  BY SessionBounds DEF Idle, Call
<1>2. lock' = Nobody /\ call' = [call EXCEPT ![t] = Idle]
  BY DEF Return
<1>3. \A u \in Threads : lock' # u /\ call'[u] = Idle
  BY <1>2, ThreadsAssumption DEF Calling
<1>4. QED
  BY <1>1, <1>2, <1>3 DEF Calling

LEMMA InCall ==
  ASSUME Calling, NEW t \in Threads, lock \in {t, Nobody}, NEW k \in Call, Waiting(k),
         lock' = t, call' = [call EXCEPT ![t] = k], UNCHANGED wire
  PROVE  Calling' /\ call'[t] = k /\ \A u \in Threads : lock' = u => u = t
<1>1. k # Idle
  BY DEF Waiting, Idle
<1>2. call' \in [Threads -> Call] /\ call'[t] = k /\ \A u \in Threads \ {t} : call'[u] = call[u]
  BY DEF Calling
<1>3. \A u \in Threads \ {t} : lock # u /\ lock' # u
  BY ThreadsAssumption
<1>4. \A u \in Threads : call'[u] = Idle <=> lock' # u
  BY <1>1, <1>2, <1>3 DEF Calling
<1>5. Waiting(k)'
  BY DEF Waiting
<1>6. \A u \in Threads : lock' = u => Waiting(call[u])'
  BY <1>2, <1>5
<1>7. QED
  BY <1>2, <1>4, <1>6 DEF Calling

(* The kinds of the tokens that razerd writes for a command.               *)
Written(c, n) ==
  IF RazerdReplies[c].list THEN <<"u32">> \o Entries(RazerdReplies[c].ts, n) ELSE RazerdReplies[c].ts

LEMMA AnswerType ==
  ASSUME NEW k \in Command, NEW n \in Nat
  PROVE  /\ Written(k.cmd, n) \in Seq(Kinds)
         /\ Answer(k, n) \in Seq(Token) /\ Len(Answer(k, n)) = Len(Written(k.cmd, n))
         /\ \A i \in 1 .. Len(Written(k.cmd, n)) :
              /\ Fitting(Answer(k, n)[i], Written(k.cmd, n)[i], k.no)
              /\ i = 1 => Answer(k, n)[i].val = n
<1> DEFINE e == Written(k.cmd, n)
<1>1. e \in Seq(Kinds)
  <2>1. RazerdReplies[k.cmd].ts \in Seq(Kinds)
    BY FormShape DEF Command
  <2>2. Entries(RazerdReplies[k.cmd].ts, n) \in Seq(Kinds)
    BY <2>1, EntriesType
  <2>3. <<"u32">> \in Seq(Kinds)
    BY DEF Kinds
  <2>4. <<"u32">> \o Entries(RazerdReplies[k.cmd].ts, n) \in Seq(Kinds)
    BY <2>2, <2>3
  <2>5. QED
    BY <2>1, <2>4 DEF Written
<1>2. Answer(k, n) = [i \in 1 .. Len(e) |-> [kind |-> e[i], of |-> k.no, val |-> IF i = 1 THEN n ELSE 0]]
  BY Zenon DEF Answer, Written
<1> HIDE DEF e
<1>3. ASSUME NEW i \in 1 .. Len(e)
      PROVE  [kind |-> e[i], of |-> k.no, val |-> IF i = 1 THEN n ELSE 0] \in Token
  BY <1>1 DEF Token, Command
<1>4. Answer(k, n) \in Seq(Token) /\ Len(Answer(k, n)) = Len(e)
  BY <1>1, <1>2, <1>3
<1>5. ASSUME NEW i \in 1 .. Len(e)
      PROVE  Fitting(Answer(k, n)[i], e[i], k.no) /\ (i = 1 => Answer(k, n)[i].val = n)
  <2>1. Answer(k, n)[i] = [kind |-> e[i], of |-> k.no, val |-> IF i = 1 THEN n ELSE 0]
    BY <1>2
  <2>2. QED
    BY <2>1 DEF Fitting
<1>6. QED
  BY <1>1, <1>4, <1>5 DEF e

LEMMA RestSame ==
  ASSUME Shaped, UNCHANGED <<library, upload, up, down, alive, failed, calls, events>>, Calling'
  PROVE  Shaped'
  BY DEF Shaped, upload

LEMMA TailType ==
  ASSUME NEW S, NEW s \in Seq(S), s # <<>>
  PROVE  Head(s) \in S /\ Tail(s) \in Seq(S) /\ \A i \in DOMAIN Tail(s) : Tail(s)[i] = s[i + 1] /\ i + 1 \in DOMAIN s
  OBVIOUS

LEMMA StartShaped ==
  ASSUME Shaped, NEW t \in Threads, NEW c \in Commands, Start(t, c)
  PROVE  Shaped'
<1>1. calls' \in 1 .. MaxCalls /\ Calling /\ lock = Nobody /\ wire = "control" /\ UNCHANGED wire
  BY SessionBounds DEF Start, Shaped, upload
<1>2. up' = up \/ (alive /\ up' = Append(up, [no |-> calls', cmd |-> c]))
  BY DEF Start
<1>3. up' \in Seq(Request(wire))
  <2>1. [no |-> calls', cmd |-> c] \in Command /\ up \in Seq(Command)
    BY <1>1, SessionBounds DEF Shaped, Request, Command
  <2>2. up' \in Seq(Command)
    BY <1>2, <2>1
  <2>3. QED
    BY <1>1, <2>2 DEF Request
<1>4. Calling'
  <2>1. CASE UNCHANGED <<lock, call>>
    BY <1>1, <2>1, CallsSame
  <2>2. CASE ~UNCHANGED <<lock, call>>
    <3> DEFINE k == [no |-> calls', cmd |-> c, took |-> {},
                     need |-> IF Reads(c).list THEN <<"count">> ELSE Reads(c).ts]
    <3>1. Reads(c) # NoReply /\ lock' = t /\ call' = [call EXCEPT ![t] = k]
      BY <2>2 DEF Start
    <3>2. Reads(c).ts \in Seq(Kinds) /\ Reads(c).ts # <<>>
      BY <3>1, FormShape
    <3>3. k.need # <<>> /\ (k.need = <<"count">> \/ k.need \in Seq(Kinds))
      BY <3>2
    <3>4. k.need \in Seq(Needs)
      <4>1. <<"count">> \in Seq(Needs)
        BY DEF Needs
      <4>2. Reads(c).ts \in Seq(Needs)
        BY <3>2, KindsNeeded
      <4>3. QED
        BY <4>1, <4>2
    <3>5. k \in Call
      BY <1>1, <3>4 DEF Call
    <3>6. Waiting(k)
      BY <1>1, <3>3 DEF Waiting
    <3> HIDE DEF k
    <3>7. QED
      BY <1>1, <3>1, <3>5, <3>6, InCall
  <2>3. QED
    BY <2>1, <2>2
<1>5. failed' \in BOOLEAN
  BY DEF Start, Shaped
<1>6. ~alive => up' = <<>>
  BY <1>2 DEF Shaped
<1>7. QED
  BY <1>1, <1>3, <1>4, <1>5, <1>6 DEF Start, Shaped, upload

(* A token is received.                                                    *)
LEMMA TokenGone ==
  ASSUME Shaped, down # <<>>, down' = Tail(down), UNCHANGED <<library, upload, alive, calls, events>>,
         up' \in Seq(Request(wire)), ~alive => up' = <<>>, failed' \in BOOLEAN, Calling'
  PROVE  Shaped'
<1>1. down' \in Seq(Token)
  BY DEF Shaped
<1>2. \A i \in DOMAIN down' : i + 1 \in DOMAIN down /\ down'[i] = down[i + 1]
  BY TailType DEF Shaped
<1>3. wire = "control" /\ events = 0 => \A i \in DOMAIN down' : down'[i] # Note
  BY <1>2 DEF Shaped
<1>4. QED
  BY <1>1, <1>3 DEF Shaped, upload

LEMMA ReceiveShaped ==
  ASSUME Shaped, NEW t \in Threads, Receive(t)
  PROVE  Shaped'
<1> DEFINE k == Taken(call[t], Head(down))
<1>1. /\ Calling /\ lock = t /\ down # <<>> /\ wire = "control" /\ UNCHANGED wire
      /\ down \in Seq(Token) /\ down' = Tail(down)
      /\ IF k.need = <<>> THEN Return(t) ELSE call' = [call EXCEPT ![t] = k] /\ UNCHANGED lock
  BY DEF Receive, Shaped, upload
<1>2. Head(down) \in Token /\ call[t] \in Call /\ Waiting(call[t])
  BY <1>1 DEF Calling
<1>3. k \in Call /\ k.need \in Seq(Kinds) /\ k.no = call[t].no /\ k.cmd = call[t].cmd
  <2>1. /\ k = [call[t] EXCEPT !.took = call[t].took \cup {Head(down).of},
                              !.need = Tail(Expected(call[t], Head(down).val))]
        /\ k.need \in Seq(Kinds) /\ k \in Call
    BY <1>1, <1>2, TakenNeeds
  <2> HIDE DEF k
  <2>2. k.no = call[t].no /\ k.cmd = call[t].cmd
    BY <1>2, <2>1 DEF Call
  <2>3. QED
    BY <2>1, <2>2
<1> HIDE DEF k
<1>4. CASE k.need = <<>>
  <2>1. Calling'
    BY <1>1, <1>4, EndCall
  <2>2. QED
    BY <1>1, <2>1, TokenGone DEF Receive, Shaped, upload
<1>5. CASE k.need # <<>>
  <2>1. Waiting(k)
    BY <1>2, <1>3, <1>5 DEF Waiting
  <2>2. Calling'
    BY <1>1, <1>3, <1>5, <2>1, InCall
  <2>3. QED
    BY <1>1, <2>2, TokenGone DEF Receive, Shaped, upload
<1>6. QED
  BY <1>4, <1>5

LEMMA SetAsideShaped ==
  ASSUME Shaped, NEW t \in Threads, SetAside(t)
  PROVE  Shaped'
<1>1. Calling'
  BY CallsSame DEF SetAside, Shaped, upload
<1>2. QED
  BY <1>1, TokenGone DEF SetAside, Shaped, upload

LEMMA RefuseShaped ==
  ASSUME Shaped, NEW t \in Threads, Refuse(t)
  PROVE  Shaped'
<1>1. /\ Calling' /\ failed' = TRUE /\ down # <<>> /\ down \in Seq(Token)
      /\ UNCHANGED <<library, upload, up, alive, calls, events>>
  BY EndCall DEF Refuse, Shaped, upload
<1>2. CASE down' = Tail(down)
  BY <1>1, <1>2, TokenGone DEF Shaped, upload
<1>3. CASE down' = <<[Head(down) EXCEPT !.kind = "body"]>> \o Tail(down)
  <2> DEFINE b == [Head(down) EXCEPT !.kind = "body"]
  <2>1. Head(down) \in Token /\ Tail(down) \in Seq(Token)
    BY <1>1
  <2>2. b \in Token /\ b # Note
    BY <2>1 DEF Token, Note
  <2> HIDE DEF b
  <2>3. down' \in Seq(Token) /\ Len(down') = Len(down) /\ down'[1] = b
        /\ \A i \in 2 .. Len(down) : down'[i] = down[i]
    BY <1>1, <1>3, <2>1, <2>2 DEF b
  <2>4. wire = "control" /\ events = 0 => \A i \in DOMAIN down' : down'[i] # Note
    BY <1>1, <2>2, <2>3 DEF Shaped
  <2>5. QED
    BY <1>1, <2>3, <2>4 DEF Shaped, upload
<1>4. QED
  BY <1>2, <1>3 DEF Refuse

LEMMA LostShaped ==
  ASSUME Shaped, NEW t \in Threads, Lost(t)
  PROVE  Shaped'
<1>1. Calling'
  BY EndCall DEF Lost, Shaped, upload
<1>2. QED
  BY <1>1 DEF Lost, Shaped, upload

LEMMA PollShaped ==
  ASSUME Shaped, Poll
  PROVE  Shaped'
<1>1. Calling'
  BY CallsSame DEF Poll, Shaped, upload
<1>2. failed' \in BOOLEAN
  BY DEF Poll, Shaped
<1>3. CASE down # <<>> /\ down' = Tail(down)
  BY <1>1, <1>2, <1>3, TokenGone DEF Poll, Shaped, upload
<1>4. CASE UNCHANGED down
  BY <1>1, <1>2, <1>4 DEF Poll, Shaped, upload
<1>5. QED
  BY <1>3, <1>4 DEF Poll

LEMMA ServeShaped ==
  ASSUME Shaped, Serve
  PROVE  Shaped'
<1>1. Calling'
  BY CallsSame DEF Serve, Shaped, upload
<1>2. wire = "control" /\ up # <<>> /\ up \in Seq(Command) /\ down \in Seq(Token)
  BY DEF Serve, Shaped, Request
<1>3. Head(up) \in Command /\ up' \in Seq(Command)
  BY <1>2 DEF Serve
<1>4. PICK n \in 0 .. MaxEntries : down' = down \o Answer(Head(up), n)
  BY DEF Serve
<1> DEFINE a == Answer(Head(up), n)
<1>5. a \in Seq(Token) /\ \A i \in DOMAIN a : a[i] # Note
  <2>1. n \in Nat
    BY SessionBounds
  <2> DEFINE w == Written(Head(up).cmd, n)
  <2>2. /\ w \in Seq(Kinds)
        /\ a \in Seq(Token) /\ Len(a) = Len(w)
        /\ \A i \in 1 .. Len(w) :
             Fitting(a[i], w[i], Head(up).no)
    BY <1>3, <2>1, AnswerType
  <2> HIDE DEF a, w
  <2>3. ASSUME NEW i \in DOMAIN a PROVE a[i].kind \in Kinds
    <3>1. i \in 1 .. Len(w)
      BY <2>2
    <3>2. w[i] \in Kinds
      BY <2>2, <3>1
    <3>3. a[i].kind = w[i]
      BY <2>2, <3>1 DEF Fitting
    <3>4. QED
      BY <3>2, <3>3
  <2>4. QED
    BY <2>2, <2>3, NoteType
<1> HIDE DEF a
<1>6. down' = down \o a
  BY <1>4 DEF a
<1>7. down' \in Seq(Token)
  BY <1>2, <1>5, <1>6
<1>8. wire = "control" /\ events = 0 => \A i \in DOMAIN down' : down'[i] # Note
  <2>1. Len(down') = Len(down) + Len(a)
        /\ \A i \in 1 .. Len(down') : down'[i] = IF i <= Len(down) THEN down[i] ELSE a[i - Len(down)]
    BY <1>2, <1>5, <1>6
  <2>2. QED
    <3>1. Len(down) \in Nat /\ Len(a) \in Nat /\ DOMAIN down' = 1 .. Len(down')
      BY <1>2, <1>5, <1>7
    <3>2. ASSUME NEW i \in DOMAIN down', wire = "control", events = 0 PROVE down'[i] # Note
      <4>1. CASE i <= Len(down)
        BY <1>2, <2>1, <3>1, <3>2, <4>1 DEF Shaped
      <4>2. CASE i > Len(down)
        BY <1>5, <2>1, <3>1, <4>2
      <4>3. QED
        BY <3>1, <4>1, <4>2
    <3>3. QED
      BY <3>2
<1>9. QED
  BY <1>1, <1>2, <1>3, <1>7, <1>8 DEF Serve, Shaped, upload, Request

LEMMA NotifyShaped ==
  ASSUME Shaped, Notify
  PROVE  Shaped'
<1>1. Calling'
  BY CallsSame DEF Notify, Shaped, upload
<1>2. down' \in Seq(Token)
  BY NoteType DEF Notify, Shaped
<1>3. events' \in 0 .. MaxEvents /\ events' # 0
  BY SessionBounds DEF Notify, Shaped
<1>4. QED
  BY <1>1, <1>2, <1>3 DEF Notify, Shaped, upload

LEMMA DieShaped ==
  ASSUME Shaped, Die
  PROVE  Shaped'
<1>1. Calling'
  BY CallsSame DEF Die, Shaped, upload
<1>2. up' \in Seq(Request(wire))
  BY DEF Die
<1>3. QED
  BY <1>1, <1>2 DEF Die, Shaped, upload

LEMMA FlashCommandType ==
  ASSUME NEW no \in Nat, NEW n \in Nat
  PROVE  /\ FlashCommand(no, n) \in Seq(Unit) /\ Len(FlashCommand(no, n)) = 4
         /\ FlashCommand(no, n)[1] = [no |-> no, cmd |-> "flashfw", size |-> n]
<1>1. \A i \in 1 .. 4 : [no |-> no, cmd |-> IF i = 1 THEN "flashfw" ELSE "rest", size |-> n] \in Unit
  BY DEF Unit
<1>2. FlashCommand(no, n) =
        [i \in 1 .. 4 |-> [no |-> no, cmd |-> IF i = 1 THEN "flashfw" ELSE "rest", size |-> n]]
  BY DEF FlashCommand, ChunksPerCommand
<1>3. FlashCommand(no, n) \in Seq(Unit) /\ Len(FlashCommand(no, n)) = 4
  BY <1>1, <1>2
<1>4. QED
  BY <1>2, <1>3

LEMMA ChunkType ==
  ASSUME NEW no \in Nat
  PROVE  Chunk(no) \in Unit /\ Chunk(no).cmd = "chunk" /\ Chunk(no).no = no
  BY DEF Chunk, Unit

LEMMA LongTail ==
  ASSUME NEW S, NEW s \in Seq(S), Len(s) > 1
  PROVE  Tail(s) \in Seq(S) /\ Tail(s) # <<>> /\ Len(Tail(s)) = Len(s) - 1
  OBVIOUS

LEMMA CodeType ==
  ASSUME NEW no \in Nat, NEW val \in Nat
  PROVE  Code(no, val) \in Token /\ Code(no, val).of = no /\ Code(no, val).val = val
  BY DEF Code, Token, Kinds

LEMMA UploadReadsType ==
  ASSUME NEW n \in Nat
  PROVE  UploadReads(n) \in Seq(Needs) /\ Len(UploadReads(n)) = n + 1
<1>1. "u32" \in Needs
  BY DEF Needs, Kinds
<1>2. QED
  BY <1>1 DEF UploadReads

LEMMA StartUploadShaped ==
  ASSUME Shaped, NEW t \in Threads, NEW n \in 0 .. MaxChunks + 1, StartUpload(t, n)
  PROVE  Shaped'
<1>0. n \in Nat
  BY SessionBounds
<1>1. calls' \in 1 .. MaxCalls /\ Calling /\ lock = Nobody /\ wire = "privileged" /\ UNCHANGED wire
  BY SessionBounds DEF StartUpload, Shaped
<1>2. big' \in BOOLEAN /\ failed' \in BOOLEAN
  BY DEF StartUpload, Shaped
<1>3. CASE alive
  <2> DEFINE k == [no |-> calls', cmd |-> "flashfw", took |-> {}, need |-> UploadReads(n)]
             s == IF n = 0 THEN <<>> ELSE <<Chunk(calls')>>
  <2>1. /\ lock' = t /\ call' = [call EXCEPT ![t] = k]
        /\ up' = up \o FlashCommand(calls', n) \o s
    BY <1>3 DEF StartUpload
  <2>2. k \in Call /\ Waiting(k)
    <3>1. UploadReads(n) \in Seq(Needs) /\ UploadReads(n) # <<>>
      BY <1>0, UploadReadsType
    <3>2. k \in Call
      BY <1>1, <3>1 DEF Call
    <3>3. QED
      BY <1>1, <3>1, <3>2 DEF Waiting
  <2>3. FlashCommand(calls', n) \in Seq(Unit) /\ s \in Seq(Unit)
    <3>1. calls' \in Nat
      BY <1>1
    <3>2. FlashCommand(calls', n) \in Seq(Unit) /\ Chunk(calls') \in Unit
      BY <1>0, <3>1, FlashCommandType, ChunkType
    <3>3. QED
      BY <3>2
  <2> HIDE DEF k, s
  <2>4. Calling'
    BY <1>1, <2>1, <2>2, InCall
  <2>5. up \in Seq(Unit)
    BY <1>1 DEF Shaped, Request
  <2>6. up' \in Seq(Unit)
    BY <2>1, <2>3, <2>5
  <2>7. QED
    BY <1>1, <1>2, <1>3, <2>4, <2>6 DEF StartUpload, Shaped, Request
<1>4. CASE ~alive
  <2>1. Calling'
    BY <1>1, <1>4, CallsSame DEF StartUpload
  <2>2. QED
    BY <1>1, <1>2, <1>4, <2>1 DEF StartUpload, Shaped
<1>5. QED
  BY <1>3, <1>4

LEMMA ReceiveAckShaped ==
  ASSUME Shaped, NEW t \in Threads, ReceiveAck(t)
  PROVE  Shaped'
<1> DEFINE k == [call[t] EXCEPT !.took = @ \cup {Head(down).of}, !.need = Tail(@)]
<1>1. /\ Calling /\ lock = t /\ down # <<>> /\ down \in Seq(Token) /\ wire = "privileged"
      /\ Len(call[t].need) > 1 /\ down' = Tail(down) /\ call[t] \in Call /\ up \in Seq(Unit)
      /\ UNCHANGED <<library, upload, alive, calls, events>>
  BY DEF ReceiveAck, Shaped, Calling, Request
<1>2. Head(down) \in Token /\ Head(down).of \in Nat
  <2>1. Head(down) \in Token
    BY <1>1, TailType
  <2>2. QED
    BY <2>1 DEF Token
<1>3. call[t].no > 0 /\ call[t].need \in Seq(Needs)
  BY <1>1 DEF Calling, Waiting, Call
<1>4. Tail(call[t].need) \in Seq(Needs) /\ Tail(call[t].need) # <<>>
  BY <1>1, <1>3, LongTail
<1>5. k \in Call /\ k.no = call[t].no /\ k.need = Tail(call[t].need)
  BY <1>1, <1>2, <1>4 DEF Call
<1>6. CASE Len(k.need) > 1 /\ ~alive
  <2>1. Return(t) /\ failed' = TRUE /\ UNCHANGED up
    BY <1>6 DEF ReceiveAck
  <2>2. Calling'
    BY <1>1, <2>1, EndCall DEF upload
  <2>3. QED
    BY <1>1, <2>1, <2>2, TokenGone DEF Shaped, upload
<1>7. CASE ~(Len(k.need) > 1 /\ ~alive)
  <2>1. /\ call' = [call EXCEPT ![t] = k] /\ UNCHANGED <<lock, failed>>
        /\ up' = IF Len(k.need) > 1 THEN Append(up, Chunk(k.no)) ELSE up
    BY <1>7 DEF ReceiveAck
  <2> HIDE DEF k
  <2>2. Waiting(k)
    BY <1>1, <1>3, <1>4, <1>5 DEF Waiting
  <2>3. Calling'
    BY <1>1, <1>5, <2>1, <2>2, InCall DEF upload
  <2>4. Chunk(k.no) \in Unit
    <3>1. k.no \in Nat
      BY <1>5 DEF Call
    <3>2. QED
      BY <3>1, ChunkType
  <2>5. up' \in Seq(Unit) /\ (~alive => up' = <<>>)
    BY <1>1, <1>7, <2>1, <2>4 DEF Shaped
  <2>6. QED
    BY <1>1, <2>1, <2>3, <2>5, TokenGone DEF Shaped, upload, Request
<1>8. QED
  BY <1>6, <1>7

LEMMA ReceiveEndShaped ==
  ASSUME Shaped, NEW t \in Threads, ReceiveError(t) \/ ReceiveResult(t)
  PROVE  Shaped'
<1>1. /\ Calling' /\ failed' \in BOOLEAN /\ down # <<>> /\ down' = Tail(down)
      /\ UNCHANGED <<library, upload, up, alive, calls, events>>
  BY EndCall DEF ReceiveError, ReceiveResult, Shaped, upload
<1>2. QED
  BY <1>1, TokenGone DEF Shaped, upload

LEMMA AfterReceivedType ==
  ASSUME Shaped
  PROVE  AfterReceived \in Seq(Request(wire)) /\ (up = <<>> => AfterReceived = <<>>)
<1>1. up \in Seq(Request(wire))
  BY DEF Shaped
<1>2. Received \in Seq(Request(wire)) /\ Len(Received) \in 0 .. Len(up)
  BY <1>1 DEF Received, ChunksPerCommand
<1>3. QED
  BY <1>1, <1>2 DEF AfterReceived

LEMMA ServeUploadShaped ==
  ASSUME Shaped, ServeUpload
  PROVE  Shaped'
<1>1. Calling'
  BY CallsSame DEF ServeUpload, Shaped
<1>2. wire = "privileged" /\ alive /\ up # <<>> /\ up \in Seq(Unit) /\ down \in Seq(Token)
  BY DEF ServeUpload, Shaped, Request
<1>3. Head(up) \in Unit
  BY <1>2, TailType
<1>4. Head(up).no \in Nat /\ Head(up).size \in Nat
  BY <1>3 DEF Unit
<1>5. \/ \E val \in {0, 1} : down' = Append(down, Code(Head(up).no, val)) /\ UNCHANGED bulk
      \/ /\ Head(up).size <= MaxChunks /\ bulk' = [no |-> Head(up).no, left |-> Head(up).size]
         /\ UNCHANGED down
  <2>1. CASE Head(up).size > MaxChunks
    BY <2>1 DEF ServeUpload
  <2>2. CASE ~(Head(up).size > MaxChunks) /\ Head(up).size = 0
    BY <2>2 DEF ServeUpload
  <2>3. CASE ~(Head(up).size > MaxChunks) /\ Head(up).size # 0
    BY <1>4, <2>3, SessionBounds DEF ServeUpload
  <2>4. QED
    BY <2>1, <2>2, <2>3
<1>6. up' \in Seq(Request(wire))
  BY AfterReceivedType DEF ServeUpload
<1>7. down' \in Seq(Token)
  <2>1. Code(Head(up).no, 0) \in Token /\ Code(Head(up).no, 1) \in Token
    BY <1>4, CodeType
  <2>2. ASSUME NEW c \in Token PROVE Append(down, c) \in Seq(Token)
    BY <1>2
  <2>3. Append(down, Code(Head(up).no, 0)) \in Seq(Token)
        /\ Append(down, Code(Head(up).no, 1)) \in Seq(Token)
    BY <2>1, <2>2
  <2>4. QED
    BY <1>2, <1>5, <2>3
<1>8. bulk' \in [no : Nat, left : 0 .. MaxChunks]
  BY <1>4, <1>5, SessionBounds DEF Shaped
<1>9. QED
  BY <1>1, <1>2, <1>6, <1>7, <1>8 DEF ServeUpload, Shaped

LEMMA ServeChunkShaped ==
  ASSUME Shaped, ServeChunk
  PROVE  Shaped'
<1>1. Calling'
  BY CallsSame DEF ServeChunk, Shaped
<1>2. wire = "privileged" /\ alive /\ up # <<>> /\ up \in Seq(Unit) /\ down \in Seq(Token)
      /\ bulk \in [no : Nat, left : 0 .. MaxChunks] /\ bulk.left > 0
  BY DEF ServeChunk, Shaped, Request
<1>3. up' \in Seq(Unit)
  <2>1. up' = Tail(up)
    BY DEF ServeChunk
  <2>2. QED
    BY <1>2, <2>1, TailType
<1>4. bulk' \in [no : Nat, left : 0 .. MaxChunks]
  <2>1. bulk' = [bulk EXCEPT !.left = bulk.left - 1]
    BY DEF ServeChunk
  <2>2. bulk.left - 1 \in 0 .. MaxChunks
    BY <1>2, SessionBounds
  <2>3. QED
    BY <1>2, <2>1, <2>2
<1>5. PICK val \in {0, 1} :
        down' = down \o <<Code(bulk.no, 0)>> \o (IF bulk.left = 1 THEN <<Code(bulk.no, val)>> ELSE <<>>)
  BY DEF ServeChunk
<1>6. Code(bulk.no, 0) \in Token /\ Code(bulk.no, val) \in Token
  BY <1>2, CodeType
<1>7. down' \in Seq(Token)
  BY <1>2, <1>5, <1>6
<1>8. QED
  BY <1>1, <1>2, <1>3, <1>4, <1>7 DEF ServeChunk, Shaped, Request

LEMMA ServeStrayShaped ==
  ASSUME Shaped, ServeStray
  PROVE  Shaped'
<1>1. Calling'
  BY CallsSame DEF ServeStray, Shaped, upload
<1>2. wire = "privileged" /\ alive /\ up # <<>> /\ up \in Seq(Unit) /\ down \in Seq(Token)
  BY DEF ServeStray, Shaped, Request
<1>3. Code(Head(up).no, 1) \in Token
  <2>1. Head(up) \in Unit
    BY <1>2, TailType
  <2>2. Head(up).no \in Nat
    BY <2>1 DEF Unit
  <2>3. QED
    BY <2>2, CodeType
<1>4. down' \in Seq(Token)
  <2>1. down' = down \/ down' = Append(down, Code(Head(up).no, 1))
    BY DEF ServeStray
  <2>2. QED
    BY <1>2, <1>3, <2>1
<1>5. up' \in Seq(Request(wire))
  BY AfterReceivedType DEF ServeStray
<1>6. QED
  BY <1>1, <1>2, <1>4, <1>5 DEF ServeStray, Shaped, upload

LEMMA ShapedKept ==
  ASSUME Shaped, [Next]_vars
  PROVE  Shaped'
<1>1. CASE UNCHANGED vars
  <2>1. Calling'
    BY <1>1, CallsSame DEF vars, Shaped
  <2>2. QED
    BY <1>1, <2>1, RestSame DEF vars, upload
<1>2. CASE Next
  BY <1>2, StartShaped, ReceiveShaped, SetAsideShaped, RefuseShaped, LostShaped,
     StartUploadShaped, ReceiveAckShaped, ReceiveEndShaped, PollShaped, ServeShaped,
     NotifyShaped, DieShaped, ServeUploadShaped, ServeChunkShaped, ServeStrayShaped DEF Next
<1>3. QED
  BY <1>1, <1>2

-----------------------------------------------------------------------------
(* The control connection stays in step.                                   *)

(* A call that comes to its end leaves nothing behind.                     *)
LEMMA CallOver ==
  ASSUME Shaped', lock' = Nobody, \A u \in Threads : call'[u] = Idle, Quiet(down'), Silent(up')
  PROVE  Whereabouts'
<1>1. \A u \in Threads : lock' # u
  BY ThreadsAssumption
<1>2. OwnAnswer'
  BY DEF OwnAnswer, Idle
<1>3. QED
  BY <1>1, <1>2 DEF Whereabouts

(* The lock and the calls are as they were.                                *)
LEMMA CallGoesOn ==
  ASSUME Whereabouts, UNCHANGED <<lock, call>>,
         lock = Nobody => Quiet(down') /\ Silent(up'),
         \A t \in Threads : lock = t => Sent(call[t])' \/ Answered(call[t])' \/ Cut'
  PROVE  Whereabouts'
  BY DEF Whereabouts, OwnAnswer

LEMMA StartInStep ==
  ASSUME Shaped, Shaped', Whereabouts, NEW t \in Threads, NEW c \in Commands, Start(t, c)
  PROVE  Whereabouts'
<1>1. /\ lock = Nobody /\ Quiet(down) /\ Silent(up) /\ down' = down /\ alive' = alive
      /\ wire = "control" /\ up \in Seq(Command) /\ calls' \in Nat
  BY SessionBounds DEF Start, Whereabouts, Shaped, Request
<1>2. Reads(c) = Form(c)
  BY FormShape
<1>3. CASE ~alive
  BY <1>1, <1>3, ThreadsAssumption, CallGoesOn DEF Start
<1>4. CASE alive
  <2> DEFINE r == [no |-> calls', cmd |-> c]
  <2>1. up' = Append(up, r)
    BY <1>4 DEF Start
  <2>2. r \in Command /\ r.cmd = c
    BY <1>1 DEF Command
  <2> HIDE DEF r
  <2>3. /\ Len(up') = Len(up) + 1 /\ Len(up) \in Nat /\ DOMAIN up' = 1 .. Len(up) + 1
        /\ up'[Len(up) + 1] = r /\ \A i \in 1 .. Len(up) : up'[i] = up[i]
    BY <1>1, <2>1, <2>2
  <2>4. CASE Form(c) = NoReply
    <3>1. UNCHANGED <<lock, call>>
      BY <1>2, <1>4, <2>4 DEF Start
    <3>2. Silent(up')
      BY <1>1, <2>2, <2>3, <2>4 DEF Silent
    <3>3. QED
      BY <1>1, <3>1, <3>2, ThreadsAssumption, CallGoesOn
  <2>5. CASE Form(c) # NoReply
    <3>0. PICK k : k = [no |-> calls', cmd |-> c, took |-> {},
                        need |-> IF Reads(c).list THEN <<"count">> ELSE Reads(c).ts]
      OBVIOUS
    <3>1. lock' = t /\ call' = [call EXCEPT ![t] = k] /\ call \in [Threads -> Call]
          /\ \A u \in Threads : call[u] = Idle
      BY <1>1, <1>2, <1>4, <2>5, <3>0, ThreadsAssumption DEF Start, Shaped, Calling
    <3>2. k.no = calls' /\ k.cmd = c /\ k.took = {} /\ k.need = AtFirst(c)
      BY <1>2, <3>0 DEF AtFirst
    <3>3. call'[t] = k /\ \A u \in Threads \ {t} : call'[u] = Idle
      BY <3>1
    <3>4. OwnAnswer'
      BY <3>2, <3>3 DEF OwnAnswer, Idle
    <3>5. Sent(k)'
      <4>1. up' # <<>> /\ up'[Len(up')] = [no |-> k.no, cmd |-> k.cmd]
        BY <2>3, <3>2 DEF r
      <4>2. \A i \in 1 .. Len(up') - 1 : Form(up'[i].cmd) = NoReply
        BY <1>1, <2>3 DEF Silent
      <4>3. QED
        BY <1>1, <1>4, <3>2, <4>1, <4>2 DEF Sent
    <3>6. lock' # Nobody
      BY <3>1, ThreadsAssumption
    <3>7. QED
      BY <3>1, <3>3, <3>4, <3>5, <3>6 DEF Whereabouts
  <2>6. QED
    BY <2>4, <2>5
<1>5. QED
  BY <1>3, <1>4

(* What the next token is: a notification, or the one that was asked for.  *)
LEMMA NextToken ==
  ASSUME Shaped, Steady, Whereabouts, NEW t \in Threads, lock = t, down # <<>>
  PROVE  \/ /\ Head(down) = Note
            /\ Sent(call[t]) \/ Cut
            /\ Quiet(Tail(down))
         \/ /\ up = <<>>
            /\ \E a \in Nat, n \in Nat :
                 /\ Carries(down, a, Expected(call[t], n), call[t].no)
                 /\ call[t].need = <<"count">> => down[a + 1].val = n
                 /\ a = 0 => Fitting(down[1], Expected(call[t], n)[1], call[t].no)
                 /\ a # 0 => Head(down) = Note
<1>1. down \in Seq(Token) /\ call[t] \in Call /\ Waiting(call[t]) /\ wire = "control"
  BY DEF Shaped, Calling, Steady
<1>2. CASE Sent(call[t]) \/ Cut
  BY <1>1, <1>2, QuietTail DEF Sent, Cut
<1>3. CASE Answered(call[t])
  <2>1. PICK a \in Nat, n \in Nat :
          /\ Carries(down, a, Expected(call[t], n), call[t].no)
          /\ call[t].need = <<"count">> => down[a + 1].val = n
    BY <1>3 DEF Answered
  <2>2. Expected(call[t], n) \in Seq(Kinds) /\ Expected(call[t], n) # <<>>
    BY <1>1, ExpectedType
  <2>3. a = 0 => Fitting(down[1], Expected(call[t], n)[1], call[t].no)
    BY <1>1, <2>1, <2>2, CarriesTail
  <2>4. a # 0 => Head(down) = Note
    BY <1>1, <2>1, <2>2, CarriesSkip
  <2>5. QED
    BY <1>3, <2>1, <2>3, <2>4 DEF Answered
<1>4. QED
  BY <1>2, <1>3 DEF Whereabouts

LEMMA ReceiveInStep ==
  ASSUME Shaped, Shaped', Steady, Whereabouts, NEW t \in Threads, Receive(t)
  PROVE  Whereabouts'
<1>0. PICK k : k = Taken(call[t], Head(down))
  OBVIOUS
<1>1. /\ lock = t /\ down # <<>> /\ wire = "control" /\ down \in Seq(Token)
      /\ Fits(Head(call[t].need), Head(down).kind) /\ down' = Tail(down)
      /\ call \in [Threads -> Call] /\ call[t] \in Call /\ Waiting(call[t])
      /\ UNCHANGED <<up, alive>>
      /\ IF k.need = <<>> THEN Return(t) ELSE call' = [call EXCEPT ![t] = k] /\ UNCHANGED lock
  BY <1>0 DEF Receive, Shaped, Calling
<1>2. Head(down) \in Token /\ Head(down) = down[1]
  BY <1>1
<1>3. Head(down) # Note
  BY <1>1, AnswerFits DEF Note
<1>4. PICK n \in Nat :
        /\ up = <<>>
        /\ Carries(down, 0, Expected(call[t], n), call[t].no)
        /\ call[t].need = <<"count">> => down[1].val = n
        /\ Fitting(down[1], Expected(call[t], n)[1], call[t].no)
  BY <1>1, <1>3, NextToken
<1>5. Expected(call[t], n) = Expected(call[t], Head(down).val)
  BY <1>2, <1>4 DEF Expected
<1> DEFINE e == Expected(call[t], n)
<1>6. /\ k = [call[t] EXCEPT !.took = call[t].took \cup {Head(down).of}, !.need = Tail(e)]
      /\ k.need \in Seq(Kinds) /\ k \in Call
  BY <1>0, <1>1, <1>2, <1>5, TakenNeeds
<1>7. e \in Seq(Kinds) /\ e # <<>>
  BY <1>1, ExpectedType
<1> HIDE DEF e
<1>8. k.no = call[t].no /\ k.need = Tail(e) /\ k.took = call[t].took \cup {Head(down).of}
  BY <1>1, <1>6 DEF Call
<1>9. Carries(Tail(down), 0, k.need, k.no)
  BY <1>1, <1>4, <1>7, <1>8, CarriesTail DEF e
<1>10. Tail(down) \in Seq(Token)
  BY <1>1
<1>11. CASE k.need = <<>>
  <2>1. lock' = Nobody /\ \A u \in Threads : call'[u] = Idle
    BY <1>1, <1>11, EndCall DEF Shaped, Receive, upload
  <2>2. Quiet(down')
    BY <1>1, <1>9, <1>10, <1>11, CarriesNothing
  <2>3. Silent(up')
    BY <1>1, <1>4 DEF Silent
  <2>4. QED
    BY <2>1, <2>2, <2>3, CallOver
<1>12. CASE k.need # <<>>
  <2>1. call' = [call EXCEPT ![t] = k] /\ lock' = t
    BY <1>1, <1>12
  <2>2. call'[t] = k /\ \A u \in Threads \ {t} : call'[u] = call[u]
    BY <1>1, <2>1
  <2>3. k.took \subseteq {k.no}
    BY <1>2, <1>4, <1>8 DEF Whereabouts, OwnAnswer, Fitting
  <2>4. OwnAnswer'
    BY <2>2, <2>3 DEF Whereabouts, OwnAnswer
  <2>5. k.need # <<"count">>
    <3>1. ASSUME NEW s \in Seq(Kinds), s = <<"count">> PROVE FALSE
      <4>1. s[1] \in Kinds /\ s[1] = "count"
        BY <3>1
      <4>2. QED
        BY <4>1 DEF Kinds
    <3>2. QED
      BY <1>6, <3>1
  <2>6. Expected(k, 0) = k.need
    BY <2>5 DEF Expected
  <2>7. Answered(k)'
    BY <1>1, <1>4, <1>9, <2>5, <2>6 DEF Answered
  <2>8. lock' # Nobody /\ \A u \in Threads : lock' = u => u = t
    BY <2>1, ThreadsAssumption
  <2>9. QED
    BY <2>2, <2>4, <2>7, <2>8 DEF Whereabouts
<1>13. QED
  BY <1>11, <1>12

LEMMA SetAsideInStep ==
  ASSUME Shaped, Shaped', Steady, Whereabouts, NEW t \in Threads, SetAside(t)
  PROVE  Whereabouts'
<1>1. /\ lock = t /\ down # <<>> /\ Head(down) = Note /\ down' = Tail(down) /\ down \in Seq(Token)
      /\ UNCHANGED <<lock, call, up, alive>> /\ lock # Nobody /\ wire = "control"
      /\ call[t] \in Call /\ Waiting(call[t])
  BY ThreadsAssumption DEF SetAside, Shaped, Calling, Steady
<1>2. Sent(call[t])' \/ Answered(call[t])' \/ Cut'
  <2>1. CASE (Sent(call[t]) \/ Cut) /\ Quiet(Tail(down))
    BY <1>1, <2>1 DEF Sent, Cut
  <2>2. ASSUME up = <<>>,
               NEW a \in Nat, NEW n \in Nat,
               Carries(down, a, Expected(call[t], n), call[t].no),
               call[t].need = <<"count">> => down[a + 1].val = n,
               a = 0 => Fitting(down[1], Expected(call[t], n)[1], call[t].no)
        PROVE  Answered(call[t])'
    <3> DEFINE e == Expected(call[t], n)
    <3>1. e \in Seq(Kinds) /\ e # <<>>
      BY <1>1, ExpectedType
    <3> HIDE DEF e
    <3>2. a # 0
      <4>1. e[1] \in Kinds /\ Head(down) = down[1]
        BY <1>1, <3>1
      <4>2. QED
        BY <1>1, <2>2, <4>1, NoteType DEF Fitting, e
    <3>3. a - 1 \in Nat /\ Carries(Tail(down), a - 1, e, call[t].no)
      BY <1>1, <2>2, <3>1, <3>2, CarriesSkip DEF e
    <3>4. a + Len(e) <= Len(down) /\ Len(e) > 0
      BY <2>2, <3>1 DEF Carries, e
    <3>5. Tail(down)[(a - 1) + 1] = down[a + 1]
      BY <1>1, <3>1, <3>2, <3>4
    <3>6. QED
      BY <1>1, <2>2, <3>3, <3>5 DEF Answered, e
  <2>3. QED
    BY <1>1, <2>1, <2>2, NextToken
<1>3. QED
  BY <1>1, <1>2, CallGoesOn

(* In step, no token is refused.                                           *)
LEMMA NothingRefused ==
  ASSUME Shaped, Steady, Whereabouts, NEW t \in Threads
  PROVE  ~Refuse(t)
<1> SUFFICES ASSUME Refuse(t) PROVE FALSE
  OBVIOUS
<1>1. /\ lock = t /\ down # <<>> /\ wire = "control" /\ down \in Seq(Token)
      /\ ~Fits(Head(call[t].need), Head(down).kind)
      /\ library # "pyrazer" \/ Head(down) # Note
      /\ call[t] \in Call /\ Waiting(call[t])
  BY DEF Refuse, Shaped, Calling
<1>2. Head(down) # Note
  <2>1. Head(down) = down[1] /\ 1 \in DOMAIN down
    BY <1>1
  <2>2. QED
    BY <1>1, <2>1 DEF Steady, Shaped
<1>3. PICK n \in Nat : Fitting(down[1], Expected(call[t], n)[1], call[t].no)
  BY <1>1, <1>2, NextToken
<1>4. Head(down) = down[1]
  BY <1>1
<1>5. QED
  BY <1>1, <1>3, <1>4, AnswerFits DEF Fitting

LEMMA LostInStep ==
  ASSUME Shaped, Shaped', Steady, Whereabouts, NEW t \in Threads, Lost(t)
  PROVE  Whereabouts'
<1>1. /\ lock = t /\ down = <<>> /\ ~alive /\ Return(t) /\ UNCHANGED <<up, down>> /\ UNCHANGED wire
      /\ Calling
  BY DEF Lost, Shaped, upload
<1>2. lock' = Nobody /\ \A u \in Threads : call'[u] = Idle
  BY <1>1, EndCall
<1>3. up' = <<>> /\ down' = <<>>
  BY <1>1 DEF Shaped
<1>4. Quiet(down') /\ Silent(up')
  BY <1>3 DEF Quiet, Silent
<1>5. QED
  BY <1>2, <1>4, CallOver

LEMMA PollInStep ==
  ASSUME Shaped, Shaped', Whereabouts, Poll
  PROVE  Whereabouts' /\ (failed' = failed \/ ~alive)
<1>1. /\ lock = Nobody /\ down \in Seq(Token) /\ UNCHANGED <<lock, call, up>>
      /\ Quiet(down) /\ Silent(up)
      /\ \/ down # <<>> /\ down' = Tail(down) /\ failed' = (failed \/ Head(down) # Note)
         \/ UNCHANGED down /\ ~alive
  BY DEF Poll, Shaped, Whereabouts
<1>2. down # <<>> => Head(down) = Note /\ Quiet(Tail(down))
  BY <1>1, QuietTail
<1>3. Quiet(down')
  BY <1>1, <1>2
<1>4. failed' = failed \/ ~alive
  BY <1>1, <1>2 DEF Shaped
<1>5. QED
  BY <1>1, <1>3, <1>4, ThreadsAssumption, CallGoesOn

(* The tokens of an answer come in one piece after what was there.         *)
LEMMA CarriesAnswer ==
  ASSUME NEW s \in Seq(Token), Quiet(s), NEW w \in Seq(Kinds), NEW a \in Seq(Token), NEW no,
         Len(a) = Len(w), \A i \in 1 .. Len(w) : Fitting(a[i], w[i], no)
  PROVE  /\ Carries(s \o a, Len(s), w, no)
         /\ w # <<>> => (s \o a)[Len(s) + 1] = a[1]
<1>1. /\ Len(s) \in Nat /\ Len(w) \in Nat /\ Len(s \o a) = Len(s) + Len(w)
      /\ DOMAIN (s \o a) = 1 .. Len(s) + Len(w)
      /\ \A i \in 1 .. Len(s) + Len(w) : (s \o a)[i] = IF i <= Len(s) THEN s[i] ELSE a[i - Len(s)]
  OBVIOUS
<1>2. ASSUME NEW i \in 1 .. Len(s) + Len(w)
      PROVE  IF i \in Len(s) + 1 .. Len(s) + Len(w) THEN Fitting((s \o a)[i], w[i - Len(s)], no)
             ELSE (s \o a)[i] = Note
  <2>1. CASE i <= Len(s)
    BY <1>1, <2>1 DEF Quiet
  <2>2. CASE i > Len(s)
    <3>1. i - Len(s) \in 1 .. Len(w) /\ (s \o a)[i] = a[i - Len(s)]
      BY <1>1, <2>2
    <3>2. QED
      BY <1>1, <2>2, <3>1
  <2>3. QED
    BY <1>1, <2>1, <2>2
<1>3. Carries(s \o a, Len(s), w, no)
  BY <1>1, <1>2 DEF Carries
<1>4. ASSUME w # <<>> PROVE (s \o a)[Len(s) + 1] = a[1]
  <2>1. Len(w) > 0
    BY <1>4
  <2>2. QED
    BY <1>1, <2>1
<1>5. QED
  BY <1>3, <1>4

LEMMA ServeInStep ==
  ASSUME Shaped, Shaped', Steady, Whereabouts, Serve
  PROVE  Whereabouts'
<1>1. /\ wire = "control" /\ alive /\ up # <<>> /\ up \in Seq(Command) /\ down \in Seq(Token)
      /\ up' = Tail(up) /\ UNCHANGED <<lock, call, alive>>
  BY DEF Serve, Shaped, Request
<1>2. PICK n \in 0 .. MaxEntries : down' = down \o Answer(Head(up), n)
  BY DEF Serve
<1> DEFINE r == Head(up)
           w == Written(r.cmd, n)
           a == Answer(r, n)
<1>3. n \in Nat /\ r \in Command /\ r = up[1]
  BY <1>1, SessionBounds
<1>4. r.cmd \in Commands
  BY <1>3 DEF Command
<1>5. /\ w \in Seq(Kinds) /\ a \in Seq(Token) /\ Len(a) = Len(w)
      /\ \A i \in 1 .. Len(w) : Fitting(a[i], w[i], r.no) /\ (i = 1 => a[i].val = n)
  BY <1>3, AnswerType
<1>6. w = IF Form(r.cmd).list THEN <<"u32">> \o Entries(Form(r.cmd).ts, n) ELSE Form(r.cmd).ts
  BY <1>4, FormShape DEF Written
<1>7. /\ Len(Tail(up)) = Len(up) - 1 /\ Len(up) \in Nat \ {0} /\ Tail(up) \in Seq(Command)
      /\ \A i \in 1 .. Len(up) - 1 : Tail(up)[i] = up[i + 1]
  BY <1>1
<1>8. ASSUME Form(r.cmd) = NoReply PROVE down' = down
  <2>1. w = <<>>
    BY <1>6, <1>8 DEF NoReply, Tokens
  <2> HIDE DEF a, w
  <2>2. a = <<>>
    BY <1>5, <2>1
  <2>3. QED
    BY <1>1, <1>2, <2>2 DEF a
<1> HIDE DEF r, a, w
<1>9. CASE lock = Nobody
  <2>1. Quiet(down) /\ Silent(up)
    BY <1>9 DEF Whereabouts
  <2>2. Form(r.cmd) = NoReply
    BY <1>3, <1>7, <2>1 DEF Silent
  <2>3. Silent(up')
    BY <1>1, <1>7, <2>1 DEF Silent
  <2>4. QED
    BY <1>1, <1>8, <1>9, <2>1, <2>2, <2>3, ThreadsAssumption, CallGoesOn
<1>10. CASE lock \in Threads
  <2>1. PICK t \in Threads : lock = t
    BY <1>10
  <2>2. call[t] \in Call /\ Waiting(call[t]) /\ lock # Nobody /\ \A u \in Threads : lock = u => u = t
    BY <2>1, ThreadsAssumption DEF Shaped, Calling
  <2>3. Sent(call[t])
    BY <1>1, <2>1 DEF Whereabouts, Answered, Cut
  <2>4. CASE Len(up) > 1
    <3>1. Form(r.cmd) = NoReply
      BY <1>3, <1>7, <2>3, <2>4 DEF Sent
    <3>2. up' # <<>> /\ up'[Len(up')] = up[Len(up)]
      <4>1. Len(up') = Len(up) - 1 /\ Len(up) - 1 \in 1 .. Len(up) - 1
        BY <1>1, <1>7, <2>4
      <4>2. Tail(up)[Len(up) - 1] = up[(Len(up) - 1) + 1] /\ (Len(up) - 1) + 1 = Len(up)
        BY <1>7, <4>1
      <4>3. up'[Len(up')] = up[Len(up)]
        BY <1>1, <4>1, <4>2, Zenon
      <4>4. Len(<<>>) = 0
        OBVIOUS
      <4>5. QED
        BY <4>1, <4>3, <4>4
    <3>3. \A i \in 1 .. Len(up') - 1 : Form(up'[i].cmd) = NoReply
      BY <1>1, <1>7, <2>3, <2>4 DEF Sent
    <3>4. Sent(call[t])'
      BY <1>1, <1>8, <2>3, <3>1, <3>2, <3>3 DEF Sent
    <3>5. QED
      BY <1>1, <2>2, <3>4, CallGoesOn
  <2>5. CASE Len(up) = 1
    <3>1. up' = <<>>
      BY <1>1, <1>7, <2>5
    <3>2. r = [no |-> call[t].no, cmd |-> call[t].cmd] /\ Quiet(down) /\ call[t].need = AtFirst(call[t].cmd)
      BY <1>3, <2>3, <2>5 DEF Sent
    <3>3. r.no = call[t].no /\ r.cmd = call[t].cmd
      BY <3>2
    <3>4. w = Expected(call[t], n)
      <4>1. CASE Form(r.cmd).list
        BY <1>6, <3>2, <3>3, <4>1 DEF Expected, AtFirst
      <4>2. CASE ~Form(r.cmd).list
        <5>1. call[t].need = w /\ w # <<"count">>
          <6>1. call[t].need = w
            BY <1>6, <3>2, <3>3, <4>2 DEF AtFirst
          <6>2. ASSUME NEW s \in Seq(Kinds), s = <<"count">> PROVE FALSE
            <7>1. s[1] \in Kinds /\ s[1] = "count"
              BY <6>2
            <7>2. QED
              BY <7>1 DEF Kinds
          <6>3. QED
            BY <1>5, <6>1, <6>2
        <5>2. QED
          BY <5>1 DEF Expected
      <4>3. QED
        BY <4>1, <4>2
    <3>5. /\ Carries(down \o a, Len(down), w, r.no)
          /\ w # <<>> => (down \o a)[Len(down) + 1] = a[1]
      BY <1>1, <1>5, <3>2, CarriesAnswer
    <3>6. w # <<>>
      BY <1>1, <1>3, <2>2, <3>4, ExpectedType
    <3>7. a[1].val = n
      BY <1>5, <3>6
    <3>8. Len(down) \in Nat /\ down' = down \o a
      BY <1>1, <1>2 DEF a, r
    <3>9. Carries(down', Len(down), Expected(call[t], n), call[t].no) /\ down'[Len(down) + 1].val = n
      BY <3>3, <3>4, <3>5, <3>6, <3>7, <3>8
    <3>10. \E b \in Nat, m \in Nat :
             /\ Carries(down', b, Expected(call[t], m), call[t].no)
             /\ call[t].need = <<"count">> => down'[b + 1].val = m
      BY <1>3, <3>8, <3>9
    <3>11. Answered(call[t])'
      BY <1>1, <3>1, <3>10 DEF Answered
    <3>12. QED
      BY <1>1, <2>2, <3>11, CallGoesOn
  <2>6. QED
    BY <1>7, <2>4, <2>5
<1>11. QED
  BY <1>9, <1>10 DEF Shaped, Calling

LEMMA NotifyInStep ==
  ASSUME Shaped, Shaped', Steady, Whereabouts, Notify
  PROVE  Whereabouts'
<1>1. /\ down' = Append(down, Note) /\ down \in Seq(Token) /\ wire = "control"
      /\ UNCHANGED <<lock, call, up, alive>>
  BY DEF Notify, Shaped
<1>2. Quiet(down) => Quiet(down')
  BY <1>1, QuietNote
<1>3. ASSUME NEW t \in Threads, lock = t PROVE Sent(call[t])' \/ Answered(call[t])' \/ Cut'
  <2>1. CASE Sent(call[t])
    BY <1>1, <1>2, <2>1 DEF Sent
  <2>2. CASE Cut
    BY <1>1, <1>2, <2>2 DEF Cut
  <2>3. CASE Answered(call[t])
    <3>1. call[t] \in Call /\ Waiting(call[t])
      BY <1>3 DEF Shaped, Calling
    <3>2. PICK a \in Nat, n \in Nat :
            /\ Carries(down, a, Expected(call[t], n), call[t].no)
            /\ call[t].need = <<"count">> => down[a + 1].val = n
      BY <2>3 DEF Answered
    <3>3. PICK e \in Seq(Kinds) : e = Expected(call[t], n) /\ e # <<>>
      BY <1>1, <3>1, ExpectedType
    <3>4. Carries(down', a, e, call[t].no)
      BY <1>1, <3>2, <3>3, CarriesNote
    <3>5. a + Len(e) <= Len(down) /\ Len(e) > 0
      BY <3>2, <3>3 DEF Carries
    <3>6. down'[a + 1] = down[a + 1]
      BY <1>1, <3>5
    <3>7. \E b \in Nat, m \in Nat :
            /\ Carries(down', b, Expected(call[t], m), call[t].no)
            /\ call[t].need = <<"count">> => down'[b + 1].val = m
      BY <3>2, <3>3, <3>4, <3>6
    <3>8. QED
      BY <1>1, <2>3, <3>7 DEF Answered
  <2>4. QED
    BY <1>3, <2>1, <2>2, <2>3 DEF Whereabouts
<1>4. lock = Nobody => Quiet(down') /\ Silent(up')
  BY <1>1, <1>2 DEF Whereabouts
<1>5. QED
  BY <1>1, <1>3, <1>4, CallGoesOn

LEMMA DieInStep ==
  ASSUME Shaped, Shaped', Whereabouts, Die
  PROVE  Whereabouts'
<1>1. up' = <<>> /\ ~alive' /\ UNCHANGED <<lock, call, down>>
  BY DEF Die
<1>2. Silent(up')
  BY <1>1 DEF Silent
<1>3. ASSUME NEW t \in Threads, lock = t PROVE Sent(call[t])' \/ Answered(call[t])' \/ Cut'
  <2>1. CASE Sent(call[t]) \/ Cut
    BY <1>1, <2>1 DEF Sent, Cut
  <2>2. CASE Answered(call[t])
    BY <1>1, <2>2 DEF Answered
  <2>3. QED
    BY <1>3, <2>1, <2>2 DEF Whereabouts
<1>4. QED
  BY <1>1, <1>2, <1>3, CallGoesOn DEF Whereabouts

LEMMA CallsInStepKept ==
  ASSUME Shaped, Shaped', CallsInStep, [Next]_vars
  PROVE  CallsInStep'
<1> SUFFICES ASSUME Steady' PROVE Whereabouts'
  BY DEF CallsInStep
<1>1. Steady
  <2>1. UNCHANGED <<library, wire>> /\ (events' = events \/ events' = events + 1)
    BY DEF Next, vars, upload, Start, Receive, SetAside, Refuse, Lost, Poll, Serve, Notify, Die,
           StartUpload, ReceiveAck, ReceiveError, ReceiveResult, ServeUpload, ServeChunk, ServeStray
  <2>2. events \in Nat
    BY SessionBounds DEF Shaped
  <2>3. QED
    BY <2>1, <2>2 DEF Steady
<1>2. Whereabouts /\ wire = "control"
  BY <1>1 DEF CallsInStep, Steady
<1>3. CASE UNCHANGED vars
  BY <1>2, <1>3 DEF vars, Whereabouts, OwnAnswer, Sent, Answered, Cut
<1>4. CASE Next
  <2>1. ASSUME NEW t \in Threads
        PROVE  ~ReceiveAck(t) /\ ~ReceiveError(t) /\ ~ReceiveResult(t)
    BY <1>2 DEF ReceiveAck, ReceiveError, ReceiveResult
  <2>2. ~ServeUpload /\ ~ServeChunk /\ ~ServeStray
    BY <1>2 DEF ServeUpload, ServeChunk, ServeStray
  <2>3. ASSUME NEW t \in Threads, NEW n \in 0 .. MaxChunks + 1 PROVE ~StartUpload(t, n)
    BY <1>2 DEF StartUpload
  <2>4. QED
    BY <1>1, <1>2, <1>4, <2>1, <2>2, <2>3, StartInStep, ReceiveInStep, SetAsideInStep, NothingRefused,
       LostInStep, PollInStep, ServeInStep, NotifyInStep, DieInStep DEF Next
<1>5. QED
  BY <1>3, <1>4

-----------------------------------------------------------------------------
(* An upload stays in step.                                                *)

LEMMA CodeHead ==
  ASSUME NEW c, NEW d
  PROVE  /\ <<c>> # <<>> /\ Head(<<c>>) = c /\ Tail(<<c>>) = <<>>
         /\ <<c, d>> # <<>> /\ Head(<<c, d>>) = c /\ Tail(<<c, d>>) = <<d>>
  OBVIOUS

(* Where a code can be received, and which.                                *)
AckWaits(k)     == AtAck(k) /\ Head(down).val = 0 /\ Tail(down) = <<>>
LastAckWaits(k) == /\ AtLastAck(k) /\ Head(down).val = 0
                   /\ \E val \in {0, 1} : Tail(down) = <<Code(k.no, val)>>
ResultWaits(k)  == AtResult(k) /\ Tail(down) = <<>>

LEMMA CodeWaits ==
  ASSUME UploadWhereabouts, NEW t \in Threads, lock = t, down # <<>>
  PROVE  /\ up = <<>> /\ Head(down) # Note /\ Head(down).of = call[t].no
         /\ AckWaits(call[t]) \/ LastAckWaits(call[t]) \/ ResultWaits(call[t])
<1>0. PICK k : k = call[t]
  OBVIOUS
<1>1. AtAck(k) \/ AtLastAck(k) \/ AtResult(k)
  BY <1>0 DEF UploadWhereabouts, Place, AtCommand, AtChunk, Gone
<1>2. \A val : Code(k.no, val) # Note /\ Code(k.no, val).of = k.no /\ Code(k.no, val).val = val
  BY DEF Code, Note
<1>3. CASE AtAck(k)
  <2>1. up = <<>> /\ down = <<Code(k.no, 0)>> /\ Len(k.need) > 2
    BY <1>3 DEF AtAck
  <2>2. Head(down) = Code(k.no, 0) /\ Tail(down) = <<>>
    BY <2>1, CodeHead
  <2>3. QED
    BY <1>0, <1>2, <1>3, <2>1, <2>2 DEF AckWaits
<1>4. CASE AtLastAck(k)
  <2>1. PICK val \in {0, 1} : down = <<Code(k.no, 0), Code(k.no, val)>>
    BY <1>4 DEF AtLastAck
  <2>2. Head(down) = Code(k.no, 0) /\ Tail(down) = <<Code(k.no, val)>>
    BY <2>1, CodeHead
  <2>3. up = <<>> /\ Len(k.need) = 2
    BY <1>4 DEF AtLastAck
  <2>4. QED
    BY <1>0, <1>2, <1>4, <2>2, <2>3 DEF LastAckWaits
<1>5. CASE AtResult(k)
  <2>1. PICK val \in {0, 1} : down = <<Code(k.no, val)>>
    BY <1>5 DEF AtResult
  <2>2. Head(down) = Code(k.no, val) /\ Tail(down) = <<>>
    BY <2>1, CodeHead
  <2>3. up = <<>> /\ Len(k.need) = 1
    BY <1>5 DEF AtResult
  <2>4. QED
    BY <1>0, <1>2, <1>5, <2>2, <2>3 DEF ResultWaits
<1>6. QED
  BY <1>1, <1>3, <1>4, <1>5

(* The next part of the upload, after a step of the call or of razerd.     *)
LEMMA UploadOver ==
  ASSUME lock' = Nobody, \A u \in Threads : call'[u] = Idle,
         down' = <<>>, alive' => up' = <<>> /\ bulk'.left = 0
  PROVE  UploadWhereabouts'
<1>1. \A u \in Threads : lock' # u
  BY ThreadsAssumption
<1>2. OwnAnswer'
  BY DEF OwnAnswer, Idle
<1>3. QED
  BY <1>1, <1>2 DEF UploadWhereabouts

LEMMA UploadGoesOn ==
  ASSUME UploadWhereabouts, NEW t \in Threads, lock' = t,
         \A u \in Threads \ {t} : call'[u] = call[u], NEW k, call'[t] = k,
         k.took \subseteq {k.no}, Len(k.need) - 1 <= MaxChunks, Place(k)'
  PROVE  UploadWhereabouts'
<1>1. lock' # Nobody /\ \A u \in Threads : lock' = u => u = t
  BY ThreadsAssumption
<1>2. OwnAnswer'
  BY DEF UploadWhereabouts, OwnAnswer
<1>3. QED
  BY <1>1, <1>2 DEF UploadWhereabouts

LEMMA UploadServed ==
  ASSUME UploadWhereabouts, UNCHANGED <<lock, call>>, NEW t \in Threads, lock = t, Place(call[t])'
  PROVE  UploadWhereabouts'
<1>1. PICK k : k = call[t]
  OBVIOUS
<1>2. k.took \subseteq {k.no} /\ Len(k.need) - 1 <= MaxChunks
  BY <1>1 DEF UploadWhereabouts, OwnAnswer
<1>3. Place(k)'
  BY <1>1
<1>4. QED
  BY <1>1, <1>2, <1>3, UploadGoesOn

LEMMA StartUploadInStep ==
  ASSUME Shaped, UploadWhereabouts, NEW t \in Threads, NEW n \in 0 .. MaxChunks + 1,
         StartUpload(t, n), ~big'
  PROVE  UploadWhereabouts'
<1>1. /\ lock = Nobody /\ down = <<>> /\ down' = <<>> /\ alive' = alive /\ bulk' = bulk
      /\ (alive => up = <<>> /\ bulk.left = 0) /\ n <= MaxChunks /\ n \in Nat
      /\ Calling /\ calls' \in Nat
  <2>1. n <= MaxChunks /\ n \in Nat
    <3>1. big' = (big \/ n > MaxChunks)
      BY DEF StartUpload
    <3>2. ~(n > MaxChunks)
      BY <3>1, Zenon
    <3>3. QED
      BY <3>2, SessionBounds
  <2>2. calls' \in Nat
    BY DEF StartUpload, Shaped
  <2>3. lock = Nobody /\ UNCHANGED <<down, alive, bulk>> /\ Calling
    BY DEF StartUpload, Shaped
  <2>4. QED
    BY <2>1, <2>2, <2>3 DEF UploadWhereabouts
<1>2. CASE ~alive
  BY <1>1, <1>2, ThreadsAssumption DEF StartUpload, UploadWhereabouts, OwnAnswer
<1>3. CASE alive
  <2>0. PICK k : k = [no |-> calls', cmd |-> "flashfw", took |-> {}, need |-> UploadReads(n)]
    OBVIOUS
  <2>1. /\ lock' = t /\ call' = [call EXCEPT ![t] = k]
        /\ up' = up \o FlashCommand(calls', n) \o (IF n = 0 THEN <<>> ELSE <<Chunk(calls')>>)
    BY <1>3, <2>0 DEF StartUpload
  <2>2. k.no = calls' /\ k.took = {} /\ Len(k.need) = n + 1
    BY <1>1, <2>0, UploadReadsType
  <2>3. call'[t] = k /\ \A u \in Threads \ {t} : call'[u] = call[u]
    BY <1>1, <2>1 DEF Calling
  <2>4. Len(k.need) - 1 = n /\ (Len(k.need) = 1 <=> n = 0)
    BY <1>1, <2>2
  <2>5. up' = FlashCommand(k.no, n) \o (IF n = 0 THEN <<>> ELSE <<Chunk(k.no)>>)
    <3>1. FlashCommand(k.no, n) \in Seq(Unit)
      BY <1>1, <2>2, FlashCommandType
    <3>2. ASSUME NEW s \in Seq(Unit) PROVE <<>> \o s = s
      OBVIOUS
    <3>3. <<>> \o FlashCommand(k.no, n) = FlashCommand(k.no, n)
      BY <3>1, <3>2
    <3>4. QED
      BY <1>1, <1>3, <2>1, <2>2, <3>3, Zenon
  <2>6. AtCommand(k)'
    BY <1>1, <1>3, <2>4, <2>5 DEF AtCommand
  <2>7. QED
    BY <1>1, <2>1, <2>2, <2>3, <2>4, <2>6, UploadGoesOn DEF Place
<1>4. QED
  BY <1>2, <1>3

LEMMA ReceiveAckInStep ==
  ASSUME Shaped, UploadWhereabouts, NEW t \in Threads, ReceiveAck(t)
  PROVE  UploadWhereabouts' /\ (failed' = failed \/ ~alive)
<1>1. /\ lock = t /\ down # <<>> /\ down' = Tail(down) /\ UNCHANGED <<bulk, alive, wire>>
      /\ Len(call[t].need) > 1 /\ Calling /\ call[t] \in Call
  BY DEF ReceiveAck, Shaped, Calling, upload
<1>2. PICK k : k = [call[t] EXCEPT !.took = call[t].took \cup {Head(down).of}, !.need = Tail(call[t].need)]
  OBVIOUS
<1>3. PICK m \in Nat : m = Len(call[t].need) /\ m > 1 /\ m - 1 <= MaxChunks
  BY <1>1 DEF UploadWhereabouts, Call
<1>4. k.no = call[t].no /\ k.took = call[t].took \cup {Head(down).of} /\ Len(k.need) = m - 1
  <2>1. Tail(call[t].need) \in Seq(Needs) /\ Len(Tail(call[t].need)) = m - 1
    BY <1>1, <1>3, LongTail DEF Call
  <2>2. QED
    BY <1>1, <1>2, <2>1 DEF Call
<1>5. /\ up = <<>> /\ Head(down).of = call[t].no
      /\ \/ AtAck(call[t]) /\ m > 2 /\ Tail(down) = <<>>
         \/ /\ AtLastAck(call[t]) /\ m = 2
            /\ \E val \in {0, 1} : Tail(down) = <<Code(call[t].no, val)>>
  <2>1. /\ up = <<>> /\ Head(down).of = call[t].no
        /\ AckWaits(call[t]) \/ LastAckWaits(call[t]) \/ ResultWaits(call[t])
    BY <1>1, CodeWaits, Zenon
  <2>2. /\ AckWaits(call[t]) => AtAck(call[t]) /\ m > 2 /\ Tail(down) = <<>>
        /\ LastAckWaits(call[t]) =>
             /\ AtLastAck(call[t]) /\ m = 2
             /\ \E val \in {0, 1} : Tail(down) = <<Code(call[t].no, val)>>
        /\ ~ResultWaits(call[t])
    <3>1. AckWaits(call[t]) => AtAck(call[t]) /\ Tail(down) = <<>>
      BY Zenon DEF AckWaits
    <3>2. LastAckWaits(call[t]) =>
            AtLastAck(call[t]) /\ \E val \in {0, 1} : Tail(down) = <<Code(call[t].no, val)>>
      BY Zenon DEF LastAckWaits
    <3>3. AtAck(call[t]) => Len(call[t].need) > 2
      BY DEF AtAck
    <3>4. AtLastAck(call[t]) => Len(call[t].need) = 2
      BY DEF AtLastAck
    <3>5. ResultWaits(call[t]) => Len(call[t].need) = 1
      <4>1. AtResult(call[t]) => Len(call[t].need) = 1
        BY DEF AtResult
      <4>2. QED
        BY <4>1, Zenon DEF ResultWaits
    <3>6. m # 1
      <4>1. m > 1
        BY <1>3, Zenon
      <4>2. QED
        BY <4>1
    <3>7. QED
      BY <1>3, <3>1, <3>2, <3>3, <3>4, <3>5, <3>6, Zenon
  <2>3. QED
    BY <2>1, <2>2, Zenon
<1>6. IF m - 1 > 1 /\ ~alive
      THEN Return(t) /\ failed' = TRUE /\ UNCHANGED up
      ELSE /\ call' = [call EXCEPT ![t] = k]
           /\ up' = IF m - 1 > 1 THEN Append(up, Chunk(k.no)) ELSE up
           /\ UNCHANGED <<lock, failed>>
  BY <1>2, <1>4 DEF ReceiveAck
<1>7. k.took \subseteq {k.no}
  BY <1>4, <1>5 DEF UploadWhereabouts, OwnAnswer
<1>8. ASSUME call' = [call EXCEPT ![t] = k]
      PROVE  call'[t] = k /\ \A u \in Threads \ {t} : call'[u] = call[u]
  BY <1>1, <1>8 DEF Calling
<1>9. CASE AtAck(call[t]) /\ m > 2 /\ Tail(down) = <<>>
  <2>1. CASE alive
    <3>1. /\ call' = [call EXCEPT ![t] = k] /\ up' = Append(up, Chunk(k.no))
          /\ UNCHANGED <<lock, failed>>
      BY <1>3, <1>6, <1>9, <2>1
    <3>2. up' = <<Chunk(k.no)>>
      BY <1>5, <3>1
    <3>3. bulk = [no |-> call[t].no, left |-> m - 2]
      BY <1>3, <1>9 DEF AtAck
    <3>4. Len(k.need) > 1 /\ m - 2 = Len(k.need) - 1 /\ Len(k.need) - 1 <= MaxChunks
      BY <1>3, <1>4, <1>9, SessionBounds
    <3>5. AtChunk(k)'
      BY <1>1, <1>4, <1>9, <2>1, <3>2, <3>3, <3>4 DEF AtChunk
    <3>6. QED
      BY <1>1, <1>7, <1>8, <3>1, <3>4, <3>5, UploadGoesOn DEF Place
  <2>2. CASE ~alive
    <3>1. Return(t) /\ UNCHANGED up
      BY <1>3, <1>6, <1>9, <2>2
    <3>2. lock' = Nobody /\ \A u \in Threads : call'[u] = Idle
      BY <1>1, <3>1, EndCall
    <3>3. QED
      BY <1>1, <1>9, <2>2, <3>2, UploadOver
  <2>3. QED
    BY <2>1, <2>2
<1>10. CASE /\ AtLastAck(call[t]) /\ m = 2
            /\ \E val \in {0, 1} : Tail(down) = <<Code(call[t].no, val)>>
  <2>1. call' = [call EXCEPT ![t] = k] /\ UNCHANGED <<up, lock, failed>>
    BY <1>3, <1>6, <1>10
  <2>2. Len(k.need) = 1 /\ Len(k.need) - 1 <= MaxChunks
    BY <1>4, <1>10, SessionBounds
  <2>3. bulk.left = 0
    BY <1>10 DEF AtLastAck
  <2>4. AtResult(k)'
    BY <1>1, <1>4, <1>5, <1>10, <2>1, <2>2, <2>3 DEF AtResult
  <2>5. QED
    BY <1>1, <1>7, <1>8, <2>1, <2>2, <2>4, UploadGoesOn DEF Place
<1>11. QED
  BY <1>5, <1>9, <1>10

LEMMA NoErrorAck ==
  ASSUME UploadWhereabouts, NEW t \in Threads
  PROVE  ~ReceiveError(t) /\ ~(wire = "privileged" /\ SetAside(t))
<1>1. ~SetAside(t)
  BY CodeWaits DEF SetAside
<1>2. ~ReceiveError(t)
  <2> SUFFICES ASSUME ReceiveError(t) PROVE FALSE
    OBVIOUS
  <2>1. lock = t /\ down # <<>> /\ Len(call[t].need) > 1 /\ Head(down).val # 0
    BY DEF ReceiveError
  <2>2. AckWaits(call[t]) \/ LastAckWaits(call[t]) \/ ResultWaits(call[t])
    BY <2>1, CodeWaits, Zenon
  <2>3. QED
    BY <2>1, <2>2 DEF AckWaits, LastAckWaits, ResultWaits, AtResult
<1>3. QED
  BY <1>1, <1>2

LEMMA ReceiveResultInStep ==
  ASSUME Shaped, UploadWhereabouts, NEW t \in Threads, ReceiveResult(t)
  PROVE  UploadWhereabouts'
<1>1. /\ lock = t /\ down # <<>> /\ down' = Tail(down) /\ UNCHANGED <<bulk, up, wire>>
      /\ Len(call[t].need) = 1 /\ Calling /\ Return(t)
  BY DEF ReceiveResult, Shaped, upload
<1>2. lock' = Nobody /\ \A u \in Threads : call'[u] = Idle
  BY <1>1, EndCall
<1>3. AtResult(call[t]) /\ up = <<>> /\ Tail(down) = <<>>
  <2>1. up = <<>> /\ (AckWaits(call[t]) \/ LastAckWaits(call[t]) \/ ResultWaits(call[t]))
    BY <1>1, CodeWaits, Zenon
  <2>2. QED
    BY <1>1, <2>1 DEF AckWaits, LastAckWaits, ResultWaits, AtAck, AtLastAck
<1>4. bulk.left = 0
  BY <1>3 DEF AtResult
<1>5. QED
  BY <1>1, <1>2, <1>3, <1>4, UploadOver

LEMMA LostUpload ==
  ASSUME Shaped, Shaped', UploadWhereabouts, NEW t \in Threads, Lost(t)
  PROVE  UploadWhereabouts'
<1>1. /\ lock = t /\ down' = <<>> /\ ~alive' /\ Return(t) /\ UNCHANGED wire /\ Calling
  BY DEF Lost, Shaped, upload
<1>2. lock' = Nobody /\ \A u \in Threads : call'[u] = Idle
  BY <1>1, EndCall
<1>3. QED
  BY <1>1, <1>2, UploadOver

LEMMA DieUpload ==
  ASSUME Shaped, UploadWhereabouts, Die
  PROVE  UploadWhereabouts'
<1>1. up' = <<>> /\ ~alive' /\ UNCHANGED <<lock, call, down, bulk>>
  BY DEF Die, upload
<1>2. CASE lock = Nobody
  BY <1>1, <1>2, ThreadsAssumption DEF UploadWhereabouts, OwnAnswer
<1>3. ASSUME NEW t \in Threads, lock = t PROVE Place(call[t])'
  BY <1>1, <1>3 DEF UploadWhereabouts, Place, AtCommand, AtChunk, AtAck, AtLastAck, AtResult, Gone
<1>4. QED
  BY <1>1, <1>2, <1>3, UploadServed DEF Shaped, Calling

(* What razerd receives next, of the one upload.                           *)
LEMMA UnitWaits ==
  ASSUME Shaped, UploadWhereabouts, wire = "privileged", alive, up # <<>>
  PROVE  \E t \in Threads : lock = t /\ (AtCommand(call[t]) \/ AtChunk(call[t]))
<1>1. lock \in Threads
  BY DEF UploadWhereabouts, Shaped, Calling
<1>2. QED
  BY <1>1 DEF UploadWhereabouts, Place, AtAck, AtLastAck, AtResult, Gone

LEMMA Joined ==
  ASSUME NEW S, NEW a \in Seq(S), NEW b \in Seq(S), Len(a) > 0
  PROVE  /\ a \o b \in Seq(S) /\ Len(a \o b) = Len(a) + Len(b) /\ Len(b) \in Nat
         /\ (a \o b)[1] = a[1] /\ \A i \in 1 .. Len(b) : (a \o b)[Len(a) + i] = b[i]
  OBVIOUS

LEMMA JoinCodes ==
  ASSUME NEW c \in Token, NEW d \in Token
  PROVE  <<>> \o <<c>> \o <<d>> = <<c, d>> /\ <<>> \o <<c>> \o <<>> = <<c>>
<1>1. ASSUME NEW s \in Seq(Token) PROVE <<>> \o s = s /\ s \o <<>> = s
  OBVIOUS
<1>2. <<c>> \in Seq(Token) /\ <<c>> \o <<d>> = <<c, d>>
  <2>1. ASSUME NEW s \in Seq(Token), NEW r \in Seq(Token), Len(s) = 1, Len(r) = 1
        PROVE  s \o r = <<s[1], r[1]>>
    <3>1. /\ s \o r \in Seq(Token) /\ Len(s \o r) = 2
          /\ (s \o r)[1] = s[1] /\ (s \o r)[2] = r[1]
      <4>1. /\ s \o r \in Seq(Token) /\ Len(s \o r) = Len(s) + Len(r)
            /\ (s \o r)[1] = s[1] /\ \A i \in 1 .. Len(r) : (s \o r)[Len(s) + i] = r[i]
        <5>1. Len(s) > 0
          BY <2>1
        <5>2. QED
          BY <5>1, Joined
      <4>2. /\ s \o r \in Seq(Token) /\ Len(s \o r) = 1 + 1
            /\ (s \o r)[1] = s[1] /\ \A i \in 1 .. 1 : (s \o r)[1 + i] = r[i]
        BY <2>1, <4>1, Zenon
      <4>3. 1 + 1 = 2 /\ 1 \in 1 .. 1
        OBVIOUS
      <4>4. QED
        BY <4>2, <4>3, Zenon
    <3>2. s[1] \in Token /\ r[1] \in Token
      BY <2>1
    <3>3. ASSUME NEW x \in Token, NEW y \in Token, NEW z \in Seq(Token), Len(z) = 2, z[1] = x, z[2] = y
          PROVE  z = <<x, y>>
      BY <3>3
    <3>4. QED
      BY <3>1, <3>2, <3>3, Zenon
  <2>2. /\ <<c>> \in Seq(Token) /\ Len(<<c>>) = 1 /\ <<c>>[1] = c
        /\ <<d>> \in Seq(Token) /\ Len(<<d>>) = 1 /\ <<d>>[1] = d
    OBVIOUS
  <2>3. QED
    BY <2>1, <2>2, Zenon
<1>3. <<>> \o <<c>> = <<c>> /\ <<c>> \o <<>> = <<c>>
  BY <1>1, <1>2
<1>4. QED
  BY <1>2, <1>3, Zenon

(* What a call in progress still needs is so many codes, one at least.     *)
LEMMA NeedLength ==
  ASSUME NEW s \in Seq(Needs), s # <<>>
  PROVE  \E m \in Nat : Len(s) = m /\ m > 0 /\ m - 1 \in Nat
  OBVIOUS

LEMMA ChunkHead ==
  ASSUME NEW no \in Nat, NEW s, s = <<Chunk(no)>>
  PROVE  Head(s).cmd = "chunk" /\ Tail(s) = <<>>
  BY ChunkType

(* All of the command is received, and nothing else.                       *)
LEMMA CommandReceived ==
  ASSUME NEW no \in Nat, NEW n \in Nat, NEW s \in Seq(Unit), up = FlashCommand(no, n) \o s
  PROVE  /\ Head(up) = [no |-> no, cmd |-> "flashfw", size |-> n]
         /\ AfterReceived = s
<1>1. PICK c \in Seq(Unit) : /\ c = FlashCommand(no, n) /\ Len(c) = 4
                             /\ c[1] = [no |-> no, cmd |-> "flashfw", size |-> n]
  BY FlashCommandType
<1>2. /\ up \in Seq(Unit) /\ Len(up) = 4 + Len(s) /\ Len(s) \in Nat /\ up[1] = c[1]
      /\ \A i \in 1 .. Len(s) : up[4 + i] = s[i]
  <2>1. up = c \o s
    BY <1>1
  <2>2. Len(c) > 0
    BY <1>1
  <2>3. /\ c \o s \in Seq(Unit) /\ Len(c \o s) = Len(c) + Len(s) /\ Len(s) \in Nat
        /\ (c \o s)[1] = c[1] /\ \A i \in 1 .. Len(s) : (c \o s)[Len(c) + i] = s[i]
    BY <2>2, Joined
  <2>4. Len(c) = 4
    BY <1>1
  <2>5. QED
    BY <2>1, <2>3, <2>4, Zenon
<1>3. Head(up) = up[1]
  BY <1>2
<1>4. Len(Received) = 4
  <2>1. (IF Len(up) < 4 THEN Len(up) ELSE 4) = 4
    BY <1>2
  <2>2. Received = SubSeq(up, 1, 4)
    BY <2>1 DEF Received, ChunksPerCommand
  <2>3. QED
    BY <1>2, <2>2
<1>5. AfterReceived = SubSeq(up, 5, Len(up))
  BY <1>4 DEF AfterReceived
<1>6. PICK m \in Nat : m = Len(s) /\ Len(up) = 4 + m
  BY <1>2
<1>7. /\ SubSeq(up, 5, Len(up)) \in Seq(Unit) /\ Len(SubSeq(up, 5, Len(up))) = m
      /\ \A i \in 1 .. m : SubSeq(up, 5, Len(up))[i] = up[4 + i]
  BY <1>2, <1>6
<1>8. PICK r \in Seq(Unit) : r = AfterReceived /\ Len(r) = m /\ \A i \in 1 .. m : r[i] = s[i]
  BY <1>2, <1>5, <1>6, <1>7
<1>9. r = s
  BY <1>6, <1>8
<1>10. QED
  BY <1>1, <1>2, <1>3, <1>8, <1>9

LEMMA ServeUploadInStep ==
  ASSUME Shaped, UploadWhereabouts, ServeUpload
  PROVE  UploadWhereabouts'
<1>1. /\ wire = "privileged" /\ alive /\ bulk.left = 0 /\ up # <<>> /\ Head(up).cmd = "flashfw"
      /\ up' = AfterReceived /\ UNCHANGED <<lock, call, alive>>
  BY DEF ServeUpload
<1>2. PICK t \in Threads : lock = t /\ (AtCommand(call[t]) \/ AtChunk(call[t]))
  BY <1>1, UnitWaits
<1>3. PICK k \in Call : k = call[t] /\ k.no \in Nat /\ k.need # <<>> /\ k.need \in Seq(Needs)
  BY <1>2 DEF Shaped, Calling, Waiting, Call
<1>4. AtCommand(k)
  BY <1>1, <1>2, <1>3, ChunkHead DEF AtChunk
<1>5. PICK n \in Nat : n = Len(k.need) - 1 /\ n <= MaxChunks /\ Len(k.need) = n + 1
  <2>1. PICK m \in Nat : Len(k.need) = m /\ m > 0 /\ m - 1 \in Nat
    BY <1>3, NeedLength
  <2>2. Len(k.need) - 1 <= MaxChunks
    BY <1>2, <1>3 DEF UploadWhereabouts
  <2>3. m - 1 = Len(k.need) - 1 /\ m - 1 <= MaxChunks /\ Len(k.need) = (m - 1) + 1
    BY <2>1, <2>2
  <2>4. QED
    BY <2>1, <2>3
<1>6. PICK s \in Seq(Unit) : s = IF n = 0 THEN <<>> ELSE <<Chunk(k.no)>>
  <2>1. <<>> \in Seq(Unit)
    OBVIOUS
  <2>2. <<Chunk(k.no)>> \in Seq(Unit)
    BY <1>3, ChunkType
  <2>3. QED
    BY <2>1, <2>2
<1>7. n + 1 = 1 <=> n = 0
  OBVIOUS
<1>8. up = FlashCommand(k.no, n) \o s
  <2>1. up = FlashCommand(k.no, Len(k.need) - 1) \o (IF Len(k.need) = 1 THEN <<>> ELSE <<Chunk(k.no)>>)
    BY <1>4 DEF AtCommand
  <2>2. (IF Len(k.need) = 1 THEN <<>> ELSE <<Chunk(k.no)>>) = s
    BY <1>5, <1>6, <1>7, Zenon
  <2>3. QED
    BY <1>5, <2>1, <2>2, Zenon
<1>9. Head(up) = [no |-> k.no, cmd |-> "flashfw", size |-> n] /\ up' = s
  BY <1>1, <1>3, <1>8, CommandReceived
<1>10. Head(up).size = n /\ Head(up).no = k.no /\ ~(n > MaxChunks)
  BY <1>5, <1>9, SessionBounds
<1>11. down = <<>>
  BY <1>4 DEF AtCommand
<1>12. CASE n = 0
  <2>1. PICK val \in {0, 1} : down' = Append(down, Code(k.no, val)) /\ UNCHANGED bulk
    BY <1>10, <1>12 DEF ServeUpload
  <2>2. down' = <<Code(k.no, val)>>
    BY <1>11, <2>1
  <2>3. AtResult(k)'
    BY <1>1, <1>5, <1>6, <1>7, <1>9, <1>12, <2>1, <2>2, Zenon DEF AtResult
  <2>4. QED
    BY <1>1, <1>2, <1>3, <2>3, UploadServed DEF Place
<1>13. CASE n # 0
  <2>1. bulk' = [no |-> k.no, left |-> n] /\ UNCHANGED down
    BY <1>10, <1>13 DEF ServeUpload
  <2>2. Len(k.need) > 1
    <3>1. n + 1 > 1
      BY <1>13
    <3>2. QED
      BY <1>5, <3>1, Zenon
  <2>3. up' = <<Chunk(k.no)>>
    BY <1>6, <1>9, <1>13
  <2>4. AtChunk(k)'
    BY <1>1, <1>5, <1>11, <2>1, <2>2, <2>3, Zenon DEF AtChunk
  <2>5. QED
    BY <1>1, <1>2, <1>3, <2>4, UploadServed DEF Place
<1>14. QED
  BY <1>12, <1>13

LEMMA ServeChunkInStep ==
  ASSUME Shaped, UploadWhereabouts, ServeChunk
  PROVE  UploadWhereabouts'
<1>1. /\ wire = "privileged" /\ alive /\ bulk.left > 0 /\ up # <<>>
      /\ up' = Tail(up) /\ bulk' = [bulk EXCEPT !.left = bulk.left - 1]
      /\ UNCHANGED <<lock, call, alive>>
  BY DEF ServeChunk
<1>2. PICK t \in Threads : lock = t /\ (AtCommand(call[t]) \/ AtChunk(call[t]))
  BY <1>1, UnitWaits
<1>3. PICK k \in Call : k = call[t] /\ k.no \in Nat /\ k.need # <<>> /\ k.need \in Seq(Needs)
  BY <1>2 DEF Shaped, Calling, Waiting, Call
<1>4. AtChunk(k)
  BY <1>1, <1>2, <1>3 DEF AtCommand
<1>5. PICK n \in Nat : n = Len(k.need) - 1 /\ n > 0 /\ Len(k.need) = n + 1
  <2>1. PICK m \in Nat : Len(k.need) = m /\ m > 0 /\ m - 1 \in Nat
    BY <1>3, NeedLength
  <2>2. Len(k.need) > 1
    BY <1>4 DEF AtChunk
  <2>3. m - 1 = Len(k.need) - 1 /\ m - 1 > 0 /\ Len(k.need) = (m - 1) + 1
    BY <2>1, <2>2
  <2>4. QED
    BY <2>1, <2>3
<1>6. down = <<>> /\ up = <<Chunk(k.no)>> /\ bulk = [no |-> k.no, left |-> n]
  BY <1>4, <1>5, Zenon DEF AtChunk
<1>7. up' = <<>> /\ bulk' = [no |-> k.no, left |-> n - 1] /\ bulk.left = n /\ bulk.no = k.no
  BY <1>1, <1>3, <1>6, ChunkHead
<1>8. PICK val \in {0, 1} :
        down' = <<>> \o <<Code(k.no, 0)>> \o (IF n = 1 THEN <<Code(k.no, val)>> ELSE <<>>)
  BY <1>6, <1>7 DEF ServeChunk
<1>9. CASE n = 1
  <2>0. Code(k.no, 0) \in Token /\ Code(k.no, val) \in Token
    BY <1>3, CodeType
  <2>1. down' = <<Code(k.no, 0), Code(k.no, val)>>
    BY <1>3, <1>8, <1>9, <2>0, JoinCodes, Zenon
  <2>2. Len(k.need) = 2
    BY <1>5, <1>9
  <2>3. bulk'.left = 0
    BY <1>7, <1>9
  <2>4. AtLastAck(k)'
    BY <1>7, <2>1, <2>2, <2>3, Zenon DEF AtLastAck
  <2>5. QED
    BY <1>1, <1>2, <1>3, <2>4, UploadServed DEF Place
<1>10. CASE n # 1
  <2>0. Code(k.no, 0) \in Token /\ Code(k.no, val) \in Token
    BY <1>3, CodeType
  <2>1. down' = <<Code(k.no, 0)>>
    BY <1>3, <1>8, <1>10, <2>0, JoinCodes, Zenon
  <2>2. Len(k.need) > 2 /\ n - 1 = Len(k.need) - 2
    <3>0. n > 0
      BY <1>5, Zenon
    <3>1. n + 1 > 2 /\ n - 1 = (n + 1) - 2
      BY <1>10, <3>0
    <3>2. QED
      BY <1>5, <3>1, Zenon
  <2>3. AtAck(k)'
    BY <1>7, <2>1, <2>2, Zenon DEF AtAck
  <2>4. QED
    BY <1>1, <1>2, <1>3, <2>3, UploadServed DEF Place
<1>11. QED
  BY <1>9, <1>10

LEMMA NothingStray ==
  ASSUME Shaped, UploadWhereabouts
  PROVE  ~ServeStray
<1> SUFFICES ASSUME ServeStray PROVE FALSE
  OBVIOUS
<1>1. wire = "privileged" /\ alive /\ bulk.left = 0 /\ up # <<>> /\ Head(up).cmd # "flashfw"
  BY DEF ServeStray
<1>2. PICK t \in Threads : lock = t /\ (AtCommand(call[t]) \/ AtChunk(call[t]))
  BY <1>1, UnitWaits
<1>3. PICK k \in Call : k = call[t] /\ k.no \in Nat /\ k.need # <<>> /\ k.need \in Seq(Needs)
  BY <1>2 DEF Shaped, Calling, Waiting, Call
<1>4. CASE AtCommand(k)
  <2>1. PICK n \in Nat : n = Len(k.need) - 1
    <3>1. PICK m \in Nat : Len(k.need) = m /\ m > 0 /\ m - 1 \in Nat
      BY <1>3, NeedLength
    <3>2. QED
      BY <3>1
  <2>2. PICK s \in Seq(Unit) : up = FlashCommand(k.no, n) \o s
    <3>1. (IF Len(k.need) = 1 THEN <<>> ELSE <<Chunk(k.no)>>) \in Seq(Unit)
      <4>1. <<>> \in Seq(Unit)
        OBVIOUS
      <4>2. <<Chunk(k.no)>> \in Seq(Unit)
        BY <1>3, ChunkType
      <4>3. QED
        BY <4>1, <4>2
    <3>2. up = FlashCommand(k.no, Len(k.need) - 1) \o (IF Len(k.need) = 1 THEN <<>> ELSE <<Chunk(k.no)>>)
      BY <1>4 DEF AtCommand
    <3>3. QED
      BY <2>1, <3>1, <3>2, Zenon
  <2>3. Head(up) = [no |-> k.no, cmd |-> "flashfw", size |-> n]
    BY <1>3, <2>1, <2>2, CommandReceived
  <2>4. QED
    BY <1>1, <2>3
<1>5. CASE AtChunk(k)
  <2>1. bulk.left = Len(k.need) - 1 /\ Len(k.need) > 1
    BY <1>5 DEF AtChunk
  <2>2. Len(k.need) \in Nat
    BY <1>3
  <2>3. QED
    BY <1>1, <2>1, <2>2
<1>6. QED
  BY <1>2, <1>3, <1>4, <1>5

LEMMA UploadsInStepKept ==
  ASSUME Shaped, Shaped', UploadsInStep, [Next]_vars
  PROVE  UploadsInStep'
<1> SUFFICES ASSUME wire' = "privileged", ~big' PROVE UploadWhereabouts'
  BY DEF UploadsInStep
<1>1. wire = "privileged" /\ ~big
  <2>1. CASE \E t \in Threads, n \in 0 .. MaxChunks + 1 : StartUpload(t, n)
    <3>1. PICK t \in Threads, n \in 0 .. MaxChunks + 1 : StartUpload(t, n)
      BY <2>1
    <3>2. UNCHANGED wire /\ big' = (big \/ n > MaxChunks)
      BY <3>1 DEF StartUpload
    <3>3. QED
      BY <3>2, Zenon
  <2>2. CASE ~\E t \in Threads, n \in 0 .. MaxChunks + 1 : StartUpload(t, n)
    <3>1. UNCHANGED <<wire, big>>
      BY <2>2 DEF Next, vars, upload, Start, Receive, SetAside, Refuse, Lost, Poll, Serve, Notify, Die,
             ReceiveAck, ReceiveError, ReceiveResult, ServeUpload, ServeChunk, ServeStray
    <3>2. QED
      BY <3>1, Zenon
  <2>3. QED
    BY <2>1, <2>2
<1>2. UploadWhereabouts
  BY <1>1 DEF UploadsInStep
<1>3. CASE UNCHANGED vars
  BY <1>2, <1>3 DEF vars, UploadWhereabouts, OwnAnswer, Place, AtCommand, AtChunk, AtAck, AtLastAck,
                    AtResult, Gone
<1>4. CASE Next
  <2>1. ASSUME NEW t \in Threads, NEW c \in Commands PROVE ~Start(t, c)
    BY <1>1 DEF Start
  <2>2. ASSUME NEW t \in Threads PROVE ~Receive(t) /\ ~Refuse(t)
    BY <1>1 DEF Receive, Refuse
  <2>3. ~Poll /\ ~Serve /\ ~Notify
    BY <1>1 DEF Poll, Serve, Notify
  <2>4. QED
    BY <1>1, <1>2, <1>4, <2>1, <2>2, <2>3, StartUploadInStep, NoErrorAck, LostUpload, ReceiveAckInStep,
       ReceiveResultInStep, DieUpload, ServeUploadInStep, ServeChunkInStep, NothingStray DEF Next
<1>5. QED
  BY <1>3, <1>4

-----------------------------------------------------------------------------
(* Why a call fails.                                                       *)

LEMMA ReasonsStay ==
  ASSUME Shaped, [Next]_vars
  PROVE  /\ library' = library /\ events \in Nat /\ events' \in Nat
         /\ ~alive => ~alive'
         /\ big => big'
         /\ events > 0 => events' > 0
<1>0. events \in Nat
  BY SessionBounds DEF Shaped
<1>1. library' = library /\ (events' = events \/ events' = events + 1)
  BY DEF Next, vars, upload, Start, Receive, SetAside, Refuse, Lost, Poll, Serve, Notify, Die,
         StartUpload, ReceiveAck, ReceiveError, ReceiveResult, ServeUpload, ServeChunk, ServeStray
<1>2. ~alive => ~alive'
  BY DEF Next, vars, upload, Start, Receive, SetAside, Refuse, Lost, Poll, Serve, Notify, Die,
         StartUpload, ReceiveAck, ReceiveError, ReceiveResult, ServeUpload, ServeChunk, ServeStray
<1>3. big => big'
  <2>1. ASSUME NEW t \in Threads, NEW n \in 0 .. MaxChunks + 1, StartUpload(t, n), big PROVE big'
    <3>1. big' = (big \/ n > MaxChunks)
      BY <2>1 DEF StartUpload
    <3>2. QED
      BY <2>1, <3>1, Zenon
  <2>2. ASSUME ~\E t \in Threads, n \in 0 .. MaxChunks + 1 : StartUpload(t, n) PROVE big' = big
    BY <2>2 DEF Next, vars, upload, Start, Receive, SetAside, Refuse, Lost, Poll, Serve, Notify, Die,
           ReceiveAck, ReceiveError, ReceiveResult, ServeUpload, ServeChunk, ServeStray
  <2>3. QED
    BY <2>1, <2>2, Zenon
<1>4. QED
  BY <1>0, <1>1, <1>2, <1>3

(* What makes a call fail.                                                 *)
Reason == ~alive \/ big \/ (library = "librazerd" /\ events > 0)

LEMMA FailsOnlyThen ==
  ASSUME Shaped, Shaped', CallsInStep, UploadsInStep, [Next]_vars, failed', ~failed
  PROVE  Reason
<1>1. ~Steady /\ wire = "control" => library = "librazerd" /\ events > 0
  BY SessionBounds DEF Steady, Shaped
<1>2. /\ Steady => Whereabouts
      /\ wire = "privileged" /\ ~big => UploadWhereabouts
  BY DEF CallsInStep, UploadsInStep
<1>3. ASSUME NEW t \in Threads, NEW c \in Commands, Start(t, c) PROVE Reason
  BY <1>3 DEF Start, Reason
<1>4. ASSUME NEW t \in Threads, Refuse(t) PROVE Reason
  <2>1. wire = "control"
    BY <1>4 DEF Refuse
  <2>2. QED
    BY <1>1, <1>2, <1>4, <2>1, NothingRefused DEF Reason
<1>5. ASSUME NEW t \in Threads, Lost(t) PROVE Reason
  BY <1>5 DEF Lost, Reason
<1>6. ASSUME Poll PROVE Reason
  <2>1. Steady
    BY <1>6 DEF Poll, Steady
  <2>2. failed' = failed \/ ~alive
    BY <1>2, <1>6, <2>1, PollInStep
  <2>3. QED
    BY <2>2 DEF Reason
<1>7. ASSUME NEW t \in Threads, NEW n \in 0 .. MaxChunks + 1, StartUpload(t, n) PROVE Reason
  BY <1>7 DEF StartUpload, Reason
<1>8. ASSUME NEW t \in Threads, ReceiveAck(t) PROVE Reason
  <2>1. wire = "privileged"
    BY <1>8 DEF ReceiveAck
  <2>2. ~big => failed' = failed \/ ~alive
    BY <1>2, <1>8, <2>1, ReceiveAckInStep
  <2>3. QED
    BY <2>2 DEF Reason
<1>9. ASSUME NEW t \in Threads, ReceiveError(t) PROVE Reason
  <2>1. wire = "privileged"
    BY <1>9 DEF ReceiveError
  <2>2. QED
    BY <1>2, <1>9, <2>1, NoErrorAck DEF Reason
<1>10. \/ \E t \in Threads, c \in Commands : Start(t, c)
       \/ \E t \in Threads : Refuse(t) \/ Lost(t) \/ ReceiveAck(t) \/ ReceiveError(t)
       \/ Poll
       \/ \E t \in Threads, n \in 0 .. MaxChunks + 1 : StartUpload(t, n)
  BY DEF Next, vars, Receive, SetAside, ReceiveResult, Serve, Notify, Die, ServeUpload, ServeChunk, ServeStray
<1>11. QED
  BY <1>3, <1>4, <1>5, <1>6, <1>7, <1>8, <1>9, <1>10

LEMMA ReasonKept ==
  ASSUME Shaped, Shaped', CallsInStep, UploadsInStep, FailsForAReason, [Next]_vars
  PROVE  FailsForAReason'
<1> SUFFICES ASSUME failed' PROVE Reason'
  BY DEF FailsForAReason, Reason
<1>1. Reason
  BY FailsOnlyThen DEF FailsForAReason, Reason
<1>2. QED
  BY <1>1, ReasonsStay DEF Reason

-----------------------------------------------------------------------------
LEMMA InitInvariant ==
  ASSUME Init
  PROVE  IInv
<1>1. Idle \in Call /\ \A t \in Threads : lock # t
  <2>1. Idle \in Call
    BY SessionBounds DEF Idle, Call
  <2>2. QED
    BY <2>1, ThreadsAssumption DEF Init
<1>2. Calling
  BY <1>1 DEF Init, Calling
<1>3. Shaped
  <2>1. library \in {"librazerd", "pyrazer"} /\ wire \in {"control", "privileged"}
    BY DEF Init
  <2>2. up = <<>> /\ down = <<>> /\ alive = TRUE /\ failed = FALSE /\ big = FALSE
        /\ calls = 0 /\ events = 0 /\ bulk = [no |-> 0, left |-> 0]
    BY DEF Init
  <2>3. up \in Seq(Request(wire)) /\ down \in Seq(Token) /\ \A i \in DOMAIN down : down[i] # Note
    BY <2>2
  <2>4. bulk \in [no : Nat, left : 0 .. MaxChunks]
    BY <2>2, SessionBounds
  <2>5. calls \in 0 .. MaxCalls /\ events \in 0 .. MaxEvents
    BY <2>2, SessionBounds
  <2>6. alive /\ ~failed /\ ~big /\ {alive, failed, big} \subseteq BOOLEAN
    BY <2>2
  <2>7. QED
    BY <1>2, <2>1, <2>3, <2>4, <2>5, <2>6 DEF Shaped
<1>4. OwnAnswer
  BY DEF Init, OwnAnswer, Idle
<1>5. Quiet(down) /\ Silent(up)
  BY DEF Init, Quiet, Silent
<1>6. CallsInStep
  BY <1>1, <1>4, <1>5 DEF CallsInStep, Whereabouts
<1>7. UploadsInStep
  BY <1>1, <1>4 DEF Init, UploadsInStep, UploadWhereabouts
<1>8. QED
  BY <1>3, <1>6, <1>7 DEF Init, IInv, FailsForAReason

LEMMA IInvInductive ==
  ASSUME IInv, [Next]_vars
  PROVE  IInv'
<1>1. Shaped'
  BY ShapedKept DEF IInv
<1>2. CallsInStep' /\ UploadsInStep' /\ FailsForAReason'
  BY <1>1, CallsInStepKept, UploadsInStepKept, ReasonKept DEF IInv
<1>3. QED
  BY <1>1, <1>2 DEF IInv

(* The inductive invariant holds: where the answer of a call in progress,  *)
(* or its upload, can be.                                                  *)
THEOREM Invariance == Spec => []IInv
<1>1. Init => IInv
  BY InitInvariant
<1>2. IInv /\ [Next]_vars => IInv'
  BY IInvInductive
<1>3. QED
  BY <1>1, <1>2, PTL DEF Spec

(* Type correctness: one thread at a time is in a call, the one that holds *)
(* the lock of the library.                                                *)
THEOREM TypeCorrect == Spec => []TypeOK
<1>1. IInv => TypeOK
  <2> SUFFICES ASSUME IInv PROVE TypeOK
    OBVIOUS
  <2>1. Shaped /\ Calling
    BY DEF IInv, Shaped
  <2>2. \A t \in Threads : call[t].no \in 0 .. MaxCalls
    BY <2>1 DEF Calling, Call
  <2>3. \A i \in DOMAIN down : down[i].kind \in {"u32", "str", "note", "body"}
    <3>1. ASSUME NEW i \in DOMAIN down PROVE down[i] \in Token
      BY <2>1 DEF Shaped
    <3>2. QED
      BY <3>1 DEF Token, Kinds
  <2>4. bulk.left \in 0 .. MaxChunks /\ {alive, failed, big} \subseteq BOOLEAN
    BY <2>1 DEF Shaped
  <2>5. QED
    BY <2>1, <2>2, <2>3, <2>4 DEF TypeOK, Calling, Shaped
<1>2. QED
  BY <1>1, Invariance, PTL

(* The three programs agree on the form of every reply: whichever threads  *)
(* call what, however many entries the lists have and wherever hot-plug    *)
(* notifications come, a call receives its own answer and all of it.       *)
(* librazerd keeps this up until the first notification.                   *)
THEOREM StaysInStep == Spec => []InStep
<1>1. IInv => InStep
  <2> SUFFICES ASSUME IInv, Steady PROVE OwnAnswer /\ NoLeftovers
    BY DEF InStep, Steady
  <2>1. Shaped /\ Whereabouts /\ up \in Seq(Command)
    BY DEF IInv, CallsInStep, Shaped, Steady, Request
  <2>2. ASSUME NEW i \in DOMAIN up PROVE Reads(up[i].cmd) = Form(up[i].cmd)
    <3>1. up[i] \in Command
      BY <2>1
    <3>2. QED
      BY <3>1, FormShape DEF Command
  <2>3. QED
    BY <2>1, <2>2 DEF Whereabouts, NoLeftovers, Quiet, Silent
<1>2. QED
  BY <1>1, Invariance, PTL

(* pyrazer and razerd count the chunks and the codes of an upload alike,   *)
(* whatever the size of the image that razerd takes, and whatever became   *)
(* of flashing it.                                                         *)
THEOREM UploadsStayInStep == Spec => []UploadInStep
<1>1. IInv => UploadInStep
  BY DEF IInv, UploadsInStep, UploadWhereabouts, UploadInStep
<1>2. QED
  BY <1>1, Invariance, PTL

(* A call fails because razerd has gone; or after an image that was too    *)
(* large, or in librazerd after a hot-plug notification.                   *)
THEOREM FailuresExplained == Spec => []FailsForAReason
<1>1. IInv => FailsForAReason
  BY DEF IInv
<1>2. QED
  BY <1>1, Invariance, PTL
=============================================================================
