------------------------- MODULE IpsecReplayProofs -------------------------
(***************************************************************************)
(* NoReplay, OnlyStaleRefused and NonceUnique of IpsecReplay for every     *)
(* window size, every width of a sequence number and every initial number, *)
(* the first two provided that RSS sends all packets of the rule to one    *)
(* worker.  The types hold wherever RSS sends them: a worker that decides  *)
(* on a window that has moved still stores one inside the range.           *)
(***************************************************************************)
EXTENDS IpsecReplay, TLAPS

\* A worker that has read the state of the rule decides on values that are
\* still current: there is no other worker that could have changed them.
HeldCurrent ==
  \A c \in Cores : held[c].worker = "check" =>
    /\ phase = "run"
    /\ held[c].end = end_win_sn
    /\ held[c].bits = bitmap
    /\ held[c].sn >= sn_initial
    /\ \E f \in Flows : Rss[f] = c

\* The window lies inside the range of the numbers, ends at the first window
\* or at a number that was accepted, and is empty before the gateway runs.
WindowPlace ==
  /\ phase = "run" => /\ end_win_sn >= Window - 1
                      /\ \/ end_win_sn = sn_initial + Window - 1
                         \/ end_win_sn \in accepted
  /\ phase # "run" => accepted = {}

\* What was forwarded was accepted, and is counted once.
DeliveredOnce ==
  \A sn \in Sn : /\ delivered[sn] <= 1
                 /\ delivered[sn] = 1 => sn \in accepted

\* The numbers from current_sn on are unused.
UnusedAhead ==
  /\ \A sn \in Sn : /\ uses[sn] <= 1
                    /\ sn >= current_sn => uses[sn] = 0
  /\ current_sn >= sn_initial
  /\ \A p \in net : p.sn >= sn_initial

Inv ==
  /\ TypeOK
  /\ HeldCurrent
  /\ WindowPlace
  /\ WindowExact
  /\ DeliveredOnce
  /\ OnlyStaleRefused
  /\ UnusedAhead

\* Adding without overflow is exact.
LEMMA Uint32Small ==
  ASSUME NEW x \in Sn
  PROVE  Uint32(x) = x
  BY MaxSnAssumption DEF Uint32, Sn

\* The first number of a window that lies inside the range of the numbers.
LEMMA BegWinSnExact ==
  ASSUME NEW end \in Sn, end >= Window - 1
  PROVE  BegWinSn(end) = end + 1 - Window
<1>1. end + 1 - Window \in Sn
  BY WindowAssumption, MaxSnAssumption DEF Sn
<1>2. QED
  BY <1>1, Uint32Small DEF BegWinSn

\* Moving the window by diff keeps the bits of the numbers that stay in it.
LEMMA ShiftRightExact ==
  ASSUME NEW bits \in SUBSET (0 .. Window - 1), NEW diff \in Nat,
         NEW b \in Int
  PROVE  b \in ShiftRight(bits, diff) <=> b >= 0 /\ b + diff \in bits
<1>1. ASSUME b \in ShiftRight(bits, diff) PROVE b >= 0 /\ b + diff \in bits
  <2>1. PICK x \in bits : x >= diff /\ b = x - diff
    BY <1>1 DEF ShiftRight
  <2>2. x \in Int
    BY WindowAssumption
  <2>3. QED
    BY <2>1, <2>2
<1>2. ASSUME b >= 0, b + diff \in bits PROVE b \in ShiftRight(bits, diff)
  <2>1. b + diff >= diff /\ (b + diff) - diff = b
    BY <1>2
  <2>2. QED
    BY <1>2, <2>1 DEF ShiftRight
<1>3. QED
  BY <1>1, <1>2

\* What Slide returns, bit by bit.
LEMMA SlideExact ==
  ASSUME NEW bits \in SUBSET (0 .. Window - 1), NEW end \in Sn, NEW sn \in Sn,
         sn > end
  PROVE  /\ Slide(sn, end, bits) \in SUBSET (0 .. Window - 1)
         /\ \A b \in Int : b \in Slide(sn, end, bits) <=>
              b = Window - 1 \/ (b >= 0 /\ b + (sn - end) \in bits)
<1>1. sn - end \in Nat /\ sn - end > 0
  BY MaxSnAssumption DEF Sn
<1> DEFINE kept == IF sn - end >= Window THEN {} ELSE ShiftRight(bits, sn - end)
<1>2. ASSUME NEW b \in Int
      PROVE  b \in kept <=> b >= 0 /\ b + (sn - end) \in bits
  <2>1. CASE sn - end >= Window
    <3>1. b >= 0 => b + (sn - end) \notin 0 .. Window - 1
      BY <1>1, <2>1, WindowAssumption
    <3>2. QED
      BY <2>1, <3>1
  <2>2. CASE ~ (sn - end >= Window)
    BY <2>2, <1>1, ShiftRightExact
  <2>3. QED
    BY <2>1, <2>2
<1>3. kept \subseteq Int
  <2>1. bits \subseteq Int
    BY WindowAssumption
  <2>2. ShiftRight(bits, sn - end) \subseteq Int
    BY <2>1, <1>1 DEF ShiftRight
  <2>3. QED
    BY <2>2
<1>4. kept \subseteq 0 .. Window - 1
  <2>1. SUFFICES ASSUME NEW b \in kept PROVE b \in 0 .. Window - 1
    OBVIOUS
  <2>2. b \in Int /\ b >= 0 /\ b + (sn - end) \in bits
    BY <1>2, <1>3
  <2>3. b + (sn - end) \in 0 .. Window - 1
    BY <2>2
  <2>4. QED
    BY <2>2, <2>3, <1>1, WindowAssumption
<1>5. Slide(sn, end, bits) = kept \cup {Window - 1}
  BY DEF Slide
<1>6. Window - 1 \in 0 .. Window - 1
  BY WindowAssumption
<1> HIDE DEF kept
<1>7. Slide(sn, end, bits) \in SUBSET (0 .. Window - 1)
  BY <1>4, <1>5, <1>6
<1>8. QED
  BY <1>2, <1>5, <1>7

LEMMA InvInit == Init => Inv
<1>1. SUFFICES ASSUME Init PROVE Inv
  OBVIOUS
<1>2. sn_initial \in Sn /\ 0 \in Sn
  BY <1>1, SnInitialsAssumption, MaxSnAssumption DEF Init, Sn
<1>3. TypeOK
  BY <1>1, <1>2, WindowAssumption DEF Init, TypeOK, Idle
<1>4. HeldCurrent
  BY <1>1 DEF Init, HeldCurrent, Idle
<1>5. WindowPlace /\ WindowExact /\ DeliveredOnce /\ OnlyStaleRefused
  BY <1>1 DEF Init, WindowPlace, WindowExact, DeliveredOnce, OnlyStaleRefused
<1>6. UnusedAhead
  BY <1>1, <1>2 DEF Init, UnusedAhead, Sn
<1>7. QED
  BY <1>3, <1>4, <1>5, <1>6 DEF Inv

\* Until the gateway runs no worker holds a packet.
LEMMA InvInitAntiReplayStates == Inv /\ InitAntiReplayStates => Inv'
<1>1. SUFFICES ASSUME Inv, InitAntiReplayStates PROVE Inv'
  OBVIOUS
<1> USE WindowAssumption, MaxSnAssumption
<1>2. sn_initial \in Sn /\ sn_initial + Window - 1 \in Sn
  BY <1>1 DEF Inv, TypeOK, InitAntiReplayStates, TooCloseToEnd, Sn
<1>3. end_win_sn' = sn_initial + Window - 1
  BY <1>1, <1>2, Uint32Small DEF InitAntiReplayStates, FirstEnd
<1>4. TypeOK'
  BY <1>1, <1>2, <1>3 DEF Inv, TypeOK, InitAntiReplayStates, sender, history
<1>5. accepted = {}
  BY <1>1 DEF Inv, WindowPlace, InitAntiReplayStates
<1>6. HeldCurrent'
  BY <1>1 DEF Inv, HeldCurrent, InitAntiReplayStates
<1>7. WindowPlace'
  BY <1>1, <1>2, <1>3 DEF WindowPlace, InitAntiReplayStates, Sn
<1>8. WindowExact'
  BY <1>1, <1>5 DEF WindowExact, InitAntiReplayStates, history, Seen
<1>9. DeliveredOnce' /\ OnlyStaleRefused' /\ UnusedAhead'
  BY <1>1 DEF Inv, InitAntiReplayStates, sender, history, DeliveredOnce,
              OnlyStaleRefused, UnusedAhead
<1>10. QED
  BY <1>4, <1>6, <1>7, <1>8, <1>9 DEF Inv

LEMMA InvInitRefused == Inv /\ InitRefused => Inv'
<1>1. SUFFICES ASSUME Inv, InitRefused PROVE Inv'
  OBVIOUS
<1>2. TypeOK'
  BY <1>1 DEF Inv, TypeOK, InitRefused, sender, history
<1>3. HeldCurrent' /\ WindowPlace' /\ WindowExact'
  BY <1>1 DEF Inv, InitRefused, HeldCurrent, WindowPlace, WindowExact, history
<1>4. DeliveredOnce' /\ OnlyStaleRefused' /\ UnusedAhead'
  BY <1>1 DEF Inv, InitRefused, sender, history, DeliveredOnce,
              OnlyStaleRefused, UnusedAhead
<1>5. QED
  BY <1>2, <1>3, <1>4 DEF Inv

\* current_sn is advanced below the last number only, so it never wraps and
\* stays ahead of every number that was used.
LEMMA InvEncrypt ==
  ASSUME NEW flow \in Flows, Inv, Encrypt(flow)
  PROVE  Inv'
<1> USE MaxSnAssumption
<1>1. current_sn \in Sn /\ current_sn + 1 \in Sn
  BY DEF Inv, TypeOK, Encrypt, LastSn, Sn
<1>2. current_sn' = current_sn + 1
  BY <1>1, Uint32Small DEF Encrypt
<1>3. TypeOK'
  <2>1. net' \subseteq Packets
    BY <1>1 DEF Inv, TypeOK, Encrypt, Packets
  <2>2. uses' \in [Sn -> Nat]
    BY <1>1 DEF Inv, TypeOK, Encrypt
  <2>3. QED
    BY <1>1, <1>2, <2>1, <2>2 DEF Inv, TypeOK, Encrypt, history
<1>4. HeldCurrent' /\ WindowPlace' /\ WindowExact' /\ DeliveredOnce'
        /\ OnlyStaleRefused'
  BY DEF Inv, Encrypt, history, HeldCurrent, WindowPlace, WindowExact,
         DeliveredOnce, OnlyStaleRefused, Seen, Inside, Left
<1>5. UnusedAhead'
  <2>1. ASSUME NEW sn \in Sn
        PROVE uses'[sn] <= 1 /\ (sn >= current_sn' => uses'[sn] = 0)
    <3>1. uses[current_sn] = 0
      BY <1>1 DEF Inv, UnusedAhead, Sn
    <3>2. CASE sn = current_sn
      BY <1>1, <1>2, <3>1, <3>2 DEF Inv, TypeOK, Encrypt, Sn
    <3>3. CASE sn # current_sn
      <4>1. uses'[sn] = uses[sn]
        BY <1>1, <3>3 DEF Inv, TypeOK, Encrypt
      <4>2. sn >= current_sn' => sn >= current_sn
        BY <1>1, <1>2 DEF Sn
      <4>3. QED
        BY <4>1, <4>2 DEF Inv, UnusedAhead
    <3>4. QED
      BY <3>2, <3>3
  <2>2. current_sn' >= sn_initial'
    BY <1>1, <1>2 DEF Inv, TypeOK, UnusedAhead, Encrypt, Sn
  <2>3. \A p \in net' : p.sn >= sn_initial'
    BY DEF Inv, UnusedAhead, Encrypt
  <2>4. QED
    BY <2>1, <2>2, <2>3 DEF UnusedAhead
<1>6. QED
  BY <1>3, <1>4, <1>5 DEF Inv

LEMMA InvReceive ==
  ASSUME NEW c \in Cores, NEW p \in net, Inv, Receive(c, p)
  PROVE  Inv'
<1>1. p.sn \in Sn /\ p.flow \in Flows /\ p.sn >= sn_initial
  BY DEF Inv, TypeOK, Packets, UnusedAhead
<1>2. TypeOK'
  BY <1>1 DEF Inv, TypeOK, Receive, sender, history
<1>3. HeldCurrent'
  BY <1>1 DEF Inv, TypeOK, HeldCurrent, Receive
<1>4. WindowPlace' /\ WindowExact' /\ DeliveredOnce' /\ OnlyStaleRefused'
        /\ UnusedAhead'
  BY DEF Inv, Receive, sender, history, WindowPlace, WindowExact,
         DeliveredOnce, OnlyStaleRefused, UnusedAhead, Seen, Inside, Left
<1>5. QED
  BY <1>2, <1>3, <1>4 DEF Inv

\* What the invariant says of a worker that is about to decide.
LEMMA HeldFacts ==
  ASSUME NEW c \in Cores, Inv, held[c].worker = "check"
  PROVE  /\ phase = "run"
         /\ held[c].sn \in Sn /\ held[c].sn >= sn_initial
         /\ end_win_sn \in Sn /\ end_win_sn >= Window - 1
         /\ sn_initial \in Sn
         /\ held[c].end = end_win_sn
         /\ held[c].bits = bitmap
         /\ bitmap \in SUBSET (0 .. Window - 1)
         /\ BegWinSn(end_win_sn) = end_win_sn + 1 - Window
<1>1. phase = "run" /\ held[c].sn \in Sn /\ end_win_sn \in Sn
  BY DEF Inv, HeldCurrent, TypeOK
<1>2. end_win_sn >= Window - 1
  BY <1>1 DEF Inv, WindowPlace
<1>3. QED
  BY <1>1, <1>2, BegWinSnExact DEF Inv, HeldCurrent, TypeOK

\* With one worker for the rule, no other worker holds a packet when it is
\* done, so the values the others have read cannot become stale.
LEMMA DoneLeavesNobody ==
  ASSUME OneCorePerRule, NEW c \in Cores, Inv, held[c].worker = "check",
         Done(c)
  PROVE  /\ \A d \in Cores : held'[d].worker = "idle"
         /\ held' \in [Cores -> [sn : Sn, worker : {"idle", "check"}, end : Sn,
                                 bits : SUBSET (0 .. Window - 1)]]
<1>1. ASSUME NEW d \in Cores, d # c PROVE held[d].worker = "idle"
  <2>1. SUFFICES ASSUME held[d].worker = "check" PROVE FALSE
    BY DEF Inv, TypeOK
  <2>2. PICK f \in Flows : Rss[f] = c
    BY DEF Inv, HeldCurrent
  <2>3. PICK g \in Flows : Rss[g] = d
    BY <2>1 DEF Inv, HeldCurrent
  <2>4. QED
    BY <1>1, <2>2, <2>3 DEF OneCorePerRule
<1>2. Idle \in [sn : Sn, worker : {"idle", "check"}, end : Sn,
                bits : SUBSET (0 .. Window - 1)]
  BY MaxSnAssumption DEF Idle, Sn
<1>3. held' = [held EXCEPT ![c] = Idle] /\ Idle.worker = "idle"
  BY DEF Done, Idle
<1> HIDE DEF Idle
<1>4. QED
  BY <1>1, <1>2, <1>3 DEF Inv, TypeOK

LEMMA InvDrop ==
  ASSUME OneCorePerRule, NEW c \in Cores, Inv, Drop(c)
  PROVE  Inv'
<1> DEFINE sn == held[c].sn
<1>1. held[c].worker = "check"
  BY DEF Drop
<1>2. \A d \in Cores : held'[d].worker = "idle"
  BY <1>1, DoneLeavesNobody DEF Drop
<1>3. TypeOK'
  <2>1. refused' \subseteq Sn
    BY <1>1, HeldFacts DEF Drop, Inv, TypeOK
  <2>2. QED
    BY <1>1, <2>1, DoneLeavesNobody DEF Inv, TypeOK, Drop, sender
<1>4. HeldCurrent'
  BY <1>2 DEF HeldCurrent
<1>5. OnlyStaleRefused'
  <2>1. CASE sn \in accepted
    BY <2>1 DEF Inv, OnlyStaleRefused, Drop
  <2>2. CASE sn \notin accepted
    <3>1. sn < end_win_sn + 1 - Window
      BY <1>1, <2>2, HeldFacts DEF Inv, WindowExact, Drop, Left
    <3>2. end_win_sn \in accepted
      BY <1>1, <3>1, HeldFacts, WindowAssumption DEF Inv, WindowPlace, Sn
    <3>3. sn + Window <= end_win_sn
      BY <1>1, <3>1, HeldFacts, WindowAssumption DEF Sn
    <3>4. QED
      BY <2>2, <3>2, <3>3 DEF Inv, OnlyStaleRefused, Drop
  <2>3. QED
    BY <2>1, <2>2
<1>6. WindowPlace' /\ WindowExact' /\ DeliveredOnce' /\ UnusedAhead'
  BY DEF Inv, Drop, sender, WindowPlace, WindowExact, DeliveredOnce,
         UnusedAhead, Seen, Inside, Left
<1>7. QED
  BY <1>3, <1>4, <1>5, <1>6 DEF Inv

\* A number that was not accepted before is forwarded at most once.
LEMMA PassOnce ==
  ASSUME NEW sn \in Sn, Inv, sn \notin accepted, Pass(sn)
  PROVE  /\ DeliveredOnce'
         /\ OnlyStaleRefused'
         /\ accepted' \subseteq Sn /\ refused' \subseteq Sn
         /\ delivered' \in [Sn -> Nat]
<1>1. delivered \in [Sn -> Nat] /\ delivered[sn] = 0
  BY DEF Inv, TypeOK, DeliveredOnce
<1>2. delivered' \in [Sn -> Nat]
  BY <1>1 DEF Pass
<1>3. DeliveredOnce'
  BY <1>1 DEF Inv, DeliveredOnce, Pass
<1>4. QED
  BY <1>2, <1>3 DEF Inv, TypeOK, OnlyStaleRefused, Pass

LEMMA InvAcceptInside ==
  ASSUME OneCorePerRule, NEW c \in Cores, Inv, AcceptInside(c)
  PROVE  Inv'
<1> DEFINE sn == held[c].sn
           beg == end_win_sn + 1 - Window
<1>1. held[c].worker = "check"
  BY DEF AcceptInside
<1> USE WindowAssumption, MaxSnAssumption
<1>2. /\ sn \in Sn /\ end_win_sn \in Sn /\ phase = "run"
      /\ BegWinSn(end_win_sn) = beg
      /\ sn >= beg /\ sn <= end_win_sn /\ sn - beg \notin bitmap
      /\ bitmap' = bitmap \cup {sn - beg}
      /\ bitmap \in SUBSET (0 .. Window - 1)
  BY <1>1, HeldFacts DEF AcceptInside, Inside, Left, Seen, Sn
<1>3. sn \notin accepted
  BY <1>2 DEF Inv, WindowExact, Inside, Left, Seen, Sn
<1>4. /\ DeliveredOnce' /\ OnlyStaleRefused'
      /\ accepted' = accepted \cup {sn}
      /\ accepted' \subseteq Sn /\ refused' \subseteq Sn
      /\ delivered' \in [Sn -> Nat]
  BY <1>2, <1>3, PassOnce DEF AcceptInside, Pass
<1>5. \A d \in Cores : held'[d].worker = "idle"
  BY <1>1, DoneLeavesNobody DEF AcceptInside
<1>6. TypeOK'
  <2>1. sn - beg \in 0 .. Window - 1
    BY <1>2 DEF Sn
  <2>2. bitmap' \subseteq 0 .. Window - 1
    BY <1>2, <2>1
  <2>3. QED
    BY <1>1, <1>4, <2>2, DoneLeavesNobody DEF Inv, TypeOK, AcceptInside, sender
<1>7. HeldCurrent'
  BY <1>5 DEF HeldCurrent
<1>8. WindowPlace'
  BY <1>2, <1>4 DEF Inv, WindowPlace, AcceptInside
<1>9. WindowExact'
  <2>1. end_win_sn' = end_win_sn /\ phase' = phase
    BY DEF AcceptInside
  <2>2. \A x \in accepted' : x <= end_win_sn'
    BY <1>2, <1>4, <2>1 DEF Inv, WindowExact
  <2>3. ASSUME NEW x \in Sn, x >= beg, x <= end_win_sn
        PROVE  x \in accepted' <=> x - beg \in bitmap'
    <3>1. x \in accepted <=> x - beg \in bitmap
      BY <1>2, <2>3 DEF Inv, WindowExact, Inside, Left, Seen, Sn
    <3>2. x = sn <=> x - beg = sn - beg
      BY <1>2 DEF Sn
    <3>3. QED
      BY <1>2, <1>4, <3>1, <3>2
  <2>4. QED
    BY <1>2, <2>1, <2>2, <2>3 DEF WindowExact, Inside, Left, Seen, Sn
<1>10. UnusedAhead'
  BY DEF Inv, UnusedAhead, AcceptInside, sender
<1>11. QED
  BY <1>4, <1>6, <1>7, <1>8, <1>9, <1>10 DEF Inv

LEMMA InvAcceptRight ==
  ASSUME OneCorePerRule, NEW c \in Cores, Inv, AcceptRight(c)
  PROVE  Inv'
<1> DEFINE sn == held[c].sn
           beg == end_win_sn + 1 - Window
<1>1. held[c].worker = "check"
  BY DEF AcceptRight
<1> USE WindowAssumption, MaxSnAssumption
<1>2. /\ sn \in Sn /\ end_win_sn \in Sn /\ phase = "run"
      /\ BegWinSn(end_win_sn) = beg
      /\ end_win_sn >= Window - 1 /\ sn > end_win_sn
      /\ end_win_sn' = sn
      /\ bitmap' = Slide(sn, end_win_sn, bitmap)
      /\ bitmap \in SUBSET (0 .. Window - 1)
  BY <1>1, HeldFacts DEF AcceptRight, Inside, Left, Sn
<1>3. \A x \in accepted : x \in Sn /\ x <= end_win_sn
  BY <1>2 DEF Inv, TypeOK, WindowExact
<1>4. sn \notin accepted
  BY <1>2, <1>3 DEF Sn
<1>5. /\ DeliveredOnce' /\ OnlyStaleRefused'
      /\ accepted' = accepted \cup {sn}
      /\ accepted' \subseteq Sn /\ refused' \subseteq Sn
      /\ delivered' \in [Sn -> Nat]
  BY <1>2, <1>4, PassOnce DEF AcceptRight, Pass
<1>6. \A d \in Cores : held'[d].worker = "idle"
  BY <1>1, DoneLeavesNobody DEF AcceptRight
<1>7. TypeOK'
  <2>1. bitmap' \subseteq 0 .. Window - 1
    BY <1>2, SlideExact
  <2>2. QED
    BY <1>1, <1>2, <1>5, <2>1, DoneLeavesNobody
    DEF Inv, TypeOK, AcceptRight, sender
<1>8. HeldCurrent'
  BY <1>6 DEF HeldCurrent
<1>9. WindowPlace'
  <2>1. end_win_sn' >= Window - 1
    BY <1>2 DEF Sn
  <2>2. QED
    BY <1>2, <1>5, <2>1 DEF WindowPlace, AcceptRight
<1>10. WindowExact'
  <2>1. \A x \in accepted' : x <= end_win_sn'
    BY <1>2, <1>3, <1>5 DEF Sn
  <2>2. BegWinSn(end_win_sn') = sn + 1 - Window
    <3>1. sn >= Window - 1
      BY <1>2 DEF Sn
    <3>2. QED
      BY <1>2, <3>1, BegWinSnExact
  <2>3. ASSUME NEW x \in Sn, x >= sn + 1 - Window, x <= sn
        PROVE  x \in accepted' <=> x - (sn + 1 - Window) \in bitmap'
    <3> DEFINE b == x - (sn + 1 - Window)
    <3>1. b \in Int /\ b >= 0 /\ (b = Window - 1 <=> x = sn)
            /\ b + (sn - end_win_sn) = x - beg
      BY <1>2, <2>3 DEF Sn
    <3>2. b \in bitmap' <=> x = sn \/ x - beg \in bitmap
      BY <1>2, <3>1, SlideExact
    <3>3. x \in accepted <=> x - beg \in bitmap
      <4>1. CASE x <= end_win_sn
        <5>1. x >= beg
          BY <1>2, <2>3 DEF Sn
        <5>2. QED
          BY <1>2, <4>1, <5>1 DEF Inv, WindowExact, Inside, Left, Seen, Sn
      <4>2. CASE ~ (x <= end_win_sn)
        <5>1. x - beg \notin 0 .. Window - 1
          BY <1>2, <4>2 DEF Sn
        <5>2. QED
          BY <1>2, <1>3, <4>2, <5>1
      <4>3. QED
        BY <4>1, <4>2
    <3>4. QED
      BY <1>5, <3>2, <3>3
  <2>4. QED
    BY <1>2, <2>1, <2>2, <2>3 DEF WindowExact, Inside, Left, Seen, Sn
<1>11. UnusedAhead'
  BY DEF Inv, UnusedAhead, AcceptRight, sender
<1>12. QED
  BY <1>5, <1>7, <1>8, <1>9, <1>10, <1>11 DEF Inv

LEMMA InvStutter == Inv /\ UNCHANGED vars => Inv'
<1>1. SUFFICES ASSUME Inv, UNCHANGED vars PROVE Inv'
  OBVIOUS
<1>2. TypeOK'
  BY <1>1 DEF Inv, TypeOK, vars
<1>3. HeldCurrent' /\ WindowPlace' /\ WindowExact'
  BY <1>1 DEF Inv, HeldCurrent, WindowPlace, WindowExact, vars, Inside, Left,
              Seen
<1>4. DeliveredOnce' /\ OnlyStaleRefused' /\ UnusedAhead'
  BY <1>1 DEF Inv, DeliveredOnce, OnlyStaleRefused, UnusedAhead, vars
<1>5. QED
  BY <1>2, <1>3, <1>4 DEF Inv

\* The inductive invariant of the association when RSS keeps the packets of
\* the rule on one worker.
THEOREM ReplayInvariant ==
  ASSUME OneCorePerRule
  PROVE  Spec => []Inv
<1>1. Inv /\ [Next]_vars => Inv'
  <2>1. SUFFICES ASSUME Inv, Next PROVE Inv'
    BY InvStutter
  <2>2. CASE InitAntiReplayStates
    BY <2>1, <2>2, InvInitAntiReplayStates
  <2>3. CASE InitRefused
    BY <2>1, <2>3, InvInitRefused
  <2>4. CASE \E flow \in Flows : Encrypt(flow)
    BY <2>1, <2>4, InvEncrypt
  <2>5. ASSUME NEW c \in Cores, \E p \in net : Receive(c, p) PROVE Inv'
    BY <2>1, <2>5, InvReceive
  <2>6. ASSUME NEW c \in Cores, Drop(c) PROVE Inv'
    BY <2>1, <2>6, InvDrop
  <2>7. ASSUME NEW c \in Cores, AcceptInside(c) PROVE Inv'
    BY <2>1, <2>7, InvAcceptInside
  <2>8. ASSUME NEW c \in Cores, AcceptRight(c) PROVE Inv'
    BY <2>1, <2>8, InvAcceptRight
  <2>9. QED
    BY <2>1, <2>2, <2>3, <2>4, <2>5, <2>6, <2>7, <2>8 DEF Next
<1>2. QED
  BY <1>1, InvInit, PTL DEF Spec

\* No sequence number is forwarded twice (anti_replay), if the packets of a
\* rule are processed by one worker.
THEOREM NoReplayHolds ==
  ASSUME OneCorePerRule
  PROVE  Spec => []NoReplay
<1>1. Inv => NoReplay
  BY DEF Inv, DeliveredOnce, NoReplay
<1>2. QED
  BY <1>1, ReplayInvariant, PTL

\* anti_replay loses no packet that is delayed by less than the window.
THEOREM OnlyStaleRefusedHolds ==
  ASSUME OneCorePerRule
  PROVE  Spec => []OnlyStaleRefused
<1>1. Inv => OnlyStaleRefused
  BY DEF Inv
<1>2. QED
  BY <1>1, ReplayInvariant, PTL

\* The encrypting side alone: numbers from current_sn on are unused.
SenderInv ==
  /\ current_sn \in Sn
  /\ uses \in [Sn -> Nat]
  /\ \A sn \in Sn : /\ uses[sn] <= 1
                    /\ sn >= current_sn => uses[sn] = 0

LEMMA SenderInvEncrypt ==
  ASSUME NEW flow \in Flows, SenderInv, Encrypt(flow)
  PROVE  SenderInv'
<1>1. current_sn + 1 \in Sn
  BY MaxSnAssumption DEF SenderInv, Encrypt, LastSn, Sn
<1>2. current_sn' = current_sn + 1
  BY <1>1, Uint32Small DEF Encrypt
<1>3. uses' \in [Sn -> Nat]
  BY DEF SenderInv, Encrypt
<1>4. ASSUME NEW sn \in Sn
      PROVE  uses'[sn] <= 1 /\ (sn >= current_sn' => uses'[sn] = 0)
  <2>1. uses[current_sn] = 0
    BY MaxSnAssumption DEF SenderInv, Sn
  <2>2. CASE sn = current_sn
    BY <1>2, <2>1, <2>2, MaxSnAssumption DEF SenderInv, Encrypt, Sn
  <2>3. CASE sn # current_sn
    <3>1. uses'[sn] = uses[sn]
      BY <2>3 DEF SenderInv, Encrypt
    <3>2. sn >= current_sn' => sn >= current_sn
      BY <1>2, MaxSnAssumption DEF SenderInv, Sn
    <3>3. QED
      BY <3>1, <3>2 DEF SenderInv
  <2>4. QED
    BY <2>2, <2>3
<1>5. QED
  BY <1>1, <1>2, <1>3, <1>4 DEF SenderInv

\* No sequence number is used twice under one key (check_if_last_sn), however
\* the receiving workers share the rule.
THEOREM NonceUniqueHolds == Spec => []NonceUnique
<1>1. Init => SenderInv
  BY SnInitialsAssumption, MaxSnAssumption DEF Init, SenderInv, Sn
<1>2. SenderInv /\ [Next]_vars => SenderInv'
  <2>1. SUFFICES ASSUME SenderInv, [Next]_vars PROVE SenderInv'
    OBVIOUS
  <2>2. CASE \E flow \in Flows : Encrypt(flow)
    BY <2>1, <2>2, SenderInvEncrypt
  <2>3. CASE UNCHANGED <<current_sn, uses>>
    BY <2>1, <2>3 DEF SenderInv
  <2>4. QED
    BY <2>1, <2>2, <2>3
    DEF Next, vars, sender, InitAntiReplayStates, InitRefused, Receive, Drop,
        AcceptInside, AcceptRight
<1>3. SenderInv => NonceUnique
  BY DEF SenderInv, NonceUnique
<1>4. QED
  BY <1>1, <1>2, <1>3, PTL DEF Spec

-----------------------------------------------------------------------------
\* However many workers share the rule: what a worker has read is a window
\* that lies inside the range of the numbers.
WindowRange ==
  /\ phase = "run" => end_win_sn >= Window - 1
  /\ \A c \in Cores : held[c].worker = "check" =>
       phase = "run" /\ held[c].end >= Window - 1

\* A decision on any state that was read gives a state of the right shape.
LEMMA PassTypes ==
  ASSUME TypeOK, NEW sn \in Sn, Pass(sn)
  PROVE  accepted' \subseteq Sn /\ refused' \subseteq Sn /\ delivered' \in [Sn -> Nat]
<1>1. accepted' \subseteq Sn /\ refused' \subseteq Sn
  BY DEF TypeOK, Pass
<1>2. delivered \in [Sn -> Nat]
  BY DEF TypeOK
<1>3. [delivered EXCEPT ![sn] = @ + 1] \in [Sn -> Nat]
  BY <1>2
<1>4. QED
  BY <1>1, <1>2, <1>3 DEF Pass

LEMMA DoneTypes ==
  ASSUME TypeOK, WindowRange, NEW c \in Cores, Done(c)
  PROVE  /\ held' \in [Cores -> [sn : Sn, worker : {"idle", "check"}, end : Sn,
                                 bits : SUBSET (0 .. Window - 1)]]
         /\ \A d \in Cores : held'[d].worker = "check" => held'[d] = held[d]
<1>1. Idle \in [sn : Sn, worker : {"idle", "check"}, end : Sn,
                bits : SUBSET (0 .. Window - 1)] /\ Idle.worker = "idle"
  BY MaxSnAssumption DEF Idle, Sn
<1>2. QED
  BY <1>1 DEF TypeOK, Done

LEMMA DecisionTypes ==
  ASSUME TypeOK, WindowRange, NEW c \in Cores,
         Drop(c) \/ AcceptInside(c) \/ AcceptRight(c)
  PROVE  TypeOK' /\ WindowRange'
<1> DEFINE sn == held[c].sn
           end == held[c].end
           bits == held[c].bits
<1> USE WindowAssumption, MaxSnAssumption
<1>1. /\ sn \in Sn /\ end \in Sn /\ bits \in SUBSET (0 .. Window - 1)
      /\ phase = "run" /\ end >= Window - 1
  BY DEF TypeOK, WindowRange, Drop, AcceptInside, AcceptRight
<1>2. BegWinSn(end) = end + 1 - Window
  BY <1>1, BegWinSnExact
<1>3. Done(c) /\ phase' = phase /\ sn_initial' = sn_initial /\ current_sn' = current_sn
        /\ net' = net /\ uses' = uses
  BY DEF Drop, AcceptInside, AcceptRight, sender
<1>4. /\ held' \in [Cores -> [sn : Sn, worker : {"idle", "check"}, end : Sn,
                              bits : SUBSET (0 .. Window - 1)]]
      /\ \A d \in Cores : held'[d].worker = "check" => held'[d] = held[d]
  BY <1>3, DoneTypes
<1>5. /\ accepted' \subseteq Sn /\ refused' \subseteq Sn /\ delivered' \in [Sn -> Nat]
  <2>1. CASE Drop(c)
    BY <1>1, <2>1 DEF Drop, TypeOK
  <2>2. CASE Pass(sn)
    BY <1>1, <2>2, PassTypes
  <2>3. QED
    BY <2>1, <2>2 DEF AcceptInside, AcceptRight
<1>6. /\ end_win_sn' \in Sn /\ end_win_sn' >= Window - 1
      /\ bitmap' \subseteq 0 .. Window - 1
  <2>1. CASE Drop(c)
    BY <1>1, <2>1 DEF Drop, TypeOK, WindowRange
  <2>2. CASE AcceptInside(c)
    <3>1. bitmap' = bits \cup {sn - (end + 1 - Window)} /\ end_win_sn' = end_win_sn
      BY <1>2, <2>2 DEF AcceptInside
    <3>2. sn >= end + 1 - Window /\ sn <= end
      BY <1>1, <1>2, <2>2 DEF AcceptInside, Inside, Left, Sn
    <3>3. sn - (end + 1 - Window) \in 0 .. Window - 1
      BY <1>1, <3>2 DEF Sn
    <3>4. QED
      BY <1>1, <3>1, <3>3 DEF TypeOK, WindowRange
  <2>3. CASE AcceptRight(c)
    <3>1. bitmap' = Slide(sn, end, bits) /\ end_win_sn' = sn /\ sn > end
      BY <1>1, <1>2, <2>3 DEF AcceptRight, Inside, Left, Sn
    <3>2. bitmap' \subseteq 0 .. Window - 1
      BY <1>1, <3>1, SlideExact
    <3>3. QED
      BY <1>1, <3>1, <3>2 DEF Sn
  <2>4. QED
    BY <2>1, <2>2, <2>3
<1>7. TypeOK'
  BY <1>3, <1>4, <1>5, <1>6 DEF TypeOK
<1>8. WindowRange'
  BY <1>1, <1>3, <1>4, <1>6 DEF WindowRange
<1>9. QED
  BY <1>7, <1>8

\* Also when several workers decide on what they read before another wrote
\* (the hazard of handle_secured_packets_received), anti_replay computes no
\* index outside the bitmap and moves no window out of the range of the
\* sequence numbers: the race costs replays, never a wild shift.
THEOREM TypeCorrect == Spec => []TypeOK
<1> USE WindowAssumption, MaxSnAssumption
<1>1. Init => TypeOK /\ WindowRange
  BY InvInit DEF Inv, Init, WindowRange, Idle
<1>2. TypeOK /\ WindowRange /\ [Next]_vars => TypeOK' /\ WindowRange'
  <2>1. SUFFICES ASSUME TypeOK, WindowRange, [Next]_vars PROVE TypeOK' /\ WindowRange'
    OBVIOUS
  <2>2. CASE InitAntiReplayStates
    <3>1. sn_initial \in Sn /\ sn_initial + Window - 1 \in Sn
      BY <2>1, <2>2 DEF TypeOK, InitAntiReplayStates, TooCloseToEnd, Sn
    <3>2. end_win_sn' = sn_initial + Window - 1
      BY <2>2, <3>1, Uint32Small DEF InitAntiReplayStates, FirstEnd
    <3>3. end_win_sn' >= Window - 1
      BY <3>1, <3>2 DEF Sn
    <3>4. TypeOK'
      BY <2>1, <2>2, <3>1, <3>2 DEF TypeOK, InitAntiReplayStates, sender, history
    <3>5. WindowRange'
      BY <2>1, <2>2, <3>3 DEF WindowRange, InitAntiReplayStates
    <3>6. QED
      BY <3>4, <3>5
  <2>3. CASE InitRefused
    BY <2>1, <2>3 DEF TypeOK, WindowRange, InitRefused, sender, history
  <2>4. ASSUME NEW flow \in Flows, Encrypt(flow) PROVE TypeOK' /\ WindowRange'
    <3>1. current_sn + 1 \in Sn
      BY <2>1, <2>4 DEF TypeOK, Encrypt, LastSn, Sn
    <3>2. current_sn' = current_sn + 1
      BY <2>4, <3>1, Uint32Small DEF Encrypt
    <3>3. net' \subseteq Packets
      BY <2>1, <2>4 DEF TypeOK, Encrypt, Packets
    <3>4. uses' \in [Sn -> Nat]
      BY <2>1, <2>4 DEF TypeOK, Encrypt
    <3>5. QED
      BY <2>1, <2>4, <3>1, <3>2, <3>3, <3>4 DEF TypeOK, WindowRange, Encrypt, history
  <2>5. ASSUME NEW c \in Cores, NEW p \in net, Receive(c, p) PROVE TypeOK' /\ WindowRange'
    <3>1. p.sn \in Sn /\ phase = "run" /\ end_win_sn >= Window - 1
      BY <2>1, <2>5 DEF TypeOK, Packets, Receive, WindowRange
    <3>2. held' \in [Cores -> [sn : Sn, worker : {"idle", "check"}, end : Sn,
                               bits : SUBSET (0 .. Window - 1)]]
      BY <2>1, <2>5, <3>1 DEF TypeOK, Receive
    <3>3. \A d \in Cores : held'[d].end = end_win_sn \/ held'[d] = held[d]
      BY <2>1, <2>5 DEF TypeOK, Receive
    <3>4. TypeOK'
      BY <2>1, <2>5, <3>2 DEF TypeOK, Receive, sender, history
    <3>5. WindowRange'
      BY <2>1, <2>5, <3>1, <3>3 DEF WindowRange, Receive
    <3>6. QED
      BY <3>4, <3>5
  <2>6. ASSUME NEW c \in Cores, Drop(c) \/ AcceptInside(c) \/ AcceptRight(c)
        PROVE  TypeOK' /\ WindowRange'
    BY <2>1, <2>6, DecisionTypes
  <2>7. CASE UNCHANGED vars
    BY <2>1, <2>7 DEF TypeOK, WindowRange, vars
  <2>8. QED
    BY <2>1, <2>2, <2>3, <2>4, <2>5, <2>6, <2>7 DEF Next
<1>3. QED
  BY <1>1, <1>2, PTL DEF Spec
=============================================================================
