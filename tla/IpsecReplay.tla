---------------------------- MODULE IpsecReplay ----------------------------
(***************************************************************************)
(* Sequence numbers of one security association of ipsec_security_gw with  *)
(* sw_sn_inc_enable and sw_antireplay: the encrypting gateway numbers its  *)
(* packets (flow_encrypt.c), a network loses, duplicates, delays and       *)
(* reorders them, and the decrypting gateway keeps one antireplay_state    *)
(* for the rule (flow_decrypt.c).  A worker reads the state, decides and   *)
(* writes it back without a lock; which worker gets a packet is the choice *)
(* of RSS, a hash of the addresses of the packet.                          *)
(***************************************************************************)
EXTENDS Integers

CONSTANTS
  Window,      \* WINDOW_SIZE
  MaxSn,       \* UINT32_MAX: sequence numbers are added modulo MaxSn + 1
  SnInitials,  \* the values of sn-initial in the configuration files
  Flows,       \* the address pairs RSS can tell apart inside one association
  Cores,       \* the worker cores that process packets
  Rss          \* the worker that RSS chooses for a flow

ASSUME WindowAssumption == Window \in Nat \ {0}
ASSUME MaxSnAssumption == MaxSn \in Nat
ASSUME SnInitialsAssumption == SnInitials \subseteq 0 .. MaxSn
ASSUME RssAssumption == Rss \in [Flows -> Cores]

VARIABLES
  sn_initial,  \* app_cfg->sn_initial, the same on both gateways
  phase,       \* of the decrypting gateway: "start", "run" or "exit"
  current_sn,  \* encrypt_rules[rule_idx].current_sn
  net,         \* every packet that was sent: any of them may arrive, at any
               \* time, any number of times, or never
  uses,        \* how many packets were given each sequence number
  end_win_sn,  \* antireplay_states[rule_idx].end_win_sn
  bitmap,      \* antireplay_states[rule_idx].bitmap, the set of its 1 bits
  held,        \* the packet each worker is looking at, with what it has read
  accepted,    \* the sequence numbers anti_replay let pass
  refused,     \* those it dropped although it had never let them pass
  delivered    \* how many packets with each number were forwarded

vars == <<sn_initial, phase, current_sn, net, uses, end_win_sn, bitmap,
          held, accepted, refused, delivered>>

sender == <<current_sn, net, uses>>
history == <<accepted, refused, delivered>>

Sn == 0 .. MaxSn
Packets == [sn : Sn, flow : Flows]
Idle == [sn |-> 0, worker |-> "idle", end |-> 0, bits |-> {}]

Uint32(x) == x % (MaxSn + 1)

Init ==
  /\ sn_initial \in SnInitials
  /\ phase = "start"
  /\ current_sn = sn_initial
  /\ net = {}
  /\ uses = [sn \in Sn |-> 0]
  /\ end_win_sn = 0
  /\ bitmap = {}
  /\ held = [c \in Cores |-> Idle]
  /\ accepted = {}
  /\ refused = {}
  /\ delivered = [sn \in Sn |-> 0]

-----------------------------------------------------------------------------
\* init_anti_replay_states: the first window starts at the initial number.

TooCloseToEnd(sn) == MaxSn - sn < Window

\* Mutant: the window starts one number late.
FirstEndLate(sn) == Uint32(sn + Window)
FirstEnd(sn) == Uint32(sn + Window - 1)

InitAntiReplayStates ==
  /\ phase = "start"
  /\ ~ TooCloseToEnd(sn_initial)
  /\ end_win_sn' = FirstEnd(sn_initial)
  /\ bitmap' = {}
  /\ phase' = "run"
  /\ UNCHANGED <<sn_initial, sender, held, history>>

InitRefused ==
  /\ phase = "start"
  /\ TooCloseToEnd(sn_initial)
  /\ phase' = "exit"
  /\ UNCHANGED <<sn_initial, sender, end_win_sn, bitmap, held, history>>

-----------------------------------------------------------------------------
\* handle_unsecured_packets_received: check_if_last_sn, then the packet gets
\* the current number and the number is advanced.  A packet that has no room
\* for the headers is dropped before the number is touched.  An encryption
\* rule matches one pair of addresses and ports, so one worker numbers its
\* packets; a peer that puts several flows into one association (the policies
\* come from an IKE daemon) numbers them in one sequence as well.

\* Mutant: the numbers are used up and start again.
LastSnUnchecked(sn) == FALSE
LastSn(sn) == sn = MaxSn

Encrypt(flow) ==
  /\ ~ LastSn(current_sn)
  /\ net' = net \cup {[sn |-> current_sn, flow |-> flow]}
  /\ uses' = [uses EXCEPT ![current_sn] = @ + 1]
  /\ current_sn' = Uint32(current_sn + 1)
  /\ UNCHANGED <<sn_initial, phase, end_win_sn, bitmap, held, history>>

-----------------------------------------------------------------------------
\* anti_replay on the values (end, bits) a worker has read.

BegWinSn(end) == Uint32(end + 1 - Window)

Left(sn, end) == sn < BegWinSn(end)
Inside(sn, end) == ~ Left(sn, end) /\ sn <= end
Seen(sn, end, bits) == sn - BegWinSn(end) \in bits

ShiftRight(bits, diff) == {b - diff : b \in {x \in bits : x >= diff}}

\* Mutant: moving the window forgets what was received.
SlideForgets(sn, end, bits) == {Window - 1}
\* The bitmap after the window was moved so that sn is its last number.
Slide(sn, end, bits) ==
  (IF sn - end >= Window THEN {} ELSE ShiftRight(bits, sn - end))
    \cup {Window - 1}

\* handle_secured_packets_received on worker c takes a packet from its queue
\* and reads the state of the rule.
Receive(c, p) ==
  /\ phase = "run"
  /\ held[c].worker = "idle"
  /\ Rss[p.flow] = c
  /\ held' = [held EXCEPT ![c] = [sn |-> p.sn, worker |-> "check",
                                  end |-> end_win_sn, bits |-> bitmap]]
  /\ UNCHANGED <<sn_initial, phase, sender, end_win_sn, bitmap, history>>

\* A packet that passed is decapsulated, which may fail after its number was
\* used up, and is forwarded.
Pass(sn) ==
  /\ accepted' = accepted \cup {sn}
  /\ delivered' \in {delivered, [delivered EXCEPT ![sn] = @ + 1]}
  /\ UNCHANGED refused

Done(c) == held' = [held EXCEPT ![c] = Idle]

Drop(c) ==
  LET h == held[c] IN
  /\ h.worker = "check"
  /\ \/ Left(h.sn, h.end)
     \/ Inside(h.sn, h.end) /\ Seen(h.sn, h.end, h.bits)
  /\ refused' = IF h.sn \in accepted THEN refused ELSE refused \cup {h.sn}
  /\ Done(c)
  /\ UNCHANGED <<sn_initial, phase, sender, end_win_sn, bitmap, accepted,
                 delivered>>

AcceptInside(c) ==
  LET h == held[c] IN
  /\ h.worker = "check"
  /\ Inside(h.sn, h.end)
  /\ ~ Seen(h.sn, h.end, h.bits)
  /\ bitmap' = h.bits \cup {h.sn - BegWinSn(h.end)}
  /\ Pass(h.sn)
  /\ Done(c)
  /\ UNCHANGED <<sn_initial, phase, sender, end_win_sn>>

AcceptRight(c) ==
  LET h == held[c] IN
  /\ h.worker = "check"
  /\ ~ Left(h.sn, h.end)
  /\ ~ Inside(h.sn, h.end)
  /\ bitmap' = Slide(h.sn, h.end, h.bits)
  /\ end_win_sn' = h.sn
  /\ Pass(h.sn)
  /\ Done(c)
  /\ UNCHANGED <<sn_initial, phase, sender>>

-----------------------------------------------------------------------------
Next ==
  \/ InitAntiReplayStates
  \/ InitRefused
  \/ \E flow \in Flows : Encrypt(flow)
  \/ \E c \in Cores :
       \/ \E p \in net : Receive(c, p)
       \/ Drop(c)
       \/ AcceptInside(c)
       \/ AcceptRight(c)

Spec == Init /\ [][Next]_vars

-----------------------------------------------------------------------------
\* The window and every number stay within the width of a sequence number.
TypeOK ==
  /\ sn_initial \in Sn
  /\ phase \in {"start", "run", "exit"}
  /\ current_sn \in Sn
  /\ net \subseteq Packets
  /\ uses \in [Sn -> Nat]
  /\ end_win_sn \in Sn
  /\ bitmap \subseteq 0 .. Window - 1
  /\ held \in [Cores -> [sn : Sn, worker : {"idle", "check"}, end : Sn,
                         bits : SUBSET (0 .. Window - 1)]]
  /\ accepted \subseteq Sn
  /\ refused \subseteq Sn
  /\ delivered \in [Sn -> Nat]

\* No sequence number is forwarded twice, whatever the network repeats or
\* reorders: what anti_replay (flow_decrypt.c) is for.
NoReplay == \A sn \in Sn : delivered[sn] <= 1

\* anti_replay drops a packet it has not seen only when it is too old to be
\* remembered: a number at least Window higher was accepted before.  So a
\* packet that is delayed by less than the window is never lost, from the
\* first number (init_anti_replay_states) to the last.
OnlyStaleRefused ==
  \A sn \in refused : \E a \in accepted : sn + Window <= a

\* The encrypting gateway never uses a number twice under one key: it stops
\* at UINT32_MAX (check_if_last_sn) instead of starting again.
NonceUnique == \A sn \in Sn : uses[sn] <= 1

\* The bits of the window are exactly the accepted numbers in it, and nothing
\* right of the window was ever accepted.
WindowExact ==
  phase = "run" =>
    /\ \A sn \in accepted : sn <= end_win_sn
    /\ \A sn \in Sn : Inside(sn, end_win_sn) =>
         (sn \in accepted <=> Seen(sn, end_win_sn, bitmap))

\* The claim of the comment in handle_secured_packets_received, "same rule is
\* processed by the same core".
OneCorePerRule == \A f, g \in Flows : Rss[f] = Rss[g]
=============================================================================
