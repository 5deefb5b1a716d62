--------------------------------- MODULE Ps2 ---------------------------------
(***************************************************************************)
(* gameos/ps2.hh: the 8042 controller, its initialisation and the two      *)
(* interrupt handlers that decode scancodes and mouse packets.  Both       *)
(* handlers run on one CPU with interrupts off.  What they submit is seen  *)
(* through the held flags of gameos/input.hh (module Input) and the sum of *)
(* the movements.                                                          *)
(*                                                                         *)
(* Bytes are the real ones.  The keyboard and the mouse are external: the  *)
(* keyboard sends one or two bytes per key change, the mouse three bytes   *)
(* per packet, the controller passes on one byte at a time.  A mouse byte  *)
(* carries its place in its packet, which the driver does not see.         *)
(***************************************************************************)
EXTENDS Integers, Sequences, FiniteSets, SequencesExt

CONSTANTS
    KeyCodes,       \* key -> [code, extended]: set 1 scancodes of known keys
    UnknownCodes,   \* scancodes without an input::Key
    Motions,        \* movements the mouse reports, [x, y, overflow]: nine bits, the sign in
                    \* the first byte
    MAX_BYTES,      \* bound on the bytes a device has not delivered
    MAX_PACKETS, MAX_LOST

ASSUME Ps2Assumption == \A d \in Motions : d \in [x : -256 .. 255, y : -256 .. 255, overflow : BOOLEAN]

\* Scancodes fit below the bit for "up", none of them with that bit is the prefix,
\* and each is that of one key.
ASSUME KeyCodesAssumption ==
    /\ \A k \in DOMAIN KeyCodes : KeyCodes[k] \in [code : 0 .. 127 \ {96}, extended : BOOLEAN]
    /\ \A k, l \in DOMAIN KeyCodes : KeyCodes[k] = KeyCodes[l] => k = l
    /\ \A code \in UnknownCodes : /\ code \in 0 .. 255 \ {224}
                                 /\ [code |-> code % 128, extended |-> FALSE] \notin {KeyCodes[k] : k \in DOMAIN KeyCodes}

VARIABLES
    setup,          \* the step of ps2::initialize, "ready" or "absent" after it
    keyboardOut, mouseOut,  \* bytes the devices will send
    keysDown, buttonDown, moved,    \* the devices' truth
    outputBuffer,   \* the controller's one byte, or EmptyBuffer
    pendingIrqs,    \* {1, 12}
    inMouseIsr,
    extended_pending, mouse_packet,
    heldKeys, heldButton, motion,   \* what was submitted to input
    packets, lost,  \* packets sent; mouse bytes lost or out of place
    \* Ghosts: how far the movements went beyond a signed byte, in units of 256; whether
    \* the driver is in step with the mouse; bytes in a row, 2 at most, that it read and
    \* that do not look like first ones.
    beyond, inStep, plainRun

ps2Vars == <<setup, keyboardOut, mouseOut, keysDown, buttonDown, moved, outputBuffer,
             pendingIrqs, inMouseIsr, extended_pending, mouse_packet, heldKeys,
             heldButton, motion, packets, lost, beyond, inStep, plainRun>>
deviceVars == <<keyboardOut, mouseOut, keysDown, buttonDown, moved, packets, beyond>>
inputVars  == <<heldKeys, heldButton, motion>>
stepVars   == <<lost, inStep, plainRun>>

EXTENDED_PREFIX    == 224       \* 0xE0
KEY_UP_RANGE_START == 128
KEY_EXTENDED_OFFSET == 128
ACK                == 250       \* 0xFA
MOUSE_PACKET_SIZE  == 3
LEFT_BUTTON == 1
ALWAYS_ONE  == 8
X_SIGN      == 16
Y_SIGN      == 32
X_OVERFLOW  == 64

has_flag(byte, flag) == (byte \div flag) % 2 = 1
KnownKeys   == DOMAIN KeyCodes
EmptyBuffer == [byte |-> 0, place |-> 0, aux |-> FALSE, full |-> FALSE]
SignedByte(b) == IF b >= 128 THEN b - 256 ELSE b
-----------------------------------------------------------------------------
\* ps2::initialize, with interrupts off: each command may time out, and then
\* nothing after it is done.
SetupSteps == <<"enable_second_port", "read_config", "write_config", "enable_reporting", "ack">>

StepAfter(s) ==
    IF s = "ack" THEN "ready" ELSE SetupSteps[SelectInSeq(SetupSteps, LAMBDA t : t = s) + 1]

initialize_step ==
    /\ setup \in ToSet(SetupSteps)
    /\ setup' = StepAfter(setup)
    /\ UNCHANGED <<deviceVars, outputBuffer, pendingIrqs, inMouseIsr, extended_pending,
                   mouse_packet, inputVars, stepVars>>

\* A timeout ends it; one while waiting for the ACK is ignored, and an ACK that
\* comes later is a mouse byte like any other.
initialize_timeout ==
    /\ setup \in ToSet(SetupSteps)
    /\ setup' = IF setup = "ack" THEN "ready" ELSE "absent"
    /\ IF setup = "ack"
       THEN mouseOut' = <<[byte |-> ACK, place |-> 0]>> /\ lost' = 1 /\ inStep' = "no"
       ELSE UNCHANGED <<mouseOut, lost, inStep>>
    /\ UNCHANGED <<keyboardOut, keysDown, buttonDown, moved, packets, outputBuffer, pendingIrqs,
                   inMouseIsr, extended_pending, mouse_packet, inputVars, beyond, plainRun>>
-----------------------------------------------------------------------------
\* The devices.  The keyboard is quiet until initialize is done.
press_or_release(k) ==
    /\ setup = "ready" /\ Len(keyboardOut) + 2 <= MAX_BYTES
    /\ LET down == k \notin keysDown
           code == KeyCodes[k].code + (IF down THEN 0 ELSE KEY_UP_RANGE_START)
       IN /\ keysDown' = IF down THEN keysDown \cup {k} ELSE keysDown \ {k}
          /\ keyboardOut' = keyboardOut \o (IF KeyCodes[k].extended THEN <<EXTENDED_PREFIX>> ELSE <<>>)
                                        \o <<code>>
    /\ UNCHANGED <<setup, mouseOut, buttonDown, moved, packets, beyond, outputBuffer, pendingIrqs,
                   inMouseIsr, extended_pending, mouse_packet, inputVars, stepVars>>

\* A key the kernel has no name for, and the repetition of one held down.
other_key_byte(code) ==
    /\ setup = "ready" /\ Len(keyboardOut) < MAX_BYTES
    /\ keyboardOut' = Append(keyboardOut, code)
    /\ UNCHANGED <<setup, mouseOut, keysDown, buttonDown, moved, packets, beyond, outputBuffer,
                   pendingIrqs, inMouseIsr, extended_pending, mouse_packet, inputVars, stepVars>>

repeat_key(k) ==
    /\ k \in keysDown /\ ~KeyCodes[k].extended
    /\ other_key_byte(KeyCodes[k].code)

MouseByte(b, place) == [byte |-> b, place |-> place]

FirstByte(down, d) ==
    ALWAYS_ONE + (IF down THEN LEFT_BUTTON ELSE 0) + (IF d.x < 0 THEN X_SIGN ELSE 0)
               + (IF d.y < 0 THEN Y_SIGN ELSE 0) + (IF d.overflow THEN X_OVERFLOW ELSE 0)

\* What a movement has beyond a signed byte, in units of 256.
Beyond(x) == IF x > 127 THEN 1 ELSE IF x < -128 THEN -1 ELSE 0

\* A packet with the button's state and a movement; none when it overflows.
mouse_moves(down, d) ==
    /\ setup = "ready" /\ mouseOut = <<>> /\ packets < MAX_PACKETS
    /\ mouseOut' = <<MouseByte(FirstByte(down, d), 1), MouseByte(d.x % 256, 2), MouseByte(d.y % 256, 3)>>
    /\ buttonDown' = down
    /\ moved' = IF d.overflow THEN moved ELSE moved + d.x
    /\ beyond' = IF d.overflow THEN beyond ELSE beyond + Beyond(d.x)
    /\ packets' = packets + 1
    /\ UNCHANGED <<setup, keyboardOut, keysDown, outputBuffer, pendingIrqs, inMouseIsr,
                   extended_pending, mouse_packet, inputVars, stepVars>>

lose_mouse_byte ==
    /\ mouseOut # <<>> /\ lost < MAX_LOST
    /\ mouseOut' = Tail(mouseOut)
    /\ lost' = lost + 1
    /\ inStep' = "no"
    /\ UNCHANGED <<setup, keyboardOut, keysDown, buttonDown, moved, packets, beyond, outputBuffer,
                   pendingIrqs, inMouseIsr, extended_pending, mouse_packet, inputVars, plainRun>>

\* The controller passes a byte on when its buffer is free, with an interrupt.
deliver(aux) ==
    /\ setup = "ready" /\ ~outputBuffer.full
    /\ IF aux
       THEN /\ mouseOut # <<>>
            /\ outputBuffer' = [byte |-> Head(mouseOut).byte, place |-> Head(mouseOut).place,
                                 aux |-> TRUE, full |-> TRUE]
            /\ mouseOut' = Tail(mouseOut) /\ UNCHANGED keyboardOut
       ELSE /\ keyboardOut # <<>>
            /\ outputBuffer' = [EmptyBuffer EXCEPT !.byte = Head(keyboardOut), !.full = TRUE]
            /\ keyboardOut' = Tail(keyboardOut) /\ UNCHANGED mouseOut
    /\ pendingIrqs' = pendingIrqs \cup {IF aux THEN 12 ELSE 1}
    /\ UNCHANGED <<setup, keysDown, buttonDown, moved, packets, beyond, inMouseIsr, extended_pending,
                   mouse_packet, inputVars, stepVars>>
-----------------------------------------------------------------------------
\* The scancode of a byte other than the prefix, and the key it stands for.
Decoded(byte) ==
    (IF byte >= KEY_UP_RANGE_START THEN byte - KEY_UP_RANGE_START ELSE byte)
    + (IF extended_pending THEN KEY_EXTENDED_OFFSET ELSE 0)

Scancode(k) == KeyCodes[k].code + (IF KeyCodes[k].extended THEN KEY_EXTENDED_OFFSET ELSE 0)

to_input_key(scancode) == {k \in KnownKeys : Scancode(k) = scancode}

isr_handle_ps2_keyboard ==
    /\ 1 \in pendingIrqs /\ ~inMouseIsr
    /\ LET byte == outputBuffer.byte
           keys == to_input_key(Decoded(byte))
           up   == byte >= KEY_UP_RANGE_START
       IN IF byte = EXTENDED_PREFIX
          THEN extended_pending' = TRUE /\ UNCHANGED heldKeys
          ELSE /\ extended_pending' = FALSE
               /\ heldKeys' = IF up THEN heldKeys \ keys ELSE heldKeys \cup keys
    /\ pendingIrqs' = pendingIrqs \ {1}
    /\ outputBuffer' = EmptyBuffer
    /\ UNCHANGED <<setup, deviceVars, inMouseIsr, mouse_packet, heldButton, motion, stepVars>>

\* Any byte begins a packet.
StartsPacket_Any(byte) == TRUE

\* Only a byte with the bit that is always set may begin a packet.
StartsPacket(byte) == has_flag(byte, ALWAYS_ONE)

\* The movement that the driver reads in a whole packet: the low byte as a signed one,
\* whatever the sign in the first (the y axis works alike and is left out).
MotionOf(bytes) ==
    IF has_flag(bytes[1].byte, X_OVERFLOW) THEN 0 ELSE SignedByte(bytes[2].byte)

process_mouse_byte(b) ==
    IF mouse_packet = <<>> /\ ~StartsPacket(b.byte)
    THEN UNCHANGED <<mouse_packet, inputVars>>
    ELSE LET bytes == Append(mouse_packet, b)
         IN IF Len(bytes) < MOUSE_PACKET_SIZE
            THEN mouse_packet' = bytes /\ UNCHANGED inputVars
            ELSE /\ mouse_packet' = <<>>
                 /\ heldButton' = has_flag(bytes[1].byte, LEFT_BUTTON)
                 /\ motion' = motion + MotionOf(bytes)
                 /\ UNCHANGED heldKeys

\* isr_handle_ps2_mouse loops while the controller holds a mouse byte; a byte
\* may arrive during the loop, its interrupt then finds nothing to do.
mouse_isr_enter ==
    /\ 12 \in pendingIrqs /\ ~inMouseIsr
    /\ inMouseIsr' = TRUE
    /\ pendingIrqs' = pendingIrqs \ {12}
    /\ UNCHANGED <<setup, deviceVars, outputBuffer, extended_pending, mouse_packet, inputVars, stepVars>>

\* The status check: a byte is there and the mouse's.
HasMouseByte == outputBuffer.full /\ outputBuffer.aux

\* The driver is in step from the end of a packet on whose movement bytes did not look
\* like first ones and that it read without a gap, until a byte is lost; with the next
\* packet it knows the button again.
Plain(b) == ~has_flag(b, ALWAYS_ONE)
PlainRunAfter(b) == IF Plain(b) THEN (IF plainRun = 0 THEN 1 ELSE 2) ELSE 0
StepAfterByte(b, place) ==
    CASE inStep = "no" /\ place = 3 /\ PlainRunAfter(b) = 2 /\ (mouseOut = <<>> \/ Head(mouseOut).place = 1)
             -> "again"
      [] inStep = "again" /\ place = 3 -> "yes"
      [] OTHER -> inStep

mouse_isr_read ==
    /\ inMouseIsr /\ HasMouseByte
    /\ process_mouse_byte(MouseByte(outputBuffer.byte, outputBuffer.place))
    /\ outputBuffer' = EmptyBuffer
    /\ inStep' = StepAfterByte(outputBuffer.byte, outputBuffer.place)
    /\ plainRun' = PlainRunAfter(outputBuffer.byte)
    /\ UNCHANGED <<setup, deviceVars, pendingIrqs, inMouseIsr, extended_pending, lost>>

mouse_isr_leave ==
    /\ inMouseIsr /\ ~HasMouseByte
    /\ inMouseIsr' = FALSE
    /\ UNCHANGED <<setup, deviceVars, outputBuffer, pendingIrqs, extended_pending, mouse_packet,
                   inputVars, stepVars>>

Ps2Init ==
    /\ setup = "enable_second_port"
    /\ keyboardOut = <<>> /\ mouseOut = <<>> /\ keysDown = {} /\ buttonDown = FALSE /\ moved = 0
    /\ outputBuffer = EmptyBuffer /\ pendingIrqs = {} /\ inMouseIsr = FALSE
    /\ extended_pending = FALSE /\ mouse_packet = <<>>
    /\ heldKeys = {} /\ heldButton = FALSE /\ motion = 0
    /\ packets = 0 /\ lost = 0 /\ beyond = 0 /\ inStep = "yes" /\ plainRun = 0

Ps2Next ==
    \/ initialize_step \/ initialize_timeout
    \/ \E k \in KnownKeys : press_or_release(k) \/ repeat_key(k)
    \/ \E code \in UnknownCodes : other_key_byte(code)
    \/ \E down \in BOOLEAN, d \in Motions : mouse_moves(down, d)
    \/ lose_mouse_byte
    \/ \E aux \in BOOLEAN : deliver(aux)
    \/ isr_handle_ps2_keyboard
    \/ mouse_isr_enter \/ mouse_isr_read \/ mouse_isr_leave

Ps2Spec == Ps2Init /\ [][Ps2Next]_ps2Vars
-----------------------------------------------------------------------------
\* A byte in the buffer has its interrupt pending or is being read by the mouse
\* handler: neither handler takes a byte of the other device and leaves its own
\* behind, whichever order they run in.
Ps2TypeOK ==
    /\ Len(mouse_packet) < MOUSE_PACKET_SIZE
    /\ outputBuffer.full /\ ~outputBuffer.aux => 1 \in pendingIrqs
    /\ outputBuffer.full /\ outputBuffer.aux => 12 \in pendingIrqs \/ inMouseIsr
    /\ 1 \in pendingIrqs => outputBuffer.full /\ ~outputBuffer.aux

NoKeyByte   == keyboardOut = <<>> /\ ~(outputBuffer.full /\ ~outputBuffer.aux)
NoMouseByte == mouseOut = <<>> /\ ~HasMouseByte

\* Once every key byte is handled, the keys held are the keys down, although
\* plain and extended keys share codes and unknown ones come in between.
HeldFollowsKeyboard == NoKeyByte => heldKeys = keysDown

\* Once every mouse byte is handled, the button is the mouse's while the driver is in
\* step, which a lost byte ends and later packets restore.  If no byte was ever lost, the
\* movement is the mouse's less 256 for each movement that a signed byte does not hold:
\* the driver reads no sign bit, and takes 200 to the right for 56 to the left.
MouseFollowsDevice ==
    NoMouseByte => /\ inStep = "yes" => heldButton = buttonDown
                   /\ lost = 0 => inStep = "yes" /\ motion = moved - 256 * beyond

\* A lost byte, or an ACK that came late, does not shift all later packets: in step, the
\* driver has the bytes of one packet from its first on, and it comes into step with
\* any packet that reaches it whole and whose movement bytes do not look like first ones.
PacketsRealign ==
    inStep # "no" => \A i \in DOMAIN mouse_packet : mouse_packet[i].place = i

\* The invariant of the keyboard and mouse drivers: what is held follows the devices
\* through two handlers that share one buffer, and a lost byte passes.
Ps2Sound ==
    /\ Ps2TypeOK
    /\ HeldFollowsKeyboard
    /\ MouseFollowsDevice
    /\ PacketsRealign
=============================================================================
