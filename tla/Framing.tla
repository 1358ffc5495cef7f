------------------------------ MODULE Framing ------------------------------
(***************************************************************************)
(* The frames on the serial line between the Pi and the RP2040             *)
(* (internal/ipc/framing.go, parser.go): COBS, a delimiter, length and     *)
(* checksum, and the parser that finds them again in a stream of bytes of  *)
(* which some were damaged, lost or added.                                 *)
(*                                                                         *)
(* Bytes are 0..Full, Full standing for 0xFF; type and sequence number are *)
(* part of the payload.                                                    *)
(***************************************************************************)
EXTENDS Integers, SequencesExt

CONSTANTS Full,        \* the largest byte, the code of a block without a zero after it
          Payloads,    \* what is sent
          MaxRaw,      \* MaxFrameRaw
          MaxCoded,    \* MaxFrameCOBS
          MaxFaults    \* bound: bytes damaged, lost or added while a frame is sent

Byte == 0..Full

ASSUME FramingAssumption ==
    /\ Full \in Nat \ {0, 1} /\ MaxRaw \in Nat /\ MaxFaults \in Nat
    /\ \A p \in Payloads : p \in Seq(Byte) /\ Len(p) + 2 <= MaxRaw /\ Len(p) <= Full
    \* MaxFrameCOBS leaves room for the codes and the delimiter.
    /\ MaxCoded = MaxRaw + (1 + MaxRaw \div (Full - 1)) + 1

VARIABLES wire,      \* bytes of the frame that are still to arrive
          message,   \* its payload
          intact,    \* history: no fault since the last delimiter that arrived as such
          faults,    \* history: bytes spoilt since the frame was sent
          buffer,    \* Parser.buf
          overflow,   \* Parser.overflow
          parsed,    \* frames the byte that just arrived has completed
          due        \* history: the frame that had to be completed by it

framingVars == <<wire, message, intact, faults, buffer, overflow, parsed, due>>

----------------------------------------------------------------------------
(* Framing.                                                                *)

\* The running check: its value after each byte.
Sums(bytes) ==
    LET sum[i \in 0..Len(bytes)] ==
            IF i = 0 THEN Full ELSE (2 * sum[i - 1] + bytes[i]) % (Full + 1)
    IN sum

Check(bytes) == Sums(bytes)[Len(bytes)]

\* Where a block from p on ends: at a zero, with the data, or when it is full.
EndsAt(bytes, p, r) == r = Full - 1 \/ p + r > Len(bytes) \/ bytes[p + r] = 0

\* The bytes that one code stands for.
Stretch(bytes, p) ==
    CHOOSE r \in 0..Full - 1 : EndsAt(bytes, p, r) /\ \A q \in 0..r - 1 : ~EndsAt(bytes, p, q)

Block(bytes, p) == <<Stretch(bytes, p) + 1>> \o SubSeq(bytes, p, p + Stretch(bytes, p) - 1)

\* The blocks from p on.  The next code takes the place of the zero that ended a
\* block; a full block ends at none.
Blocks(bytes) ==
    LET From[p \in 1..Len(bytes) + 1] ==
            LET next == p + Stretch(bytes, p)
            IN IF Stretch(bytes, p) = Full - 1 THEN Block(bytes, p) \o From[next]
               ELSE IF next > Len(bytes) THEN Block(bytes, p)
               ELSE Block(bytes, p) \o From[next + 1]
    IN From

Encoded(bytes) == Blocks(bytes)[1]

\* What the code bytes from i on lead to, in a set; {} when one is zero or points
\* past the end.
Unblocked(coded) ==
    LET From[i \in 1..Len(coded) + 1] ==
            LET next == i + coded[i]
                zero == IF coded[i] # Full /\ next <= Len(coded) THEN <<0>> ELSE <<>>
            IN IF i > Len(coded) THEN {<<>>}
               ELSE IF coded[i] = 0 \/ next > Len(coded) + 1 THEN {}
               ELSE {SubSeq(coded, i + 1, next - 1) \o zero \o rest : rest \in From[next]}
    IN From

Decoded(coded) == IF coded = <<>> THEN {} ELSE Unblocked(coded)[1]

Built(payload) ==
    LET body == <<Len(payload)>> \o payload IN Encoded(Append(body, Check(body))) \o <<0>>

Valid(raw) == Len(raw) >= 2 /\ Len(raw) = raw[1] + 2 /\ Last(raw) = Check(Front(raw))

Payload(raw) == SubSeq(raw, 2, Len(raw) - 1)

----------------------------------------------------------------------------
(* The parser.                                                             *)

\* Mutant: the flag outlives the frame that ran over.
Cleared_OverflowKept == buffer' = <<>> /\ UNCHANGED overflow

Cleared == buffer' = <<>> /\ overflow' = FALSE

Accumulate(b) ==
    /\ parsed' = {}
    /\ IF Len(buffer) >= MaxCoded THEN overflow' = TRUE /\ UNCHANGED buffer
       ELSE buffer' = Append(buffer, b) /\ UNCHANGED overflow

Delimit == /\ parsed' = IF overflow THEN {} ELSE {Payload(raw) : raw \in {d \in Decoded(buffer) : Valid(d)}}
           /\ Cleared

Feed(b) == IF b = 0 THEN Delimit ELSE Accumulate(b)

----------------------------------------------------------------------------
(* The line.                                                               *)

SendFrame(p) ==
    /\ wire = <<>> /\ wire' = Built(p) /\ message' = p
    /\ faults' = 0 /\ parsed' = {} /\ due' = {}
    /\ UNCHANGED <<intact, buffer, overflow>>

Arrive ==
    /\ wire # <<>> /\ wire' = Tail(wire) /\ Feed(Head(wire))
    /\ due' = IF Head(wire) = 0 /\ intact THEN {message} ELSE {}
    /\ intact' = (intact \/ Head(wire) = 0)
    /\ UNCHANGED <<message, faults>>

Spoil == wire # <<>> /\ faults < MaxFaults /\ faults' = faults + 1 /\ intact' = FALSE
         /\ due' = {} /\ UNCHANGED message

Damage(b) == Spoil /\ b # Head(wire) /\ wire' = Tail(wire) /\ Feed(b)
LoseByte == Spoil /\ wire' = Tail(wire) /\ parsed' = {} /\ UNCHANGED <<buffer, overflow>>
AddByte(b) == Spoil /\ UNCHANGED wire /\ Feed(b)

FramingInit ==
    /\ wire = <<>> /\ message = <<>> /\ intact = TRUE /\ faults = 0
    /\ buffer = <<>> /\ overflow = FALSE /\ parsed = {} /\ due = {}

FramingNext ==
    \/ \E p \in Payloads : SendFrame(p)
    \/ Arrive \/ LoseByte
    \/ \E b \in Byte : Damage(b) \/ AddByte(b)

FramingSpec == FramingInit /\ [][FramingNext]_framingVars

----------------------------------------------------------------------------
\* A frame that arrives whole after a delimiter that arrived is handed on as it
\* was sent, whatever the parser had accumulated before: what is damaged, lost
\* or added costs no frame that it does not touch.
WholeFramesArrive == due \subseteq parsed
=============================================================================
