----------------------------- MODULE RunLength -----------------------------
(***************************************************************************)
(* The run-length coding of week3/rle: main() of rlenc.c encodes a file as *)
(* pairs of a count and a value, and rl_decode() (rl_decode.s) decodes     *)
(* them into memory whose size it adds up first, in an 8-bit register and  *)
(* its carry.  A byte has BYTE values; in the source, 256.                 *)
(***************************************************************************)
EXTENDS Integers, Sequences

CONSTANTS BYTE, Texts  \* Texts: the files that are encoded

VARIABLES text, read,          \* the file, and how much of it has been read
          lastch, count,       \* of the encoder
          encoded,
          esi, size, buffer,   \* of rl_decode(): its place in the data, %ebx in
                               \* the first loop, what has been written
          left,                \* %bh in the second loop: how often to write
          pc

vars == <<text, read, lastch, count, encoded, esi, size, buffer, left, pc>>

Init == /\ text \in Texts
        /\ read = 0 /\ lastch = 0 /\ count = 0
        /\ encoded = <<>>
        /\ esi = 0 /\ size = 0 /\ buffer = <<>> /\ left = 0
        /\ pc = "first"

Decoder == <<esi, size, buffer, left>>

\* What fgetc() returns next.
nextch == text[read + 1]

(* rlenc: the first character; an empty file is encoded as an empty one    *)
First ==
    /\ pc = "first"
    /\ IF text = <<>> THEN pc' = "space" /\ UNCHANGED <<read, lastch, count>>
       ELSE read' = 1 /\ lastch' = nextch /\ count' = 1 /\ pc' = "encode"
    /\ UNCHANGED <<text, encoded, Decoder>>

\* Mutant: a count may be a whole byte and one more.
RunEndsLate == nextch # lastch \/ count = BYTE

\* The value differs from the last one, or the count is at its limit.
RunEnds == nextch # lastch \/ count = BYTE - 1

(* The loop of rlenc; fputc() writes the low byte of the count.            *)
Encode ==
    /\ pc = "encode"
    /\ IF read = Len(text)
       THEN /\ encoded' = encoded \o <<count % BYTE, lastch>>
            /\ pc' = "space" /\ UNCHANGED <<read, lastch, count>>
       ELSE /\ read' = read + 1
            /\ IF RunEnds
               THEN /\ encoded' = encoded \o <<count % BYTE, lastch>>
                    /\ lastch' = nextch /\ count' = 1
               ELSE count' = count + 1 /\ UNCHANGED <<encoded, lastch>>
            /\ UNCHANGED pc
    /\ UNCHANGED <<text, Decoder>>

(* find_space_loop: the count is added to %bl, and a carry to %ebx.  A sum *)
(* that carries has lost BYTE in %bl before.                               *)
FindSpace ==
    /\ pc = "space"
    /\ LET bl == (size % BYTE) + encoded[esi + 1]
       IN  IF esi >= Len(encoded)
           THEN pc' = "pair" /\ esi' = 0 /\ UNCHANGED size
           ELSE /\ size' = size - (size % BYTE) + (bl % BYTE) + (IF bl >= BYTE THEN BYTE ELSE 0)
                /\ esi' = esi + 2 /\ UNCHANGED pc
    /\ UNCHANGED <<text, read, lastch, count, encoded, buffer, left>>

(* decode_loop: the next pair                                              *)
NextPair ==
    /\ pc = "pair"
    /\ IF esi >= Len(encoded) THEN pc' = "done" /\ UNCHANGED left
       ELSE left' = encoded[esi + 1] /\ pc' = "write"
    /\ UNCHANGED <<text, read, lastch, count, encoded, esi, size, buffer>>

(* write_loop: the test comes after the write, in the 8 bits of %bh.       *)
WriteValue ==
    /\ pc = "write"
    /\ buffer' = Append(buffer, encoded[esi + 2])
    /\ left' = (left - 1) % BYTE
    /\ IF left' # 0 THEN UNCHANGED <<esi, pc>> ELSE esi' = esi + 2 /\ pc' = "pair"
    /\ UNCHANGED <<text, read, lastch, count, encoded, size>>

\* The decoded data has been returned.
Over == pc = "done" /\ UNCHANGED vars

Next == First \/ Encode \/ FindSpace \/ NextPair \/ WriteValue \/ Over

Spec == Init /\ [][Next]_vars

-----------------------------------------------------------------------------

(* Decoding what was encoded gives the file back, in a buffer of exactly   *)
(* its size, and nothing is ever written beyond the buffer.                *)
RoundTrip ==
    /\ pc \in {"pair", "write", "done"} => size = Len(text) /\ Len(buffer) <= size
    /\ pc = "done" => buffer = text
=============================================================================
