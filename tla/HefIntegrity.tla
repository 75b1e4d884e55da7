---------------------------- MODULE HefIntegrity ----------------------------
(***************************************************************************)
(* Checking a model file against its SHA-256 (hef_integrity.cpp): the loop *)
(* that reads the file, the block buffer that takes data in pieces of any  *)
(* size, and the padding.  The compression function is abstracted: the     *)
(* hash is the sequence of bytes it was fed with, block by block.  A byte  *)
(* of the file is its position, so that bytes lost, doubled or swapped are *)
(* told apart.                                                             *)
(***************************************************************************)
EXTENDS Integers, Sequences

CONSTANTS
  BlockSize, LengthSize,  \* 64 and 8 bytes
  ChunkSize,              \* most that one fread returns
  MaxLength               \* bound: length of the file

ASSUME HashAssumption ==
  /\ LengthSize \in Nat \ {0} /\ BlockSize \in Nat /\ LengthSize < BlockSize
  /\ ChunkSize \in Nat \ {0} /\ MaxLength \in Nat

VARIABLES
  length, pos,  \* length of the file; how much of it was read
  data,         \* what update() was given and has not copied yet
  buf,          \* the first buf_len_ bytes of buf_
  eaten,        \* h_: the bytes compressed so far
  total, bits,  \* total_bits_, counted in bytes, and what hex_final() saves of it
  phase,        \* "closed", "reading", "padding", "done" or "failed"
  result        \* of sha256_file: the bytes hashed, <<>> for the empty string

hashVars == <<length, pos, data, buf, eaten, total, bits, phase, result>>

Bytes(from, to) == [i \in 1 .. to - from + 1 |-> <<"byte", from + i - 1>>]
LengthField(n) == [i \in 1 .. LengthSize |-> <<"length", n, i>>]
Tokens == {<<"byte", i>> : i \in 1 .. MaxLength} \cup {<<"pad">>, <<"zero">>}
            \cup {<<"length", n, i>> : n \in 0 .. MaxLength + BlockSize, i \in 1 .. LengthSize}

HashTypeOK ==
  /\ length \in 0 .. MaxLength /\ pos \in 0 .. length
  /\ data \in Seq(Tokens) /\ buf \in Seq(Tokens) /\ Len(buf) < BlockSize
  /\ eaten \in Seq(Tokens) /\ Len(eaten) % BlockSize = 0
  /\ bits \in 0 .. MaxLength /\ total \in 0 .. MaxLength + BlockSize
  /\ phase \in {"closed", "reading", "padding", "done", "failed"}
  /\ result \in Seq(Tokens)

HashInit ==
  /\ length = 0 /\ pos = 0 /\ data = <<>> /\ buf = <<>> /\ eaten = <<>>
  /\ total = 0 /\ bits = 0 /\ phase = "closed" /\ result = <<>>

\* Any file, or none.
Open == /\ phase = "closed" /\ phase' \in {"reading", "failed"} /\ length' \in 0 .. MaxLength
        /\ UNCHANGED <<pos, data, buf, eaten, total, bits, result>>

\* transform() is run as soon as the buffer is full.
Compressed(full) == IF Len(full) = BlockSize THEN buf' = <<>> /\ eaten' = eaten \o full
                                             ELSE buf' = full /\ UNCHANGED eaten

\* A turn of the loop in update().
Copy ==
  LET room == BlockSize - Len(buf)
      n == IF Len(data) < room THEN Len(data) ELSE room
  IN /\ data # <<>> /\ data' = SubSeq(data, n + 1, Len(data))
     /\ Compressed(buf \o SubSeq(data, 1, n))
     /\ UNCHANGED <<length, pos, total, bits, phase, result>>

Idle(where) == phase = where /\ data = <<>>

\* fread may return less than a whole chunk.
Read == /\ Idle("reading") /\ pos < length
        /\ pos' \in pos + 1 .. length /\ pos' - pos <= ChunkSize
        /\ data' = Bytes(pos + 1, pos') /\ total' = total + pos' - pos
        /\ UNCHANGED <<length, buf, eaten, bits, phase, result>>

\* fread returns nothing, at the end of the file or because reading failed; the
\* caller does not ask which, and hex_final begins.
ReadsNothing ==
  /\ Idle("reading") /\ phase' = "padding"
  /\ bits' = total /\ data' = <<<<"pad">>>> /\ total' = total + 1
  /\ UNCHANGED <<length, pos, buf, eaten, result>>

Pad == /\ Idle("padding") /\ Len(buf) # BlockSize - LengthSize
       /\ data' = <<<<"zero">>>> /\ total' = total + 1
       /\ UNCHANGED <<length, pos, buf, eaten, bits, phase, result>>

\* Fault: the padding counts as part of the message.
FinishCountsPadding ==
  /\ Idle("padding") /\ Len(buf) = BlockSize - LengthSize
  /\ eaten' = eaten \o buf \o LengthField(total) /\ buf' = <<>>
  /\ result' = eaten' /\ phase' = "done"
  /\ UNCHANGED <<length, pos, data, total, bits>>

\* The length is written into the buffer directly; the file was closed before.
Finish ==
  /\ Idle("padding") /\ Len(buf) = BlockSize - LengthSize
  /\ eaten' = eaten \o buf \o LengthField(bits) /\ buf' = <<>>
  /\ result' = eaten' /\ phase' = "done"
  /\ UNCHANGED <<length, pos, data, total, bits>>

HashNext == Open \/ Copy \/ Read \/ ReadsNothing \/ Pad \/ Finish

HashSpec == HashInit /\ [][HashNext]_hashVars

VerifyHef(expected) == result = expected /\ result # <<>>

-----------------------------------------------------------------------------
\* The message of n bytes as FIPS 180-4 pads it: a one, the fewest zeros that leave
\* room for the length in the last block, the length.
Padded(n) ==
  LET fits(k) == (n + 1 + k + LengthSize) % BlockSize = 0
      zeros == CHOOSE k \in 0 .. BlockSize - 1 : fits(k)
  IN Bytes(1, n) \o <<<<"pad">>>> \o [i \in 1 .. zeros |-> <<"zero">>] \o LengthField(n)

\* A file is accepted for the hash of what was read of it, padded as the standard says,
\* also when it ends where the length no longer fits in the last block, and for no other;
\* never for an expected hash that is missing; and padding takes a block at most
\* (hef_integrity.cpp:67-79, 102-110).
AcceptsOwnHash ==
  /\ phase \in {"done", "failed"} =>
       /\ \A n \in 0 .. MaxLength : VerifyHef(Padded(n)) <=> phase = "done" /\ n = pos
       /\ ~VerifyHef(<<>>)
  /\ phase \in {"padding", "done"} => total - bits <= BlockSize
==============================================================================
