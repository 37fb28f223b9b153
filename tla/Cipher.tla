------------------------------- MODULE Cipher -------------------------------
(***************************************************************************)
(* The cipher with which two peers protect the messages one sends to the   *)
(* other (frost-client/src/cipher.rs): a Noise_K channel per direction.    *)
(*                                                                         *)
(* A Cipher lives as long as the process that made it.  The first message  *)
(* of a channel does the handshake and carries a payload; the next ones    *)
(* are transport messages, numbered by both ends.  What Noise guarantees   *)
(* is external: a handshake message can be read by any fresh Cipher of the *)
(* addressee, a transport message only after the handshake of the same     *)
(* sending process and only in turn.                                       *)
(***************************************************************************)
EXTENDS Naturals

\* The sending end: how many messages were written.
NewSender == 0

\* The receiving end: handshake_state is there until a message was read, then
\* transport_state, bound to the process whose handshake was read.
NewReceiver == [mode |-> "handshake", process |-> 0, n |-> 0]

IsReceiver(noise) ==
    /\ noise = [mode |-> noise.mode, process |-> noise.process, n |-> noise.n]
    /\ noise.mode \in {"handshake", "transport"}
    /\ noise.process \in Nat /\ noise.n \in Nat

\* Cipher::encrypt, by the given process of the sender.
Encrypt(noise, process) == [process |-> process, n |-> noise]

\* Mutant: a message number is skipped.
WrittenTwice(noise) == noise + 2

Written(noise) == noise + 1

\* Mutant: the receiving end stays in the handshake.
CanDecryptHandshake(noise, sealed) == sealed.n = 0

\* Cipher::decrypt: whether the message can be read, and the channel after it.
CanDecrypt(noise, sealed) ==
    IF noise.mode = "handshake" THEN sealed.n = 0
    ELSE sealed.process = noise.process /\ sealed.n = noise.n

Decrypted(noise, sealed) ==
    [mode |-> "transport", process |-> sealed.process, n |-> sealed.n + 1]

=============================================================================
