------------------------------- MODULE Crypto -------------------------------
(***************************************************************************)
(* The cipher collaborator the relay calls through CipherEnv               *)
(* (src/src/CipherEnv.cpp, Buffer::ssEncrypt / ssDecrypt / ssEncryptAll / *)
(* ssDecryptALl in src/src/Buffer.cpp).  The algorithms live in the        *)
(* crypto library outside src/, so this module follows the interface of   *)
(* spec.md section 6 for a stream cipher:                                 *)
(*   - the first encrypt of a context prepends the IV, and every byte is   *)
(*     mapped to a ciphertext byte (the keystream is fixed in the model:   *)
(*     Enc(x) = x + CipherShift);                                          *)
(*   - decrypt first collects IVLen IV bytes, answering "need_more" and    *)
(*     consuming the buffer while the IV is incomplete, then maps every    *)
(*     byte back;                                                          *)
(*   - either may fail ("error"), when CryptoErrors allows it;             *)
(*   - results are written back into the buffer, which grows with the     *)
(*     brealloc rule max(needed, BUF_DEFAULT_CAPACITY).                    *)
(* A result is a record [buf, ctx, err]; an action picks one of the       *)
(* results the collaborator may return.                                   *)
(***************************************************************************)
EXTENDS Buffer

CONSTANTS
    IVLen,          \* IV length of the configured stream cipher
    CryptoErrors    \* whether encrypt / decrypt may report CRYPTO_ERROR

ASSUME IVLen \in Nat \ {0}
ASSUME CryptoErrors \in BOOLEAN

CipherShift == 100
IVByte == 99                         \* the IV bytes on the wire
IV == [i \in 1..IVLen |-> IVByte]

Enc(x) == x + CipherShift
Dec(x) == x - CipherShift
EncSeq(s) == [i \in 1..Len(s) |-> Enc(s[i])]
DecSeq(s) == [i \in 1..Len(s) |-> Dec(s[i])]

\* brealloc(buf, len, BUF_DEFAULT_CAPACITY) when the output needs len bytes.
Grow(b, s) ==
    [data |-> s,
     cap  |-> IF b.cap >= Len(s) THEN b.cap
              ELSE IF Len(s) > DefaultCapacity THEN Len(s) ELSE DefaultCapacity]

\* A context that has not been created yet (ConnectionContext's e_ctx and
\* d_ctx before construct_cipher).
NoCtx == [init |-> FALSE, iv |-> -1]

\* crypto->ctx_init(cipher, ctx, enc): fresh per-direction state.
FreshCtx == [init |-> TRUE, iv |-> 0]

Failure(b, ctx) == IF CryptoErrors THEN {[buf |-> b, ctx |-> ctx, err |-> "error"]}
                   ELSE {}

\* Variant in which the context's IV counter advances on every encrypt.
EncryptResultsIVCounted(ctx, b) ==
    LET out == IF ctx.iv = 0 THEN IV \o EncSeq(b.data) ELSE EncSeq(b.data)
    IN  {[buf |-> Grow(b, out), ctx |-> [ctx EXCEPT !.iv = @ + IVLen], err |-> "ok"]}
        \cup Failure(b, ctx)

\* crypto->encrypt(buf, e_ctx, capacity): the IV goes out once per context.
EncryptResults(ctx, b) ==
    LET out == IF ctx.iv = 0 THEN IV \o EncSeq(b.data) ELSE EncSeq(b.data)
    IN  {[buf |-> Grow(b, out), ctx |-> [ctx EXCEPT !.iv = IVLen], err |-> "ok"]}
        \cup Failure(b, ctx)

\* crypto->decrypt(buf, d_ctx, capacity).
DecryptResults(ctx, b) ==
    LET left == IVLen - ctx.iv
    IN  IF Len(b.data) <= left
        THEN {[buf |-> Clear(b), ctx |-> [ctx EXCEPT !.iv = @ + Len(b.data)],
               err |-> "need_more"]}
        ELSE {[buf |-> [b EXCEPT !.data = DecSeq(SubSeq(@, left + 1, Len(@)))],
               ctx |-> [ctx EXCEPT !.iv = IVLen], err |-> "ok"]}
             \cup Failure(b, ctx)

\* crypto->encrypt_all(buf, cipher, capacity): one packet, fresh IV.
EncryptAllResults(b) ==
    {[buf |-> Grow(b, IV \o EncSeq(b.data)), ctx |-> NoCtx, err |-> "ok"]}
    \cup Failure(b, NoCtx)

\* crypto->decrypt_all(buf, cipher, capacity): a packet no longer than the
\* IV is an error.
DecryptAllResults(b) ==
    IF Len(b.data) <= IVLen THEN {[buf |-> b, ctx |-> NoCtx, err |-> "error"]}
    ELSE {[buf |-> [b EXCEPT !.data = DecSeq(SubSeq(@, IVLen + 1, Len(@)))],
           ctx |-> NoCtx, err |-> "ok"]}
         \cup Failure(b, NoCtx)

=============================================================================
