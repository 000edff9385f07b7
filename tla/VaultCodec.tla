----------------------------- MODULE VaultCodec -----------------------------
(***************************************************************************)
(* The encryption of SecureVault (src/tokenhub/vault.py): key derivation, *)
(* the padding _encrypt applies, UTF-8 encoding, AES-256-CBC, and the     *)
(* unpadding and decoding of _decrypt.                                    *)
(*                                                                         *)
(* A plaintext is a sequence of characters, each a record of its code     *)
(* point c and its UTF-8 length w in bytes; a byte is <<character, i>>,  *)
(* the i-th byte of the character's encoding.                             *)
(* PBKDF2 is modelled as one-to-one on (password, salt).  A ciphertext is *)
(* the key it was made with and the bytes it hides: the random IV and the *)
(* base64 layer are undone by _decrypt and no behaviour depends on them.  *)
(***************************************************************************)
EXTENDS Integers, Sequences, SequencesExt

BlockSize == 16

\* chr(n): the ASCII character of code n, one byte long.
PadChar(n) == [c |-> n, w |-> 1]

\* _derive_key: PBKDF2HMAC(SHA256, salt, 100000 iterations) of the password.
DeriveKey(password, salt) == <<password, salt>>

\* _encrypt's padding: 16 - (len(plaintext) % 16) copies of chr of that
\* number, counted in characters, before the text is encoded.
Pad(s) ==
    LET n == BlockSize - (Len(s) % BlockSize)
    IN  s \o [i \in 1..n |-> PadChar(n)]

\* str.encode(): every character becomes its w bytes.
Encode(s) == FlattenSeq([i \in DOMAIN s |-> [j \in 1..s[i].w |-> <<s[i], j>>]])

\* bytes.decode(): the characters whose first byte is present; it raises
\* when the last character's bytes are cut short.
Decode(b) ==
    LET starts == SelectSeq(b, LAMBDA x : x[2] = 1)
    IN  [i \in DOMAIN starts |-> starts[i][1]]

DecodeOK(b) ==
    Len(b) = FoldLeft(LAMBDA acc, ch : acc + ch.w, 0, Decode(b))

\* encryptor.update + finalize: CBC without a padding mode raises unless
\* the encoded data is a whole number of blocks.
Encryptable(s) == Len(Encode(Pad(s))) % BlockSize = 0

Encrypt(key, s) == [key |-> key, data |-> Encode(Pad(s))]

\* What _decrypt gives when it does not give back the plaintext: under
\* another key the bytes are unrelated to it, and the result is an
\* exception or a text other than the key; both are the empty text here,
\* which no api_key is.
Garbage == <<>>

\* _decrypt: CBC under the key the data was made with gives back the padded
\* bytes (under another key, bytes unrelated to them); padding_length is
\* the value of the last byte; the text is the bytes before it, decoded.
Decrypt(key, ct) ==
    IF ct.key # key THEN Garbage
    ELSE LET p    == ct.data
             n    == Last(p)[1].c
             text == SubSeq(p, 1, Len(p) - n)
         IN  IF DecodeOK(text) THEN Decode(text) ELSE Garbage

=============================================================================
