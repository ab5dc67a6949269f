-------------------------------- MODULE Tokens --------------------------------
(***************************************************************************)
(* From an Authorization header to a caller: how TicketController cuts the  *)
(* token out of the header, and what JwtUtils makes of the token.           *)
(*                                                                          *)
(* A token is what is left of a JWT once it is split at its dots.  Its      *)
(* payload is the bytes of the JSON text; the issuer encodes them in the    *)
(* base64url alphabet (RFC 7515), as it does the signature, which JwtUtils  *)
(* decodes with the URL decoder.                                            *)
(***************************************************************************)
EXTENDS Integers, Sequences

Byte == 0 .. 255

\* parts: how many strings String.split gives; signed: SHA256withRSA accepts
\* the signature for the first two; sub: the claim, NoSub when the payload is
\* no JSON object with a string of that name.
CONSTANTS Subject, NoSub

Token == [parts : Nat, signed : BOOLEAN, payload : Seq(Byte), sub : Subject \cup {NoSub}]

-----------------------------------------------------------------------------
(* The header. *)

\* The forms of an Authorization header that are told apart: none at all, fewer
\* than 7 characters, the token on its own, the token after "Bearer ", and the
\* token after another 7 characters ("bearer ", say).
HeaderForm == {"absent", "short", "bare", "Bearer", "other"}

\* A token that lost its first characters, or got some in front: its header part
\* is not the one that was signed.
Damaged(token) == [token EXCEPT !.signed = FALSE]

\* What a handler gets: a token, or an answer from before the service is called.
Cut(token) == [answer |-> "none", token |-> token]
Answered(code, token) == [answer |-> code, token |-> token]

\* authHeader.substring(7), which throws on a header shorter than that; Spring
\* MVC answers 400 to a request without the header.
cutSubstring(form, token) ==
  CASE form = "absent"            -> Answered("400", token)
    [] form = "short"             -> Answered("500", token)
    [] form = "bare"              -> Cut(Damaged(token))
    [] form \in {"Bearer", "other"} -> Cut(token)

\* authHeader.replace("Bearer ", ""), which leaves other headers as they are.
cutReplace(form, token) ==
  CASE form = "absent"              -> Answered("400", token)
    [] form \in {"short", "other"}  -> Cut(Damaged(token))
    [] form \in {"bare", "Bearer"}  -> Cut(token)

-----------------------------------------------------------------------------
(* Base64. *)

\* The sextets of the group of up to three bytes that begins at index i; a byte
\* beyond the end counts as 0.
ByteAt(bytes, i) == IF i \in DOMAIN bytes THEN bytes[i] ELSE 0

Sextets(b1, b2, b3) ==
  <<b1 \div 4, (b1 % 4) * 16 + b2 \div 16, (b2 % 16) * 4 + b3 \div 64, b3 % 64>>

GroupStarts(bytes) == {i \in DOMAIN bytes : i % 3 = 1}

\* The alphabets differ in two symbols: base64url writes the sextets 62 and 63 as
\* - and _, which Base64.getDecoder() refuses with an exception.
Unreadable == {62, 63}

groupDecodes(b1, b2, b3) == \A k \in 1 .. 4 : Sextets(b1, b2, b3)[k] \notin Unreadable

\* Mutant of basicDecodes: the decoder insists on the padding base64url leaves out.
paddedDecodes(bytes) ==
  /\ Len(bytes) % 3 = 0
  /\ \A i \in GroupStarts(bytes) :
       groupDecodes(ByteAt(bytes, i), ByteAt(bytes, i + 1), ByteAt(bytes, i + 2))

\* Whether Base64.getDecoder() decodes what the issuer made of these bytes.
basicDecodes(bytes) ==
  \A i \in GroupStarts(bytes) :
    groupDecodes(ByteAt(bytes, i), ByteAt(bytes, i + 1), ByteAt(bytes, i + 2))

-----------------------------------------------------------------------------
(* JwtUtils. *)

validateJwt(token) == token.parts = 3 /\ token.signed

\* Whether extractExternalUserId returns the sub claim rather than throw.
extractsSub(token) ==
  /\ token.parts = 3
  /\ basicDecodes(token.payload)
  /\ token.sub # NoSub
=============================================================================
