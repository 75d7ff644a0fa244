------------------------------ MODULE Packets ------------------------------
(***************************************************************************)
(* Packets, signatures and encryption: node/protocol.py, node/crypto.py    *)
(* and the two functions of node/router.py that put packets into the       *)
(* message buffer.  Keys are symbols: a key pair, its public half and the  *)
(* id that is its hex form are all the same value.  Signing and encryption *)
(* are perfect: what they produce is taken apart only with the right key.  *)
(* The encoding of a dict is the function from its field names.  The field *)
(* ts is left out: it is set with id, never changed and never read.        *)
(***************************************************************************)
CONSTANT NoBytes   \* b"", the default of payload and sig

PROTO_VERSION == 1

sign(text, key) == [text |-> text, by |-> key]

verify(text, sig, key) == sig = sign(text, key)

\* HKDF over the shared secret, with the ephemeral key as salt.
kdf(shared, ephemeral) == [shared |-> shared, salt |-> ephemeral]

\* X25519: either private half and the other public half give the same secret.
exchange(private, public) == {private, public}

\* The key pair "ephemeral" is fresh: no two messages share one.
encrypt(plaintext, recipient, ephemeral) ==
    [ephemeral_pubkey |-> ephemeral,
     ciphertext |-> [key |-> kdf(exchange(ephemeral, recipient), ephemeral),
                     text |-> plaintext]]

\* Whether decrypt returns; else it raises InvalidTag.
decrypts(box, key) ==
    box.ciphertext.key = kdf(exchange(key, box.ephemeral_pubkey), box.ephemeral_pubkey)
-----------------------------------------------------------------------------
Packet(type, id, from, to, payload) ==
    [v |-> PROTO_VERSION, id |-> id, type |-> type, from_addr |-> from,
     to_addr |-> to, payload |-> payload, sig |-> NoBytes]

\* What a signature covers: all but v and the signature itself.
sign_data(p) == <<p.id, p.type, p.from_addr, p.to_addr, p.payload>>

sign_packet(p, key) == [p EXCEPT !.sig = sign(sign_data(p), key)]

\* Mutant of verify_packet: the packet is taken to be signed by who is "from".
verify_packet_from(p, key) ==
    p.sig # NoBytes /\ verify(sign_data(p), p.sig, p.from_addr)

verify_packet(p, key) ==
    p.sig # NoBytes /\ verify(sign_data(p), p.sig, key)

\* msgpack of the packet's fields under their wire names.
pack(p) ==
    [v |-> p.v, id |-> p.id, type |-> p.type, from |-> p.from_addr,
     to |-> p.to_addr, payload |-> p.payload, sig |-> p.sig]

get(d, field, default) == IF field \in DOMAIN d THEN d[field] ELSE default

unpack(d) ==
    [v |-> get(d, "v", PROTO_VERSION), id |-> get(d, "id", ""),
     type |-> get(d, "type", ""), from_addr |-> get(d, "from", ""),
     to_addr |-> get(d, "to", ""), payload |-> get(d, "payload", NoBytes),
     sig |-> get(d, "sig", NoBytes)]

\* Mutant of serialize_packet: the two addresses are swapped.
serialize_packet_swapped(p) ==
    [type |-> p.type, id |-> p.id, from |-> p.to_addr, to |-> p.from_addr,
     payload |-> p.payload, sig |-> p.sig]

\* The payload column of message_buffer; it has no "v".
serialize_packet(p) ==
    [type |-> p.type, id |-> p.id, from |-> p.from_addr, to |-> p.to_addr,
     payload |-> p.payload, sig |-> p.sig]

deserialize_packet(d) == unpack(d)
=============================================================================
