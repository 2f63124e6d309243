--------------------------- MODULE RatchetSessions ---------------------------
(* The Double Ratchet sessions of two peers (ephemera-message: ratchet.rs,   *)
(* session.rs, x3dh.rs, prekey.rs).  Keys are symbolic: a Diffie-Hellman     *)
(* output is the set of the two key pairs, a root key the sequence of what   *)
(* was mixed into it, a chain key its seed and how often it was advanced.    *)
(* Messages may be lost, reordered and delivered twice; a session is loaded  *)
(* from its row for every call and saved only by a call that succeeds.       *)
EXTENDS Integers, Sequences, SequencesExt

CONSTANTS
    Pair,       \* the two peers
    Nil,        \* None: no session, no key, no X3DH header
    MaxLetters  \* bound: messages that each peer encrypts

VARIABLES
    sessions,  \* sessions[p]: the row of ratchet_sessions for the other peer
    minted,    \* minted[p]: number of key pairs that p has generated
    envelopes, \* the messages encrypted so far
    opened     \* history: opened[p], the messages p has decrypted, in order

ratchetVars == <<sessions, minted, envelopes, opened>>

Other(p) == CHOOSE q \in Pair : q # p

IdentityKeyOf(p) == <<p, -2>>
SignedPrekey(p)  == <<p, -1>>
OneTimePrekey(p) == <<p, 0>>
Fresh(p, i)      == <<p, minted[p] + i>>

DH(a, b) == {a, b}

GeneratePrekeyBundle(p, include_one_time) ==
    [identity |-> IdentityKeyOf(p), signed |-> SignedPrekey(p),
     once |-> IF include_one_time THEN OneTimePrekey(p) ELSE Nil]

\* The secret, from the identity and ephemeral keys of the initiator and the
\* identity, signed and one-time keys of the responder.
X3dhSecret(identity, ephemeral, bundle) ==
    <<DH(identity, bundle.signed), DH(ephemeral, bundle.identity),
      DH(ephemeral, bundle.signed)>>
    \o IF bundle.once = Nil THEN <<>> ELSE <<DH(ephemeral, bundle.once)>>

X3dhInitiate(p, ephemeral, bundle) ==
    [secret |-> X3dhSecret(IdentityKeyOf(p), ephemeral, bundle),
     header |-> [identity |-> IdentityKeyOf(p), ephemeral |-> ephemeral,
                 once |-> bundle.once]]

X3dhRespond(p, header) ==
    X3dhSecret(header.identity, header.ephemeral,
               GeneratePrekeyBundle(p, header.once # Nil))

ZeroChain == [seed |-> <<>>, n |-> 0]

\* The new root key and a chain key, from one input with different labels.
KdfRk(root, dh) ==
    [root |-> Append(root, dh), chain |-> [seed |-> Append(root, dh), n |-> 0]]

\* The advanced chain key and the message key.
KdfCk(chain) == [chain |-> [chain EXCEPT !.n = @ + 1], key |-> chain]

InitSender(secret, their, our) ==
    LET k == KdfRk(<<secret>>, DH(our, their)) IN
    [root |-> k.root, send |-> k.chain, recv |-> ZeroChain, ours |-> our,
     theirs |-> their, sent |-> 0, got |-> 0, prev |-> 0]

InitReceiver(secret, our) ==
    [root |-> <<secret>>, send |-> ZeroChain, recv |-> ZeroChain, ours |-> our,
     theirs |-> Nil, sent |-> 0, got |-> 0, prev |-> 0]

EncryptMessage(s) ==
    LET k == KdfCk(s.send) IN
    [state  |-> [s EXCEPT !.send = k.chain, !.sent = @ + 1],
     key    |-> k.key,
     header |-> [ratchet |-> s.ours, number |-> s.sent, previous |-> s.prev]]

DhRatchetStep(s, their, new) ==
    LET r == KdfRk(s.root, DH(s.ours, their))
        t == KdfRk(r.root, DH(new, their))
    IN [root |-> t.root, send |-> t.chain, recv |-> r.chain, ours |-> new,
        theirs |-> their, sent |-> 0, got |-> 0, prev |-> s.sent]

\* Mutant: a message key is derived from the message's own number, as if the
\* keys of skipped and used messages could still be derived.
MutDecryptMessage(s, header, key, new) ==
    LET s1 == IF s.theirs = header.ratchet THEN s
              ELSE DhRatchetStep(s, header.ratchet, new)
    IN [ok |-> key = [s1.recv EXCEPT !.n = header.number],
        state |-> [s1 EXCEPT !.got = @ + 1, !.recv.n = @ + 1]]

\* The keys of skipped messages are dropped.  ok: the ciphertext opens.
DecryptMessage(s, header, key, new) ==
    LET s1 == IF s.theirs = header.ratchet THEN s
              ELSE DhRatchetStep(s, header.ratchet, new)
        skipped == IF s1.got < header.number THEN header.number - s1.got ELSE 0
        k == KdfCk([s1.recv EXCEPT !.n = @ + skipped])
    IN [ok |-> k.key = key,
        state |-> [s1 EXCEPT !.recv = k.chain, !.got = @ + skipped + 1]]

\* encrypt_for_peer: the first message of a peer without a session runs X3DH
\* with the bundle of the other and carries the X3DH header.
EncryptForPeer(p) ==
    LET written == {m \in envelopes : m.from = p}
        post(s, x3dh, keys) ==
            LET e == EncryptMessage(s) IN
            /\ sessions' = [sessions EXCEPT ![p] = e.state]
            /\ minted' = [minted EXCEPT ![p] = @ + keys]
            /\ envelopes' = envelopes \cup
                   {[from |-> p, index |-> Cardinality(written) + 1,
                     header |-> e.header, key |-> e.key, x3dh |-> x3dh]}
    IN /\ Cardinality(written) < MaxLetters
       /\ \/ sessions[p] # Nil /\ post(sessions[p], Nil, 0)
          \/ /\ sessions[p] = Nil
             /\ \E once \in BOOLEAN :
                  LET bundle == GeneratePrekeyBundle(Other(p), once)
                      x == X3dhInitiate(p, Fresh(p, 1), bundle)
                  IN post(InitSender(x.secret, bundle.signed, Fresh(p, 2)), x.header, 2)
       /\ UNCHANGED opened

\* The session that the call for message m works on.
SessionFor(p, m) ==
    IF sessions[p] # Nil THEN sessions[p]
    ELSE InitReceiver(X3dhRespond(p, m.x3dh), SignedPrekey(p))

Decrypted(p, m) == DecryptMessage(SessionFor(p, m), m.header, m.key, Fresh(p, 1))

CanOpen(p, m) == (sessions[p] # Nil \/ m.x3dh # Nil) /\ Decrypted(p, m).ok

\* Mutant: the session is saved whether or not the message opened.
MutDecryptFromPeer(p, m) ==
    /\ m.from # p
    /\ sessions[p] # Nil \/ m.x3dh # Nil
    /\ minted[p] < 4
    /\ sessions' = [sessions EXCEPT ![p] = Decrypted(p, m).state]
    /\ minted' = [minted EXCEPT ![p] = @ + 1]
    /\ opened' = IF CanOpen(p, m) THEN [opened EXCEPT ![p] = Append(@, m.index)]
                 ELSE opened
    /\ UNCHANGED envelopes

\* decrypt_from_peer: a call that fails saves nothing.
DecryptFromPeer(p, m) ==
    /\ m.from # p
    /\ CanOpen(p, m)
    /\ sessions' = [sessions EXCEPT ![p] = Decrypted(p, m).state]
    /\ minted' = [minted EXCEPT ![p] = @ + 1]
    /\ opened' = [opened EXCEPT ![p] = Append(@, m.index)]
    /\ UNCHANGED envelopes

RatchetInit ==
    /\ sessions = [p \in Pair |-> Nil]
    /\ minted = [p \in Pair |-> 0]
    /\ envelopes = {}
    /\ opened = [p \in Pair |-> <<>>]

RatchetNext ==
    \E p \in Pair : EncryptForPeer(p) \/ \E m \in envelopes : DecryptFromPeer(p, m)

------------------------------------------------------------------------------

\* Both peers began the conversation before either had read the other's first
\* message: each has a session of its own, and neither reads the other's.
Crossed ==
    \A p \in Pair : \E m \in envelopes : m.from = p /\ m.x3dh # Nil

\* A message of the sender's current chain that its reader is not already past
\* can be read, whatever was lost, replayed or failed to open before: a failed
\* call does not spoil a session (session.rs:516), a DH step keeps the two
\* roots in step.  The two exceptions are what the code has: a conversation
\* that both began, and one whose first message (the only one with the X3DH
\* header) has not arrived.
LatestReadable ==
    \A m \in envelopes :
        LET p == Other(m.from) IN
        /\ ~Crossed
        /\ m.header.ratchet = sessions[m.from].ours
        /\ IF sessions[p] = Nil THEN m.x3dh # Nil
           ELSE sessions[p].theirs = m.header.ratchet
                    => m.header.number >= sessions[p].got
        => CanOpen(p, m)


\* Each message is encrypted with a key of its own (ratchet.rs:4), and never
\* with the all-zero chain key that init_receiver leaves in the send chain.
UniqueKeys ==
    \A m1, m2 \in envelopes :
        m1.key.seed # <<>> /\ (m1.key = m2.key => m1 = m2)

\* A peer reads the messages of the other in the order they were sent, each at
\* most once: replayed, overtaken and skipped messages never open, whatever
\* the network does (decrypt_message and decrypt_from_peer).
OpenedInOrder ==
    \A p \in Pair : \A i, j \in 1 .. Len(opened[p]) :
        i < j => opened[p][i] < opened[p][j]

\* What the keys of a session still give: the later keys of its two chains,
\* and the chains that a later root key seeds.
Derivable(s, key) ==
    \/ \E c \in {s.send, s.recv} : c.seed = key.seed /\ c.n <= key.n
    \/ s.root # key.seed /\ IsPrefix(s.root, key.seed)

\* The row of a session does not give the key of a message that its peer sent
\* or has read (ratchet.rs:6: compromise of current keys does not reveal past
\* messages).
PastKeysGone ==
    \A p \in Pair : \A m \in envelopes :
        m.from = p \/ m.index \in Range(opened[p]) =>
            sessions[p] # Nil /\ ~Derivable(sessions[p], m.key)

\* The three together: what the ratchet promises of the keys of messages.
MessageKeysSafe == UniqueKeys /\ OpenedInOrder /\ PastKeysGone
==============================================================================
