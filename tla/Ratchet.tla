------------------------------- MODULE Ratchet -------------------------------
(***************************************************************************)
(* The double ratchet of src/ratchet.go between two parties, over a       *)
(* network that may lose, reorder and duplicate messages (the mix          *)
(* network catshadow sends them through).                                  *)
(*                                                                         *)
(* Cryptography is symbolic.  A private key is <<"priv", party, k>>; a DH  *)
(* shared secret is the set of the two private keys, so both sides compute *)
(* the same value.  A root key is the sequence of shared secrets mixed     *)
(* into it since the key exchange; header keys, chain keys and message     *)
(* keys are tagged tuples built from the root key they were derived from,  *)
(* a chain key also carries how many times it was stepped.  Two keys are   *)
(* equal exactly when the code derives them from equal inputs; a header or *)
(* message opens exactly when the key it was sealed with is the one tried. *)
(***************************************************************************)
EXTENDS Integers, Sequences, FiniteSets, TLC

CONSTANTS
  Parties,            \* the two ratchets
  Alice,              \* the party whose public0 compares lower (amAlice)
  MaxMissingMessages, \* the reordering limit of saveKeys
  MaxSend,            \* bound: messages each party encrypts
  MaxDeliver,         \* bound: deliveries of one message (duplicates)
  MaxKx               \* bound: key exchanges a party creates, and processes

ASSUME Alice \in Parties /\ Cardinality(Parties) = 2

Peer(p) == CHOOSE q \in Parties : q # p

\* memguard.NewBuffer(keySize) and Wipe(): the all-zero key.
Zero == <<"zero", <<>>, 0>>
Priv(p, k) == <<"priv", p, k>>
DH(x, y) == {x, y}
\* deriveKey(headerKeyLabel / nextHeaderKeyLabel, h) of a root key.
HK(root, label) == <<"hk", root, label>>
\* deriveKey(chainKeyLabel, h): a chain key stepped 0 times.
CK(root) == <<"ck", root, 0>>
\* k steps of deriveKey(chainKeyStepLabel, hmac(chain key)).
Step(ck, k) == <<ck[1], ck[2], ck[3] + k>>
\* deriveKey(messageKeyLabel, hmac(chain key)).
MK(ck) == <<"mk", ck>>

VARIABLES
  st,        \* st[p]: the fields of p's Ratchet
  net,       \* messages Encrypt produced (delivery may repeat any of them)
  kxNet,     \* key exchanges CreateKeyExchange produced
  nKx,       \* key exchanges each party processed
  fresh,     \* private keys each party drew from r.rand
  nAcc,      \* history: how often Decrypt returned each message
  nDeliv,    \* deliveries of each message so far
  expired    \* history: <<header key, number>> of saved keys dropped

vars == <<st, net, kxNet, nKx, fresh, nAcc, nDeliv, expired>>

MsgIds == Parties \X (0..(MaxSend - 1))

-----------------------------------------------------------------------------
\* InitRatchet: a random root key, fresh kxPrivate0/1, every other key zero.
Init ==
  /\ st = [p \in Parties |->
            [root |-> <<>>, sendHK |-> Zero, recvHK |-> Zero,
             nextSendHK |-> Zero, nextRecvHK |-> Zero,
             sendCK |-> Zero, recvCK |-> Zero,
             sendPriv |-> Zero, recvPub |-> Zero,
             sendCount |-> 0, recvCount |-> 0, prevSendCount |-> 0,
             ratchet |-> FALSE, saved |-> {},
             kx0 |-> Priv(p, 0), kx1 |-> Priv(p, 1)]]
  /\ net = {} /\ kxNet = {}
  /\ nKx = [p \in Parties |-> 0]
  /\ fresh = [p \in Parties |-> 2]
  /\ nAcc = [i \in MsgIds |-> 0]
  /\ nDeliv = [i \in MsgIds |-> 0]
  /\ expired = {}

\* CreateKeyExchange / FillKeyExchange: the publics of kxPrivate0/1, which
\* are never nil, so a call after the handshake sends zero-derived values.
CreateKeyExchange(p) ==
  /\ Cardinality({kx \in kxNet : kx.from = p}) < MaxKx
  /\ kxNet' = kxNet \cup {[from |-> p, dh |-> st[p].kx0, dh1 |-> st[p].kx1]}
  /\ UNCHANGED <<st, net, nKx, fresh, nAcc, nDeliv, expired>>

\* ProcessKeyExchange and CompleteKeyExchange.  The kxPrivate0 == nil
\* guard never holds (the keys are wiped, not released), so a repeated key
\* exchange runs again on zero private values.  amAlice compares public0
\* with kx.Dh, which for a wiped kxPrivate0 may go either way.
\* CompleteKeyExchange: the root key from the DH of kxPrivate0 with the
\* peer's Dh; every header and chain key reset, then Alice's receiving
\* and Bob's sending side derived; kxPrivate0/1 wiped.  The counters and
\* the saved keys are left as they were.
Established(s, kx, amAlice) ==
  LET R == << DH(s.kx0, kx.dh) >> IN
  [s EXCEPT !.root = R,
            !.sendHK = IF amAlice THEN Zero ELSE HK(R, "header"),
            !.recvHK = IF amAlice THEN HK(R, "header") ELSE Zero,
            !.nextSendHK = HK(R, "next"),
            !.nextRecvHK = HK(R, "next"),
            !.sendCK = IF amAlice THEN Zero ELSE CK(R),
            !.recvCK = IF amAlice THEN CK(R) ELSE Zero,
            !.sendPriv = IF amAlice THEN Zero ELSE s.kx1,
            !.recvPub = IF amAlice THEN kx.dh1 ELSE Zero,
            !.ratchet = amAlice,
            !.kx0 = Zero, !.kx1 = Zero]

\* The caller sends its own key exchange before it takes in the peer's.
ProcessKeyExchange(p) ==
  /\ nKx[p] < MaxKx
  /\ \E kx \in kxNet : kx.from = p
  /\ \E kx \in kxNet :
       /\ kx.from # p
       /\ IF kx.dh = st[p].kx0
            THEN UNCHANGED st                        \* ErrEchoedDHValues
            ELSE \E amAlice \in IF st[p].kx0 = Zero THEN BOOLEAN
                                                  ELSE {p = Alice} :
                   st' = [st EXCEPT ![p] = Established(@, kx, amAlice)]
  /\ nKx' = [nKx EXCEPT ![p] = @ + 1]
  /\ UNCHANGED <<net, kxNet, fresh, nAcc, nDeliv, expired>>

\* Encrypt: with the ratchet flag set, a fresh sendRatchetPrivate is mixed
\* into the root key and a new sending chain starts; then a message key is
\* taken from the sending chain and the header carries sendCount,
\* prevSendCount and the ratchet public.
Encrypt(p) ==
  /\ nKx[p] > 0
  /\ Cardinality({m \in net : m.from = p}) < MaxSend
  /\ LET s   == st[p]
         new == Priv(p, fresh[p])
         R   == Append(s.root, DH(new, s.recvPub))
         r   == IF s.ratchet
                  THEN [s EXCEPT !.sendPriv = new, !.sendHK = s.nextSendHK,
                                 !.root = R, !.nextSendHK = HK(R, "header"),
                                 !.sendCK = CK(R), !.prevSendCount = s.sendCount,
                                 !.sendCount = 0, !.ratchet = FALSE]
                  ELSE s
         id  == <<p, Cardinality({m \in net : m.from = p})>>
     IN /\ net' = net \cup {[from |-> p, id |-> id, hk |-> r.sendHK,
                             n |-> r.sendCount, pn |-> r.prevSendCount,
                             dh |-> r.sendPriv, mk |-> MK(r.sendCK)]}
        /\ st' = [st EXCEPT ![p] = [r EXCEPT !.sendCK = Step(r.sendCK, 1),
                                             !.sendCount = r.sendCount + 1]]
        /\ fresh' = [fresh EXCEPT ![p] = IF s.ratchet THEN @ + 1 ELSE @]
  /\ UNCHANGED <<kxNet, nKx, nAcc, nDeliv, expired>>

-----------------------------------------------------------------------------
\* saveKeys: the message key for messageNum of a chain now at
\* receivedCount, the chain key one past it, and the keys of the messages
\* skipped in between, saved under the header key.
SaveKeys(hk, ck, n, rc) ==
  IF n < rc THEN [err |-> "dup"]
  ELSE IF n - rc > MaxMissingMessages THEN [err |-> "limit"]
  ELSE [err |-> "none",
        ck |-> Step(ck, n - rc + 1),
        mk |-> MK(Step(ck, n - rc)),
        keys |-> {[hk |-> hk, n |-> i, key |-> MK(Step(ck, i - rc))] :
                    i \in rc..(n - 1)}]

\* mergeSavedKeys: a newly saved key replaces one under the same header
\* key and number.
MergeSavedKeys(saved, keys) ==
  {e \in saved : \A k \in keys : <<e.hk, e.n>> # <<k.hk, k.n>>} \cup keys

Result(res, s) == [res |-> res, st |-> s]

\* trySavedKeys: a saved key for the message's header key and number opens
\* it and is deleted; "none" lets Decrypt go on.
\* Mutant: a saved key that opened a message is kept.
TrySavedKeysKeep(s, m) ==
  LET e == {k \in s.saved : k.hk = m.hk /\ k.n = m.n} IN
  IF e = {} THEN Result("none", s)
  ELSE IF \E k \in e : k.key = m.mk
         THEN Result("ok", s)
         ELSE Result("corrupt", s)

TrySavedKeys(s, m) ==
  LET e == {k \in s.saved : k.hk = m.hk /\ k.n = m.n} IN
  IF e = {} THEN Result("none", s)
  ELSE IF \E k \in e : k.key = m.mk
         THEN Result("ok", [s EXCEPT !.saved = @ \ e])
         ELSE Result("corrupt", s)

\* The message is sealed under recvHeaderKey: the receiving chain goes
\* forward to it.
CurrentChain(s, m) ==
  LET k == SaveKeys(s.recvHK, s.recvCK, m.n, s.recvCount) IN
  IF k.err # "none" THEN Result(k.err, s)
  ELSE IF k.mk # m.mk THEN Result("corrupt", s)
  ELSE Result("ok", [s EXCEPT !.recvCK = k.ck,
                              !.saved = MergeSavedKeys(@, k.keys),
                              !.recvCount = m.n + 1])

\* Variant of AdvanceEpoch that forgets the keys saved for the rest of the
\* old receiving chain.
AdvanceEpochDropOld(s, m, old, new) ==
  [s EXCEPT !.recvCK = new.ck, !.recvHK = s.nextRecvHK,
            !.nextRecvHK = HK(s.root, "header"),
            !.sendPriv = Zero, !.recvPub = m.dh, !.recvCount = m.n + 1,
            !.saved = MergeSavedKeys(@, new.keys), !.ratchet = TRUE]

\* The message opened: the new receiving chain and header keys are
\* installed, sendRatchetPrivate is wiped, both sets of skipped keys are
\* saved and the next Encrypt ratchets.
AdvanceEpoch(s, m, old, new) ==
  [s EXCEPT !.recvCK = new.ck, !.recvHK = s.nextRecvHK,
            !.nextRecvHK = HK(s.root, "header"),
            !.sendPriv = Zero, !.recvPub = m.dh, !.recvCount = m.n + 1,
            !.saved = MergeSavedKeys(MergeSavedKeys(@, old.keys), new.keys),
            !.ratchet = TRUE]

\* The message is sealed under nextRecvHeaderKey: the peer has ratcheted.
\* The rest of the old chain is saved up to prevMessageCount, the root key
\* takes the new DH, and the new chain goes forward to the message.  The
\* root key is stored before the second saveKeys and the message Open,
\* and stays stored when either fails.
NextChain(s, m) ==
  LET old == SaveKeys(s.recvHK, s.recvCK, m.pn, s.recvCount)
      R   == Append(s.root, DH(s.sendPriv, m.dh))
      s1  == [s EXCEPT !.root = R]
      new == SaveKeys(s.nextRecvHK, CK(R), m.n, 0)
  IN IF old.err # "none" THEN Result(old.err, s)
     ELSE IF new.err # "none" THEN Result(new.err, s1)
     ELSE IF new.mk # m.mk THEN Result("corrupt", s1)
     ELSE Result("ok", AdvanceEpoch(s1, m, old, new))

\* Decrypt: saved keys first, then the current header key (unless it is
\* still zero), then the next header key, refused while the ratchet flag
\* is set.
DecryptResult(s, m) ==
  LET t == TrySavedKeys(s, m) IN
  IF t.res # "none" THEN t
  ELSE IF m.hk = s.recvHK /\ s.recvHK # Zero THEN CurrentChain(s, m)
  ELSE IF m.hk # s.nextRecvHK THEN Result("cannot", s)
  ELSE IF s.ratchet THEN Result("noratchet", s)
  ELSE NextChain(s, m)

\* A message of the peer reaches p, possibly again.
Decrypt(p) ==
  \E m \in net :
    /\ m.from # p
    /\ nDeliv[m.id] < MaxDeliver
    /\ LET d == DecryptResult(st[p], m) IN
       /\ st' = [st EXCEPT ![p] = d.st]
       /\ nAcc' = IF d.res = "ok" THEN [nAcc EXCEPT ![m.id] = @ + 1] ELSE nAcc
    /\ nDeliv' = [nDeliv EXCEPT ![m.id] = @ + 1]
    /\ UNCHANGED <<net, kxNet, nKx, fresh, expired>>

\* MarshalBinary leaves out saved keys older than RatchetKeyMaxLifetime and
\* Unmarshal restores the rest: across a save and restore of the state any
\* saved key may be gone.
SaveAndRestore(p) ==
  \E e \in st[p].saved :
    /\ st' = [st EXCEPT ![p].saved = @ \ {e}]
    /\ expired' = expired \cup {<<e.hk, e.n>>}
    /\ UNCHANGED <<net, kxNet, nKx, fresh, nAcc, nDeliv>>

Next ==
  \E p \in Parties :
    \/ CreateKeyExchange(p) \/ ProcessKeyExchange(p)
    \/ Encrypt(p) \/ Decrypt(p) \/ SaveAndRestore(p)

Spec == Init /\ [][Next]_vars

-----------------------------------------------------------------------------
\* No message is returned by Decrypt twice: a duplicate finds neither its
\* saved key (deleted on use) nor a chain position (recvCount is past it).
NoReplay ==
  \A i \in MsgIds : nAcc[i] <= 1

\* Once p has completed the key exchange, every message of the peer that p
\* has not yet decrypted, and whose saved key was not dropped, would still
\* be decrypted if it arrived now, or be refused only for exceeding the
\* reordering limit: whatever the order, loss and duplication of what
\* arrived before, the skipped-key bookkeeping of saveKeys, mergeSavedKeys
\* and the epoch change in Decrypt keep it decryptable.
PendingDecryptable ==
  \A p \in Parties : \A m \in net :
    (/\ m.from # p /\ nKx[p] > 0 /\ nAcc[m.id] = 0
     /\ <<m.hk, m.n>> \notin expired)
      => DecryptResult(st[p], m).res \in {"ok", "limit"}

====
