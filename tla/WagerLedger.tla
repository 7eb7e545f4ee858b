------------------------------ MODULE WagerLedger -----------------------------
(***************************************************************************)
(* What the wagering service promises: a ledger on which every command and *)
(* every resolver pass takes effect in one indivisible step, decided on    *)
(* the wallet and wager rows as they are at that step.  WagerTx, in which  *)
(* the same work is spread over the statements of concurrent READ          *)
(* COMMITTED transactions, is shown to implement it.                       *)
(*                                                                         *)
(* One freedom is left to the implementation.  A transaction locks its own *)
(* wallet only, so what it reads about a wager of another wallet may be    *)
(* out of date: it may treat such a reference as unresolved.  It never may *)
(* for a reference of its own wallet.                                      *)
(***************************************************************************)
EXTENDS WagerRules

CONSTANTS
  Commands,   \* the commands that clients send
  Openings,   \* the (player, currency, balance) wallets are created with
  Skew,       \* largest difference of an instance's clock from the database's
  MaxTime     \* bound of the modelled time

VARIABLES
  wallets,    \* table wallets
  wagers,     \* table wager_transactions, by external identity
  ledger,     \* table ledger_entries, per wallet in commit order
  outbox,     \* table outbox_events, per transaction in insertion order
  now         \* NOW() of the database

db == <<wallets, wagers, ledger, outbox>>
vars == <<wallets, wagers, ledger, outbox, now>>

Init ==
  /\ wallets = [w \in Wallet |-> None]
  /\ wagers = [x \in Ext |-> None]
  /\ ledger = [w \in Wallet |-> <<>>]
  /\ outbox = [x \in Ext \cup Wallet |-> <<>>]
  /\ now = 0

-----------------------------------------------------------------------------

\* What a transaction of req's wallet may have read of req's reference.
Visible(req) ==
  IF req.ref = None THEN {None}
  ELSE {wagers[req.ref]} \cup
       IF wagers[req.ref] # None /\ wagers[req.ref].req.wallet # req.wallet
       THEN {None} ELSE {}

Apply(d) ==
  LET req == d.row.req
  IN  /\ wagers' = [wagers EXCEPT ![req.ext] = d.row]
      /\ wallets' = [wallets EXCEPT ![req.wallet] = d.wallet]
      /\ ledger' = [ledger EXCEPT ![req.wallet] = @ \o d.entries]
      /\ outbox' = [outbox EXCEPT ![req.ext] = @ \o d.events]
      /\ UNCHANGED now

CreateWallet(w, o) ==
  /\ wallets[w] = None
  /\ \A v \in Wallet : wallets[v] # None =>
       wallets[v].player # o.player \/ wallets[v].currency # o.currency
  /\ LET wallet == NewWallet(o)
         opening == createOpeningTransaction(w, wallet)
     IN  /\ wallets' = [wallets EXCEPT ![w] = wallet]
         /\ ledger' = [ledger EXCEPT ![w] = @ \o opening.entries]
         /\ outbox' = [outbox EXCEPT ![w] = @ \o opening.events]
  /\ UNCHANGED <<wagers, now>>

\* A command that is new, well formed and addressed to the player's wallet is
\* decided and recorded, once.
Handle(c, t) ==
  /\ ValidateExternal(c.req)
  /\ \A x \in Ext : wagers[x] # None => wagers[x].key # c.key
  /\ wagers[c.req.ext] = None
  /\ wallets[c.req.wallet] # None
  /\ wallets[c.req.wallet].player = c.req.player
  /\ wallets[c.req.wallet].currency = c.req.currency
  /\ \E ref \in Visible(c.req) :
       LET d == ProcessOutcome(NewRow(c), wallets[c.req.wallet], ref,
                               referenceAlreadyReversed(wagers, c.req.ref), t)
       IN  d # None /\ Apply(d)

\* A pending command that is due, by the database and up to Skew by the clock of
\* the instance, is rescheduled, rejected or carried out.
Resolve(x, t) ==
  /\ wagers[x] # None
  /\ wagers[x].state = "PENDING_REFERENCE"
  /\ wagers[x].next <= now /\ wagers[x].next <= t + Skew
  /\ \E ref \in Visible(wagers[x].req) :
       LET d == ResolveOutcome(wagers[x], wallets[wagers[x].req.wallet], ref,
                               referenceAlreadyReversed(wagers, wagers[x].req.ref), t)
       IN  d # None /\ Apply(d)

Tick == now < MaxTime /\ now' = now + 1 /\ UNCHANGED db

\* A step decides by an instance's clock t.  It is at most Skew ahead of now, and
\* was read under the lock some time before the commit: a commit may be late, so
\* only the passes of the resolver have a lower bound.
Next ==
  \/ \E w \in Wallet, o \in Openings : CreateWallet(w, o)
  \/ \E t \in 0..(now + Skew) :
       \/ \E c \in Commands : Handle(c, t)
       \/ \E x \in Ext : Resolve(x, t)
  \/ Tick

Spec == Init /\ [][Next]_vars

=============================================================================
