--------------------------- MODULE CheckoutProofs ---------------------------
(***************************************************************************)
(* Theorems about Checkout, for any carts, customers, checkouts and        *)
(* promotions, any limits and lifetimes, and any bounds.                   *)
(***************************************************************************)
EXTENDS Checkout, FiniteSetTheorems, TLAPS

Reserving == {"active", "payment_pending"}
Advanced == {"reserved", "order_created"}

(* What the four rows of a checkout can be together.                                   *)
Stage(k) ==
    /\ checkout[k].status \in {"none", "quoted"} =>
          /\ reservation[k].status = "none" /\ redemption[k] = "none"
          /\ order[k].status = "none" /\ k \notin listed
    /\ checkout[k].status = "reserved" =>
          redemption[k] = "reserved" /\ order[k].status = "none"
    /\ checkout[k].status = "order_created" =>
          order[k].status # "none" /\ reservation[k].status # "active"
    /\ checkout[k].status = "expired" =>
          /\ reservation[k].status \notin Reserving /\ order[k].status = "none"
          /\ redemption[k] \notin {"reserved", "consumed"}
    /\ reservation[k].status = "payment_pending" =>
          \/ checkout[k].status = "reserved"
          \/ /\ order[k].status = "pending_confirmation"
             /\ reservation[k].expires = order[k].expires
    /\ redemption[k] \in {"reserved", "consumed"} =>
          \/ checkout[k].status = "reserved"
          \/ order[k].status \in {"pending_confirmation", "confirmed"}
    /\ order[k].status = "pending_confirmation" => redemption[k] = "consumed"
    /\ order[k].status = "confirmed" => k \in late \/ redemption[k] = "consumed"

(* What the sweep has listed is due, or has become an order in a transaction that      *)
(* straddled the time at which it was.                                                 *)
ListedDue(k) ==
    k \in listed =>
       /\ checkout[k].status = "reserved" /\ reservation[k].status \in Reserving =>
             reservation[k].expires <= now
       /\ order[k].status = "pending_confirmation" /\ k \notin straddled =>
             order[k].expires <= now

(* The stock of an order that is not due is there, unless staff gave it back.          *)
Stocked(k) ==
    order[k].status = "pending_confirmation" /\ order[k].expires > now
    /\ k \notin straddled /\ k \notin givenBack =>
       reservation[k].status \in {"payment_pending", "converted"}

(* A cart of the version a checkout has read is the cart it has read; a reserved       *)
(* checkout holds its cart, and the cart outlives it.                                  *)
Quoted(k) ==
    LET c == checkout[k].cart IN
    checkout[k].status # "none" =>
       /\ cart[c].status # "none" /\ checkout[k].version <= cart[c].version
       /\ checkout[k].version = cart[c].version =>
             cart[c].owner = checkout[k].owner /\ cart[c].items = checkout[k].items
Holds(k) ==
    LET c == checkout[k].cart IN
    checkout[k].status = "reserved" =>
       /\ cart[c].owner = checkout[k].owner /\ cart[c].items = checkout[k].items
       /\ checkout[k].expires > now =>
             /\ cart[c].version = checkout[k].version /\ cart[c].status = "active"
             /\ cart[c].expires >= checkout[k].expires

(* One checkout of a cart, and one cart of a customer, at a time.                      *)
Sole ==
    \A k, j \in Checkouts :
       checkout[k].status \in Advanced /\ checkout[j].status \in Advanced
       /\ checkout[k].cart = checkout[j].cart => k = j
OneActive(carts) ==
    \A u \in Customers : \A c, d \in Carts :
       c \in ActiveOf(u, carts) /\ d \in ActiveOf(u, carts) => c = d

(* The uses of a promotion, counted by the redemptions.                                *)
Counted ==
    \A p \in Promotions : IsFiniteSet(Uses(p)) /\ Cardinality(Uses(p)) <= Limit[p]
FirstOnly ==
    \A p, q \in FirstPurchase : \A k \in Uses(p), j \in Uses(q) :
       checkout[k].owner = checkout[j].owner => k = j

StagesInv == \A k \in Checkouts : Stage(k)
TimesInv == \A k \in Checkouts : ListedDue(k) /\ Stocked(k)
CartsInv == (\A k \in Checkouts : Quoted(k) /\ Holds(k)) /\ Sole /\ OneActive(cart)
UsesInv == Counted /\ FirstOnly

Inv == TypeOK /\ StagesInv /\ TimesInv /\ CartsInv /\ UsesInv

-----------------------------------------------------------------------------
(* What steps do to one row, and what follows for the rest.                            *)

\* What any step may do to a cart, what it may do to a cart in checkout, and to whose.
RowStep(a, b) ==
    a.status # "none" =>
       /\ b.status # "none" /\ a.version <= b.version
       /\ a.version = b.version => b.owner = a.owner /\ b.items = a.items
RowKept(a, b) ==
    /\ b.owner = a.owner /\ b.items = a.items
    /\ a.status = "active" /\ a.expires > now =>
          b.status = "active" /\ b.version = a.version /\ b.expires >= a.expires
RowOfOwner(a, b) ==
    b.status = "active" /\ b.owner # Guest => a.status = "active" /\ a.owner = b.owner

\* A quote that is given up; a checkout that a step leaves alone.
GivenUp(row) == [row EXCEPT !.status = "expired"]
CheckoutFrame(k) ==
    \/ checkout'[k] = checkout[k]
    \/ checkout[k].status = "quoted" /\ checkout'[k] = GivenUp(checkout[k])
Frame(k) ==
    /\ CheckoutFrame(k)
    /\ reservation'[k] = reservation[k] /\ redemption'[k] = redemption[k]
    /\ order'[k] = order[k]
    /\ (k \in listed') = (k \in listed) /\ (k \in straddled') = (k \in straddled)
    /\ (k \in late') = (k \in late) /\ (k \in givenBack') = (k \in givenBack)

\* What a frame leaves of a checkout's fields.
LEMMA FrameFacts ==
    ASSUME TypeOK, NEW k \in Checkouts, CheckoutFrame(k)
    PROVE  /\ checkout'[k] \in CheckoutRows
           /\ checkout'[k].cart = checkout[k].cart /\ checkout'[k].owner = checkout[k].owner
           /\ checkout'[k].version = checkout[k].version
           /\ checkout'[k].items = checkout[k].items /\ checkout'[k].apps = checkout[k].apps
           /\ checkout'[k].expires = checkout[k].expires
           /\ \/ checkout'[k].status = checkout[k].status
              \/ checkout[k].status = "quoted" /\ checkout'[k].status = "expired"
BY DEF CheckoutFrame, GivenUp, TypeOK, CheckoutRows

\* A checkout that is left alone keeps its stage, whatever the time.
LEMMA FrameKept ==
    ASSUME TypeOK, NEW k \in Checkouts, Frame(k), now' \in Nat, now <= now',
           Stage(k), ListedDue(k), Stocked(k)
    PROVE  Stage(k)' /\ ListedDue(k)' /\ Stocked(k)'
<1>1. \/ checkout'[k].status = checkout[k].status
      \/ checkout[k].status = "quoted" /\ checkout'[k].status = "expired"
  BY FrameFacts DEF Frame
<1>2. now \in Nat /\ order[k].expires \in Nat /\ reservation[k].expires \in Nat
  BY DEF TypeOK, OrderRows, ReservationRows
<1>3. Stage(k)'
  BY <1>1 DEF Frame, Stage, Reserving
<1>4. ListedDue(k)'
  BY <1>1, <1>2 DEF Frame, ListedDue, Reserving
<1>5. Stocked(k)'
  BY <1>2 DEF Frame, Stocked
<1>. QED BY <1>3, <1>4, <1>5

\* A checkout that is left alone still fits its cart.
LEMMA CartKept ==
    ASSUME TypeOK, NEW k \in Checkouts, CheckoutFrame(k), now' \in Nat, now <= now',
           cart' \in [Carts -> CartRows],
           RowStep(cart[checkout[k].cart], cart'[checkout[k].cart]),
           checkout[k].status = "reserved" =>
              RowKept(cart[checkout[k].cart], cart'[checkout[k].cart]),
           Quoted(k), Holds(k)
    PROVE  Quoted(k)' /\ Holds(k)'
<1>. PICK c \in Carts : c = checkout[k].cart
  BY DEF TypeOK, CheckoutRows
<1>1. /\ cart[c].version \in Nat /\ cart'[c].version \in Nat
      /\ cart[c].expires \in Nat /\ cart'[c].expires \in Nat
      /\ checkout[k].version \in Nat /\ checkout[k].expires \in Nat /\ now \in Nat
  BY DEF TypeOK, CartRows, CheckoutRows
<1>2. checkout'[k].cart = c
  BY FrameFacts
<1>3. Quoted(k)'
  BY <1>1, <1>2, FrameFacts DEF Quoted, RowStep
<1>4. Holds(k)'
  BY <1>1, <1>2, FrameFacts DEF Holds, RowKept
<1>. QED BY <1>3, <1>4

\* No cart gains a customer: none has two.
LEMMA OneActiveKept ==
    ASSUME OneActive(cart), \A c \in Carts : RowOfOwner(cart[c], cart'[c])
    PROVE  OneActive(cart')
BY CheckoutAssumption DEF OneActive, ActiveOf, RowOfOwner

\* No checkout advances: none of a cart beside another.
LEMMA SoleKept ==
    ASSUME Sole, \A k \in Checkouts : checkout'[k].status \in Advanced =>
              checkout[k].status \in Advanced /\ checkout'[k].cart = checkout[k].cart
    PROVE  Sole'
BY DEF Sole

\* No redemption is added: the promotions are used no more than before.
LEMMA UsesKept ==
    ASSUME UsesInv, TypeOK,
           \A k \in Checkouts : redemption'[k] \in {"reserved", "consumed"} =>
              /\ redemption[k] \in {"reserved", "consumed"}
              /\ checkout'[k].apps = checkout[k].apps
              /\ checkout'[k].owner = checkout[k].owner
    PROVE  UsesInv'
<1>1. \A p : Uses(p)' \subseteq Uses(p)
  BY DEF Uses
<1>2. Counted'
  <2>. SUFFICES ASSUME NEW p \in Promotions
                PROVE  IsFiniteSet(Uses(p)') /\ Cardinality(Uses(p)') <= Limit[p]
    BY DEF Counted
  <2>. PICK S : S = Uses(p)
    OBVIOUS
  <2>. PICK T : T = Uses(p)'
    OBVIOUS
  <2>1. IsFiniteSet(S) /\ Cardinality(S) <= Limit[p] /\ T \subseteq S
    BY <1>1 DEF UsesInv, Counted
  <2>2. IsFiniteSet(T) /\ Cardinality(T) <= Cardinality(S)
    BY <2>1, FS_Subset
  <2>3. Cardinality(S) \in Nat /\ Cardinality(T) \in Nat /\ Limit[p] \in Nat
    BY <2>1, <2>2, FS_CardinalityType, CheckoutAssumption
  <2>. QED BY <2>1, <2>2, <2>3
<1>3. FirstOnly'
  <2>. SUFFICES ASSUME NEW p \in FirstPurchase, NEW q \in FirstPurchase,
                       NEW k \in Uses(p)', NEW j \in Uses(q)',
                       checkout'[k].owner = checkout'[j].owner
                PROVE  k = j
    BY DEF FirstOnly
  <2>1. k \in Uses(p) /\ j \in Uses(q)
    BY <1>1
  <2>2. checkout[k].owner = checkout[j].owner
    BY DEF Uses
  <2>. QED BY <2>1, <2>2 DEF UsesInv, FirstOnly
<1>. QED BY <1>2, <1>3 DEF UsesInv

-----------------------------------------------------------------------------
(* The carts.                                                                          *)

\* A step of the carts alone, which may give quotes up: every row makes a legal step, a
\* cart in checkout is kept, and no customer gets a second cart.
LEMMA CartStepInv ==
    ASSUME Inv, cart' \in [Carts -> CartRows], checkout' \in [Checkouts -> CheckoutRows],
           \A k \in Checkouts : CheckoutFrame(k),
           UNCHANGED <<now, reservation, redemption, order, listed, historyVars, staffVars>>,
           \A c \in Carts : RowStep(cart[c], cart'[c]),
           \A c \in Carts : ~NotAdvanced(c) => RowKept(cart[c], cart'[c]),
           OneActive(cart')
    PROVE  Inv'
<1>1. TypeOK /\ now \in Nat /\ now <= now'
  BY DEF Inv, TypeOK
<1>2. TypeOK'
  BY <1>1 DEF TypeOK, historyVars, staffVars
<1>3. \A k \in Checkouts : Frame(k)
  BY DEF Frame, historyVars, staffVars
<1>4. StagesInv' /\ TimesInv'
  BY <1>1, <1>3, FrameKept DEF Inv, StagesInv, TimesInv
<1>5. ASSUME NEW k \in Checkouts PROVE Quoted(k)' /\ Holds(k)'
  <2>1. checkout[k].cart \in Carts
    BY <1>1 DEF TypeOK, CheckoutRows
  <2>2. checkout[k].status = "reserved" => ~NotAdvanced(checkout[k].cart)
    BY DEF NotAdvanced
  <2>. QED BY <1>1, <2>1, <2>2, CartKept DEF Inv, CartsInv
<1>6. Sole'
  <2>1. \A k \in Checkouts : checkout'[k].status \in Advanced =>
           checkout[k].status \in Advanced /\ checkout'[k].cart = checkout[k].cart
    BY <1>1, FrameFacts DEF Advanced
  <2>. QED BY <2>1, SoleKept DEF Inv, CartsInv
<1>7. UsesInv'
  <2>1. \A k \in Checkouts : /\ checkout'[k].apps = checkout[k].apps
                            /\ checkout'[k].owner = checkout[k].owner
    BY <1>1, FrameFacts
  <2>. QED BY <1>1, <2>1, UsesKept DEF Inv
<1>. QED BY <1>2, <1>4, <1>5, <1>6, <1>7 DEF Inv, CartsInv

\* A step of the carts that gives no quote up.
LEMMA CartOnlyInv ==
    ASSUME Inv, cart' \in [Carts -> CartRows], CartOnly,
           \A c \in Carts : RowStep(cart[c], cart'[c]),
           \A c \in Carts : ~NotAdvanced(c) => RowKept(cart[c], cart'[c]),
           OneActive(cart')
    PROVE  Inv'
<1>1. checkout' \in [Checkouts -> CheckoutRows] /\ \A k \in Checkouts : CheckoutFrame(k)
  BY DEF Inv, TypeOK, CartOnly, CheckoutFrame
<1>. QED BY <1>1, CartStepInv DEF CartOnly

\* An expired cart keeps its owner and its items, and was due.
LEMMA ExpiredFacts ==
    ASSUME TypeOK, NEW c \in Carts, Due(cart[c])
    PROVE  /\ Expired(cart[c]) \in CartRows
           /\ Expired(cart[c]).status = "expired" /\ Expired(cart[c]).owner = cart[c].owner
           /\ RowStep(cart[c], Expired(cart[c])) /\ RowKept(cart[c], Expired(cart[c]))
<1>. PICK o \in CartRows : o = cart[c]
  BY DEF TypeOK
<1>0. o.version \in Nat
  BY DEF CartRows
<1>. PICK v \in Nat : v = o.version + 1
  BY <1>0
<1>. PICK e : e = [o EXCEPT !.status = "expired", !.version = v]
  OBVIOUS
<1>1. /\ e \in CartRows /\ e.status = "expired" /\ e.owner = o.owner /\ e.items = o.items
      /\ e.version = o.version + 1 /\ o.version \in Nat
  BY <1>0 DEF CartRows
<1>2. o.expires \in Nat /\ o.expires <= now /\ now \in Nat
  BY DEF Due, TypeOK, CartRows
<1>3. Expired(cart[c]) = e
  BY DEF Expired
<1>. QED BY <1>1, <1>2, <1>3 DEF RowStep, RowKept

\* What the sweep of a customer's due cart does to every cart.
LEMMA DueExpiredFacts ==
    ASSUME TypeOK, NEW u
    PROVE  /\ DueExpired(u) \in [Carts -> CartRows]
           /\ \A c \in Carts :
                 /\ RowStep(cart[c], DueExpired(u)[c]) /\ RowKept(cart[c], DueExpired(u)[c])
                 /\ DueExpired(u)[c].owner = cart[c].owner
                 /\ DueExpired(u)[c].items = cart[c].items
                 /\ \/ DueExpired(u)[c] = cart[c] /\ ~(cart[c].owner = u /\ Due(cart[c]))
                    \/ DueExpired(u)[c].status = "expired" /\ cart[c].status = "active"
<1>. SUFFICES ASSUME NEW c \in Carts
              PROVE  /\ DueExpired(u)[c] \in CartRows
                     /\ RowStep(cart[c], DueExpired(u)[c]) /\ RowKept(cart[c], DueExpired(u)[c])
                     /\ DueExpired(u)[c].owner = cart[c].owner
                     /\ DueExpired(u)[c].items = cart[c].items
                     /\ \/ DueExpired(u)[c] = cart[c] /\ ~(cart[c].owner = u /\ Due(cart[c]))
                        \/ DueExpired(u)[c].status = "expired" /\ cart[c].status = "active"
  BY DEF DueExpired
<1>1. CASE cart[c].owner = u /\ Due(cart[c])
  <2>1. DueExpired(u)[c] = Expired(cart[c])
    BY <1>1 DEF DueExpired
  <2>2. Expired(cart[c]).items = cart[c].items
    BY <1>1, ExpiredFacts DEF RowKept
  <2>3. cart[c].status = "active"
    BY <1>1 DEF Due
  <2>. QED BY <1>1, <2>1, <2>2, <2>3, ExpiredFacts
<1>2. CASE ~(cart[c].owner = u /\ Due(cart[c]))
  <2>1. DueExpired(u)[c] = cart[c]
    BY <1>2 DEF DueExpired
  <2>2. cart[c] \in CartRows /\ cart[c].version \in Nat /\ cart[c].expires \in Nat
    BY DEF TypeOK, CartRows
  <2>. QED BY <1>2, <2>1, <2>2 DEF RowStep, RowKept
<1>. QED BY <1>1, <1>2

\* A row that stays as it is makes a legal step.
LEMMA RowSelf ==
    ASSUME NEW row \in CartRows
    PROVE  RowStep(row, row) /\ RowKept(row, row) /\ RowOfOwner(row, row)
BY DEF RowStep, RowKept, RowOfOwner, CartRows

\* A legal step of one cart is a legal step of all.
LEMMA OneRow ==
    ASSUME TypeOK, NEW c \in Carts, NEW e \in CartRows, cart' = [cart EXCEPT ![c] = e],
           RowStep(cart[c], e)
    PROVE  /\ cart' \in [Carts -> CartRows] /\ cart'[c] = e
           /\ \A d \in Carts : RowStep(cart[d], cart'[d])
           /\ \A d \in Carts \ {c} : cart'[d] = cart[d] /\ RowKept(cart[d], cart'[d])
<1>1. /\ cart' \in [Carts -> CartRows] /\ cart'[c] = e
      /\ \A d \in Carts \ {c} : cart'[d] = cart[d] /\ cart[d] \in CartRows
  BY DEF TypeOK
<1>2. \A d \in Carts \ {c} : RowStep(cart[d], cart'[d]) /\ RowKept(cart[d], cart'[d])
  BY <1>1, RowSelf
<1>. QED BY <1>1, <1>2

\* A cart expires when it is due: a cart in checkout is not, as it outlives the checkout.
LEMMA ExpireCartInv ==
    ASSUME Inv, NEW c \in Carts, ExpireCart(c)
    PROVE  Inv'
<1>1. TypeOK /\ Due(cart[c])
  BY DEF Inv, ExpireCart
<1>. PICK e : e = Expired(cart[c])
  OBVIOUS
<1>2. /\ e \in CartRows /\ e.status = "expired"
      /\ RowStep(cart[c], e) /\ RowKept(cart[c], e)
  BY <1>1, ExpiredFacts
<1>3. cart' = [cart EXCEPT ![c] = e]
  BY <1>1 DEF ExpireCart, TypeOK
<1>4. /\ cart' \in [Carts -> CartRows] /\ cart'[c] = e
      /\ \A d \in Carts : RowStep(cart[d], cart'[d])
      /\ \A d \in Carts \ {c} : cart'[d] = cart[d] /\ RowKept(cart[d], cart'[d])
  BY <1>1, <1>2, <1>3, OneRow
<1>5. \A d \in Carts : RowOfOwner(cart[d], cart'[d])
  BY <1>2, <1>4 DEF RowOfOwner
<1>6. OneActive(cart')
  BY <1>5, OneActiveKept DEF Inv, CartsInv
<1>. QED BY <1>2, <1>4, <1>6, CartOnlyInv DEF ExpireCart

\* An edit moves the version on, and is refused to a cart in checkout.
LEMMA EditInv ==
    ASSUME Inv, NEW c \in Carts, NEW q \in 0..MaxQuantity, Edit(c, q)
    PROVE  Inv'
<1>1. TypeOK /\ q \in Nat
  BY CheckoutAssumption DEF Inv
<1>. PICK o \in CartRows : o = cart[c]
  BY <1>1 DEF TypeOK
<1>0. o.version \in Nat
  BY DEF CartRows
<1>. PICK v \in Nat : v = o.version + 1
  BY <1>0
<1>. PICK e : e = [o EXCEPT !.items = q, !.version = v]
  OBVIOUS
<1>2. /\ e \in CartRows /\ e.status = o.status /\ e.owner = o.owner
      /\ e.version = o.version + 1 /\ o.version \in Nat
  BY <1>0, <1>1 DEF CartRows
<1>3. RowStep(cart[c], e)
  BY <1>2 DEF RowStep
<1>4. cart' = [cart EXCEPT ![c] = e]
  BY <1>1 DEF Edit, TypeOK
<1>5. /\ cart' \in [Carts -> CartRows] /\ cart'[c] = e
      /\ \A d \in Carts : RowStep(cart[d], cart'[d])
      /\ \A d \in Carts \ {c} : cart'[d] = cart[d] /\ RowKept(cart[d], cart'[d])
  BY <1>1, <1>2, <1>3, <1>4, OneRow
<1>6. \A d \in Carts : ~NotAdvanced(d) => RowKept(cart[d], cart'[d])
  BY <1>5 DEF Edit
<1>7. \A d \in Carts : RowOfOwner(cart[d], cart'[d])
  BY <1>2, <1>5 DEF RowOfOwner
<1>8. OneActive(cart')
  BY <1>7, OneActiveKept DEF Inv, CartsInv
<1>. QED BY <1>5, <1>6, <1>8, CartOnlyInv DEF Edit

-----------------------------------------------------------------------------
(* New carts, and the carts of customers who sign in.                                  *)

\* A new cart has no checkout and no customer.
LEMMA CreateInv ==
    ASSUME Inv, NEW c \in Carts, Create(c)
    PROVE  Inv'
<1>1. TypeOK /\ now + CartTtl \in Nat /\ Guest \in Owners
  BY CheckoutAssumption DEF Inv, TypeOK, Owners
<1>. PICK e : e = [status |-> "active", owner |-> Guest, version |-> 1, items |-> 0,
                   expires |-> now + CartTtl]
  OBVIOUS
<1>2. e \in CartRows /\ e.owner = Guest
  BY <1>1 DEF CartRows
<1>3. cart' = [cart EXCEPT ![c] = e] /\ cart[c].status = "none"
  BY DEF Create, NewCart
<1>4. RowStep(cart[c], e)
  BY <1>3 DEF RowStep
<1>5. /\ cart' \in [Carts -> CartRows] /\ cart'[c] = e
      /\ \A d \in Carts : RowStep(cart[d], cart'[d])
      /\ \A d \in Carts \ {c} : cart'[d] = cart[d] /\ RowKept(cart[d], cart'[d])
  BY <1>1, <1>2, <1>3, <1>4, OneRow
<1>6. NotAdvanced(c)
  BY <1>3 DEF Inv, CartsInv, Quoted, NotAdvanced
<1>7. \A d \in Carts : RowOfOwner(cart[d], cart'[d])
  BY <1>2, <1>5 DEF RowOfOwner
<1>8. OneActive(cart')
  BY <1>7, OneActiveKept DEF Inv, CartsInv
<1>. QED BY <1>5, <1>6, <1>8, CartOnlyInv DEF Create

\* A customer without a cart may get one: who had none, has one.
LEMMA OneActiveGained ==
    ASSUME OneActive(cart), NEW u \in Customers, NEW c \in Carts,
           NEW carts, ActiveOf(u, carts) = {},
           \A d \in Carts : RowOfOwner(cart[d], carts[d]),
           \A d \in Carts \ {c} : cart'[d] = carts[d], cart'[c].owner = u
    PROVE  OneActive(cart')
<1>. SUFFICES ASSUME NEW v \in Customers, NEW x \in Carts, NEW y \in Carts,
                     x \in ActiveOf(v, cart'), y \in ActiveOf(v, cart')
              PROVE  x = y
  BY DEF OneActive
<1>1. CASE v = u
  <2>1. \A d \in Carts \ {c} : d \notin ActiveOf(u, cart')
    BY DEF ActiveOf
  <2>. QED BY <1>1, <2>1
<1>2. CASE v # u
  <2>1. x # c /\ y # c
    BY <1>2 DEF ActiveOf
  <2>2. x \in ActiveOf(v, cart) /\ y \in ActiveOf(v, cart)
    BY <2>1, CheckoutAssumption DEF ActiveOf, RowOfOwner
  <2>. QED BY <2>2 DEF OneActive
<1>. QED BY <1>1, <1>2

\* A customer gets a cart where the due one was expired and there is no other.
LEMMA CustomerAccessInv ==
    ASSUME Inv, NEW u \in Customers, NEW c \in Carts, CustomerAccess(u, c)
    PROVE  Inv'
<1>1. TypeOK /\ now + CartTtl \in Nat /\ u \in Owners
  BY CheckoutAssumption DEF Inv, TypeOK, Owners
<1>. PICK x : x = DueExpired(u)
  OBVIOUS
<1>2. /\ x \in [Carts -> CartRows]
      /\ \A d \in Carts :
            /\ RowStep(cart[d], x[d]) /\ RowKept(cart[d], x[d])
            /\ x[d].owner = cart[d].owner
            /\ \/ x[d] = cart[d] /\ ~(cart[d].owner = u /\ Due(cart[d]))
               \/ x[d].status = "expired" /\ cart[d].status = "active"
  BY <1>1, DueExpiredFacts
<1>. PICK e : e = [status |-> "active", owner |-> u, version |-> 1, items |-> 0,
                   expires |-> now + CartTtl]
  OBVIOUS
<1>3. e \in CartRows /\ e.owner = u
  BY <1>1 DEF CartRows
<1>4. cart' = [x EXCEPT ![c] = e] /\ x[c].status = "none" /\ ActiveOf(u, x) = {}
  BY DEF CustomerAccess, NewCart
<1>5. /\ cart' \in [Carts -> CartRows] /\ cart'[c] = e
      /\ \A d \in Carts \ {c} : cart'[d] = x[d]
  BY <1>2, <1>3, <1>4
<1>6. cart[c].status = "none"
  BY <1>2, <1>4
<1>7. NotAdvanced(c)
  BY <1>6 DEF Inv, CartsInv, Quoted, NotAdvanced
<1>8. \A d \in Carts : RowStep(cart[d], cart'[d])
  <2>1. RowStep(cart[c], cart'[c])
    BY <1>6 DEF RowStep
  <2>. QED BY <1>2, <1>5, <2>1
<1>9. \A d \in Carts : ~NotAdvanced(d) => RowKept(cart[d], cart'[d])
  BY <1>2, <1>5, <1>7
<1>10. \A d \in Carts : RowOfOwner(cart[d], x[d])
  BY <1>2 DEF RowOfOwner
<1>11. OneActive(cart')
  BY <1>3, <1>4, <1>5, <1>10, OneActiveGained DEF Inv, CartsInv
<1>. QED BY <1>5, <1>8, <1>9, <1>11, CartOnlyInv DEF CustomerAccess

\* Quotes are given up in rows that keep all else.
LEMMA QuotesExpiredFacts ==
    ASSUME TypeOK, NEW carts, checkout' = QuotesExpired(carts)
    PROVE  checkout' \in [Checkouts -> CheckoutRows] /\ \A k \in Checkouts : CheckoutFrame(k)
<1>1. \A k \in Checkouts : CheckoutFrame(k)
  BY DEF QuotesExpired, CheckoutFrame, GivenUp
<1>2. \A k \in Checkouts : checkout'[k] \in CheckoutRows
  BY <1>1, FrameFacts
<1>3. checkout' = [k \in Checkouts |-> checkout'[k]]
  BY DEF QuotesExpired
<1>. QED BY <1>1, <1>2, <1>3

\* The guest's cart, while it is used, is out of the sweep's reach.
LEMMA GuestsCart ==
    ASSUME TypeOK, NEW u \in Customers, NEW s \in Carts, Usable(s), cart[s].owner = Guest
    PROVE  DueExpired(u)[s] = cart[s]
<1>1. ~(cart[s].owner = u /\ Due(cart[s]))
  BY CheckoutAssumption
<1>. QED BY <1>1 DEF DueExpired

\* The customer takes the guest's cart over.
LEMMA TakeOverInv ==
    ASSUME Inv, NEW u \in Customers, NEW s \in Carts, MergeGuest(u, s),
           ActiveOf(u, DueExpired(u)) = {},
           cart' = [DueExpired(u) EXCEPT ![s].owner = u, ![s].version = @ + 1],
           checkout' = QuotesExpired({s})
    PROVE  Inv'
<1>1. TypeOK /\ u \in Owners
  BY DEF Inv, Owners
<1>2. Usable(s) /\ cart[s].owner = Guest /\ NotAdvanced(s)
  BY DEF MergeGuest
<1>. PICK x : x = DueExpired(u)
  OBVIOUS
<1>3. /\ x \in [Carts -> CartRows]
      /\ \A d \in Carts :
            /\ RowStep(cart[d], x[d]) /\ RowKept(cart[d], x[d])
            /\ x[d].owner = cart[d].owner /\ x[d].items = cart[d].items
            /\ \/ x[d] = cart[d] /\ ~(cart[d].owner = u /\ Due(cart[d]))
               \/ x[d].status = "expired" /\ cart[d].status = "active"
  BY <1>1, DueExpiredFacts
<1>. PICK o \in CartRows : o = x[s]
  BY <1>3
<1>4. o = cart[s] /\ o.version \in Nat
  BY <1>1, <1>2, GuestsCart DEF CartRows
<1>. PICK v \in Nat : v = o.version + 1
  BY <1>4
<1>. PICK e : e = [o EXCEPT !.owner = u, !.version = v]
  OBVIOUS
<1>5. e \in CartRows /\ e.owner = u /\ e.status = o.status /\ e.version = o.version + 1
  BY <1>1, <1>4 DEF CartRows
<1>6. cart' = [x EXCEPT ![s] = e]
  BY <1>3
<1>7. /\ cart' \in [Carts -> CartRows] /\ cart'[s] = e
      /\ \A d \in Carts \ {s} : cart'[d] = x[d]
  BY <1>3, <1>5, <1>6
<1>8. \A d \in Carts : RowStep(cart[d], cart'[d])
  <2>1. RowStep(cart[s], cart'[s])
    BY <1>4, <1>5, <1>7 DEF RowStep
  <2>. QED BY <1>3, <1>7, <2>1
<1>9. \A d \in Carts : ~NotAdvanced(d) => RowKept(cart[d], cart'[d])
  BY <1>2, <1>3, <1>7
<1>10. \A d \in Carts : RowOfOwner(cart[d], x[d])
  BY <1>3 DEF RowOfOwner
<1>11. OneActive(cart')
  <2>1. ActiveOf(u, x) = {} /\ OneActive(cart)
    BY DEF Inv, CartsInv
  <2>2. cart'[s].owner = u
    BY <1>5, <1>7
  <2>. QED BY <1>7, <1>10, <2>1, <2>2, OneActiveGained
<1>12. checkout' \in [Checkouts -> CheckoutRows] /\ \A k \in Checkouts : CheckoutFrame(k)
  BY <1>1, QuotesExpiredFacts
<1>. QED BY <1>7, <1>8, <1>9, <1>11, <1>12, CartStepInv DEF MergeGuest

\* The items of the guest's cart join those of the customer's.
LEMMA JoinInv ==
    ASSUME Inv, NEW u \in Customers, NEW s \in Carts, MergeGuest(u, s),
           NEW t \in ActiveOf(u, DueExpired(u)), NotAdvanced(t),
           cart' = Merged(DueExpired(u), s, t), checkout' = QuotesExpired({s, t})
    PROVE  Inv'
<1>1. TypeOK
  BY DEF Inv
<1>2. Usable(s) /\ cart[s].owner = Guest /\ NotAdvanced(s)
  BY DEF MergeGuest
<1>. PICK x : x = DueExpired(u)
  OBVIOUS
<1>3. /\ x \in [Carts -> CartRows]
      /\ \A d \in Carts :
            /\ RowStep(cart[d], x[d]) /\ RowKept(cart[d], x[d])
            /\ x[d].owner = cart[d].owner /\ x[d].items = cart[d].items
            /\ \/ x[d] = cart[d] /\ ~(cart[d].owner = u /\ Due(cart[d]))
               \/ x[d].status = "expired" /\ cart[d].status = "active"
  BY <1>1, DueExpiredFacts
<1>4. t \in Carts /\ x[t] = cart[t] /\ x[s] = cart[s] /\ t # s
  <2>1. t \in Carts /\ x[t].owner = u /\ x[t].status = "active"
    BY DEF ActiveOf
  <2>2. x[s] = cart[s]
    BY <1>1, <1>2, GuestsCart
  <2>. QED BY <1>2, <1>3, <2>1, <2>2, CheckoutAssumption
<1>. PICK o \in CartRows : o = x[s]
  BY <1>3
<1>. PICK p \in CartRows : p = x[t]
  BY <1>3, <1>4
<1>5. o.version \in Nat /\ p.version \in Nat /\ o.items \in Nat /\ p.items \in Nat
  BY DEF CartRows
<1>. PICK i \in Nat : i = p.items + o.items
  BY <1>5
<1>. PICK v \in Nat : v = p.version + IF o.items > 0 THEN 1 ELSE 0
  BY <1>5
<1>. PICK w \in Nat : w = o.version + 1
  BY <1>5
<1>. PICK e : e = [o EXCEPT !.status = "converted", !.version = w]
  OBVIOUS
<1>. PICK f : f = [p EXCEPT !.items = i, !.version = v]
  OBVIOUS
<1>6. e \in CartRows /\ e.status = "converted" /\ e.version = w
  BY DEF CartRows
<1>7. /\ f \in CartRows /\ f.status = p.status /\ f.owner = p.owner
      /\ f.version = v /\ f.items = i
  BY DEF CartRows
<1>8. RowStep(cart[s], e)
  BY <1>4, <1>5, <1>6 DEF RowStep
<1>9. RowStep(cart[t], f)
  BY <1>4, <1>5, <1>7 DEF RowStep
<1>10. cart' = [x EXCEPT ![t] = f, ![s] = e]
  BY <1>3, <1>4 DEF Merged
<1>11. /\ cart' \in [Carts -> CartRows] /\ cart'[s] = e /\ cart'[t] = f
       /\ \A d \in Carts \ {s, t} : cart'[d] = x[d]
  BY <1>3, <1>4, <1>6, <1>7, <1>10
<1>12. \A d \in Carts : RowStep(cart[d], cart'[d])
  BY <1>3, <1>8, <1>9, <1>11
<1>13. \A d \in Carts : ~NotAdvanced(d) => RowKept(cart[d], cart'[d])
  BY <1>2, <1>3, <1>11
<1>14. \A d \in Carts : RowOfOwner(cart[d], cart'[d])
  <2>1. RowOfOwner(cart[s], e) /\ RowOfOwner(cart[t], f)
    BY <1>4, <1>6, <1>7 DEF RowOfOwner
  <2>2. \A d \in Carts : RowOfOwner(cart[d], x[d])
    BY <1>3 DEF RowOfOwner
  <2>. QED BY <1>11, <2>1, <2>2
<1>15. OneActive(cart')
  BY <1>14, OneActiveKept DEF Inv, CartsInv
<1>16. checkout' \in [Checkouts -> CheckoutRows] /\ \A k \in Checkouts : CheckoutFrame(k)
  BY <1>1, QuotesExpiredFacts
<1>. QED BY <1>11, <1>12, <1>13, <1>15, <1>16, CartStepInv DEF MergeGuest

\* Signing in: the customer takes the guest's cart over, or its items.
LEMMA MergeGuestInv ==
    ASSUME Inv, NEW u \in Customers, NEW s \in Carts, MergeGuest(u, s)
    PROVE  Inv'
<1>1. \/ /\ ActiveOf(u, DueExpired(u)) = {}
         /\ cart' = [DueExpired(u) EXCEPT ![s].owner = u, ![s].version = @ + 1]
         /\ checkout' = QuotesExpired({s})
      \/ \E t \in ActiveOf(u, DueExpired(u)) :
            /\ NotAdvanced(t) /\ cart' = Merged(DueExpired(u), s, t)
            /\ checkout' = QuotesExpired({s, t})
  BY DEF MergeGuest
<1>. QED BY <1>1, TakeOverInv, JoinInv

-----------------------------------------------------------------------------
(* Steps of one checkout.                                                              *)

\* The other checkouts keep their stages.
LEMMA OthersKept ==
    ASSUME Inv, NEW k \in Checkouts, \A j \in Checkouts \ {k} : Frame(j), now' = now,
           Stage(k)', ListedDue(k)', Stocked(k)'
    PROVE  StagesInv' /\ TimesInv'
<1>1. TypeOK /\ now' \in Nat /\ now <= now'
  BY DEF Inv, TypeOK
<1>2. \A j \in Checkouts \ {k} : Stage(j)' /\ ListedDue(j)' /\ Stocked(j)'
  BY <1>1, FrameKept DEF Inv, StagesInv, TimesInv
<1>3. \A j \in Checkouts : Stage(j)' /\ ListedDue(j)' /\ Stocked(j)'
  BY <1>2
<1>. QED BY <1>3 DEF StagesInv, TimesInv

\* Where neither carts nor checkouts change, what relates them stays.
LEMMA CartsSame ==
    ASSUME CartsInv, cart' = cart, checkout' = checkout, now' = now
    PROVE  CartsInv'
<1>1. \A k \in Checkouts : Quoted(k)' /\ Holds(k)'
  BY DEF CartsInv, Quoted, Holds
<1>2. Sole' /\ OneActive(cart')
  BY DEF CartsInv, Sole
<1>. QED BY <1>1, <1>2 DEF CartsInv

\* Carts and checkouts after a step of one checkout and its cart.
LEMMA CartsAfter ==
    ASSUME Inv, NEW k \in Checkouts, \A j \in Checkouts \ {k} : checkout'[j] = checkout[j],
           now' = now, cart' \in [Carts -> CartRows],
           \A c \in Carts : RowStep(cart[c], cart'[c]),
           \A j \in Checkouts \ {k} : checkout[j].status = "reserved" =>
              RowKept(cart[checkout[j].cart], cart'[checkout[j].cart]),
           Quoted(k)', Holds(k)', Sole', \A c \in Carts : RowOfOwner(cart[c], cart'[c])
    PROVE  CartsInv'
<1>1. TypeOK /\ now' \in Nat /\ now <= now'
  BY DEF Inv, TypeOK
<1>2. ASSUME NEW j \in Checkouts \ {k} PROVE Quoted(j)' /\ Holds(j)'
  <2>1. checkout[j].cart \in Carts /\ CheckoutFrame(j)
    BY <1>1 DEF TypeOK, CheckoutRows, CheckoutFrame
  <2>2. Quoted(j) /\ Holds(j)
    BY DEF Inv, CartsInv
  <2>. QED BY <1>1, <2>1, <2>2, CartKept
<1>3. OneActive(cart')
  BY OneActiveKept DEF Inv, CartsInv
<1>4. \A j \in Checkouts : Quoted(j)' /\ Holds(j)'
  BY <1>2
<1>. QED BY <1>3, <1>4 DEF CartsInv

\* A cart whose expiry is extended.
LEMMA ExtendedFacts ==
    ASSUME TypeOK, NEW c \in Carts, NEW until \in Nat, cart' = Extended(c, until)
    PROVE  /\ cart' \in [Carts -> CartRows]
           /\ \A d \in Carts : /\ RowStep(cart[d], cart'[d])
                               /\ RowKept(cart[d], cart'[d])
                               /\ RowOfOwner(cart[d], cart'[d])
           /\ cart'[c].status = cart[c].status /\ cart'[c].version = cart[c].version
           /\ cart'[c].owner = cart[c].owner /\ cart'[c].items = cart[c].items
           /\ cart'[c].expires >= until
<1>. PICK o \in CartRows : o = cart[c]
  BY DEF TypeOK
<1>1. o.expires \in Nat
  BY DEF CartRows
<1>. PICK x \in Nat : x = Later(o.expires, until)
  BY <1>1 DEF Later
<1>2. x >= o.expires /\ x >= until
  BY <1>1 DEF Later
<1>. PICK e : e = [o EXCEPT !.expires = x]
  OBVIOUS
<1>3. /\ e \in CartRows /\ e.status = o.status /\ e.owner = o.owner
      /\ e.version = o.version /\ e.items = o.items /\ e.expires = x
  BY DEF CartRows
<1>4. cart' = [cart EXCEPT ![c] = e]
  BY DEF Extended, TypeOK
<1>5. o.version \in Nat
  BY DEF CartRows
<1>6. RowStep(cart[c], e) /\ RowKept(cart[c], e) /\ RowOfOwner(cart[c], e)
  BY <1>1, <1>2, <1>3, <1>5 DEF RowStep, RowKept, RowOfOwner
<1>7. /\ cart' \in [Carts -> CartRows] /\ cart'[c] = e
      /\ \A d \in Carts : RowStep(cart[d], cart'[d])
      /\ \A d \in Carts \ {c} : cart'[d] = cart[d] /\ RowKept(cart[d], cart'[d])
  BY <1>3, <1>4, <1>6, OneRow
<1>8. \A d \in Carts : RowKept(cart[d], cart'[d]) /\ RowOfOwner(cart[d], cart'[d])
  BY <1>6, <1>7 DEF RowOfOwner
<1>. QED BY <1>2, <1>3, <1>7, <1>8

\* A quote writes down the cart as it is.
LEMMA QuoteInv ==
    ASSUME Inv, NEW c \in Carts, NEW k \in Checkouts, NEW apps \in SUBSET Promotions,
           Quote(c, k, apps)
    PROVE  Inv'
<1>1. /\ TypeOK /\ now + CheckoutTtl \in Nat /\ checkout[k].status = "none"
      /\ now' = now /\ Stage(k) /\ cart[c].status = "active"
  BY CheckoutAssumption DEF Inv, StagesInv, TypeOK, Quote, Usable
<1>. PICK o \in CartRows : o = cart[c]
  BY <1>1 DEF TypeOK
<1>2. o.owner \in Owners /\ o.version \in Nat /\ o.items \in Nat
  BY DEF CartRows
<1>. PICK e : e = [status |-> "quoted", cart |-> c, owner |-> o.owner, version |-> o.version,
                   items |-> o.items, apps |-> apps, expires |-> now + CheckoutTtl]
  OBVIOUS
<1>3. /\ e \in CheckoutRows /\ e.status = "quoted" /\ e.cart = c
      /\ e.owner = o.owner /\ e.version = o.version /\ e.items = o.items
  BY <1>1, <1>2 DEF CheckoutRows
<1>4. checkout' = [checkout EXCEPT ![k] = e]
  BY DEF Quote
<1>5. /\ checkout' \in [Checkouts -> CheckoutRows] /\ checkout'[k] = e
      /\ \A j \in Checkouts \ {k} : checkout'[j] = checkout[j]
  BY <1>1, <1>3, <1>4 DEF TypeOK
<1>6. cart' = Extended(c, now + CheckoutTtl)
  BY DEF Quote
<1>7. /\ cart' \in [Carts -> CartRows]
      /\ \A d \in Carts : /\ RowStep(cart[d], cart'[d]) /\ RowKept(cart[d], cart'[d])
                          /\ RowOfOwner(cart[d], cart'[d])
      /\ cart'[c].status = cart[c].status /\ cart'[c].version = cart[c].version
      /\ cart'[c].owner = cart[c].owner /\ cart'[c].items = cart[c].items
  BY <1>1, <1>6, ExtendedFacts
<1>8. TypeOK'
  BY <1>1, <1>5, <1>7 DEF TypeOK, Quote, historyVars, staffVars
<1>9. StagesInv' /\ TimesInv'
  <2>1. \A j \in Checkouts \ {k} : Frame(j)
    BY <1>5 DEF Frame, CheckoutFrame, Quote, historyVars, staffVars
  <2>2. Stage(k)' /\ ListedDue(k)' /\ Stocked(k)'
    BY <1>1, <1>3, <1>5 DEF Stage, ListedDue, Stocked, Quote, Reserving
  <2>. QED BY <1>1, <2>1, <2>2, OthersKept
<1>10. CartsInv'
  <2>1. Quoted(k)' /\ Holds(k)'
    BY <1>1, <1>2, <1>3, <1>5, <1>7 DEF Quoted, Holds
  <2>2. Sole'
    <3>1. \A j \in Checkouts : checkout'[j].status \in Advanced =>
             checkout[j].status \in Advanced /\ checkout'[j].cart = checkout[j].cart
      BY <1>3, <1>5 DEF Advanced
    <3>. QED BY <3>1, SoleKept DEF Inv, CartsInv
  <2>3. \A j \in Checkouts : checkout[j].cart \in Carts
    BY <1>1 DEF TypeOK, CheckoutRows
  <2>. QED BY <1>1, <1>5, <1>7, <2>1, <2>2, <2>3, CartsAfter
<1>11. UsesInv'
  <2>1. redemption' = redemption /\ redemption[k] = "none"
    BY <1>1 DEF Stage, Quote
  <2>. QED BY <1>1, <1>5, <2>1, UsesKept DEF Inv
<1>. QED BY <1>8, <1>9, <1>10, <1>11 DEF Inv

\* The promotions of a reservation have been counted without it, and it is counted once.
LEMMA ReserveUses ==
    ASSUME Inv, NEW k \in Checkouts, Reservable(k),
           redemption' = [redemption EXCEPT ![k] = "reserved"],
           \A j \in Checkouts : /\ checkout'[j].apps = checkout[j].apps
                                /\ checkout'[j].owner = checkout[j].owner
    PROVE  UsesInv'
<1>1. /\ redemption'[k] = "reserved"
      /\ \A j \in Checkouts \ {k} : redemption'[j] = redemption[j]
  BY DEF Inv, TypeOK
<1>2. \A p : Uses(p)' \subseteq Uses(p) \cup {k} /\ (k \in Uses(p)' => p \in checkout[k].apps)
  BY <1>1 DEF Uses
<1>3. Counted'
  <2>. SUFFICES ASSUME NEW p \in Promotions
                PROVE  IsFiniteSet(Uses(p)') /\ Cardinality(Uses(p)') <= Limit[p]
    BY DEF Counted
  <2>. PICK S : S = Uses(p)
    OBVIOUS
  <2>. PICK T : T = Uses(p)'
    OBVIOUS
  <2>1. IsFiniteSet(S) /\ Cardinality(S) <= Limit[p] /\ Limit[p] \in Nat
    BY CheckoutAssumption DEF Inv, UsesInv, Counted
  <2>2. CASE k \notin T
    <3>1. T \subseteq S
      BY <1>2, <2>2
    <3>2. IsFiniteSet(T) /\ Cardinality(T) <= Cardinality(S)
      BY <2>1, <3>1, FS_Subset
    <3>3. Cardinality(S) \in Nat /\ Cardinality(T) \in Nat
      BY <2>1, <3>2, FS_CardinalityType
    <3>. QED BY <2>1, <3>2, <3>3
  <2>3. CASE k \in T
    <3>1. p \in checkout[k].apps
      BY <1>2, <2>3
    <3>. PICK R : R = S \ {k}
      OBVIOUS
    <3>2. Cardinality(R) < Limit[p]
      BY <3>1 DEF Reservable
    <3>3. IsFiniteSet(R) /\ k \notin R
      BY <2>1, FS_Subset
    <3>4. /\ IsFiniteSet(R \cup {k}) /\ Cardinality(R \cup {k}) = Cardinality(R) + 1
          /\ Cardinality(R) \in Nat
      BY <3>3, FS_AddElement, FS_CardinalityType
    <3>5. T \subseteq R \cup {k}
      BY <1>2
    <3>6. IsFiniteSet(T) /\ Cardinality(T) <= Cardinality(R \cup {k})
      BY <3>4, <3>5, FS_Subset
    <3>7. Cardinality(T) \in Nat
      BY <3>6, FS_CardinalityType
    <3>. QED BY <2>1, <3>2, <3>4, <3>6, <3>7
  <2>. QED BY <2>2, <2>3
<1>4. FirstOnly'
  <2>. SUFFICES ASSUME NEW p \in FirstPurchase, NEW q \in FirstPurchase,
                       NEW i \in Uses(p)', NEW j \in Uses(q)',
                       checkout'[i].owner = checkout'[j].owner, i # j
                PROVE  FALSE
    BY DEF FirstOnly
  <2>1. i \in Checkouts /\ j \in Checkouts /\ checkout[i].owner = checkout[j].owner
    BY DEF Uses
  <2>2. CASE i = k
    <3>1. p \in checkout[k].apps /\ j \in Uses(q) \ {k}
      BY <1>2, <2>2
    <3>. QED BY <2>1, <2>2, <3>1 DEF Reservable
  <2>3. CASE j = k
    <3>1. q \in checkout[k].apps /\ i \in Uses(p) \ {k}
      BY <1>2, <2>3
    <3>. QED BY <2>1, <2>3, <3>1 DEF Reservable
  <2>4. CASE i # k /\ j # k
    <3>1. i \in Uses(p) /\ j \in Uses(q)
      BY <1>2, <2>4
    <3>. QED BY <2>1, <3>1 DEF Inv, UsesInv, FirstOnly
  <2>. QED BY <2>2, <2>3, <2>4
<1>. QED BY <1>3, <1>4 DEF UsesInv

\* A reservation is of the cart as it was quoted, the first of the cart, and counted.
LEMMA ReserveInv ==
    ASSUME Inv, NEW k \in Checkouts, Reserve(k)
    PROVE  Inv'
<1>. PICK c \in Carts : c = checkout[k].cart
  BY DEF Inv, TypeOK, CheckoutRows
<1>1. /\ TypeOK /\ now + ReservationTtl \in Nat /\ checkout[k].status = "quoted"
      /\ now' = now /\ Stage(k) /\ cart[c].status = "active"
      /\ cart[c].version = checkout[k].version /\ NotAdvanced(c) /\ Quoted(k)
  BY CheckoutAssumption DEF Inv, StagesInv, CartsInv, TypeOK, Reserve
<1>. PICK o \in CheckoutRows : o = checkout[k]
  BY <1>1 DEF TypeOK
<1>. PICK x \in Nat : x = now + ReservationTtl
  BY <1>1
<1>. PICK e : e = [o EXCEPT !.status = "reserved", !.expires = x]
  OBVIOUS
<1>2. /\ e \in CheckoutRows /\ e.status = "reserved" /\ e.cart = c /\ e.owner = o.owner
      /\ e.version = o.version /\ e.items = o.items /\ e.apps = o.apps /\ e.expires = x
  BY DEF CheckoutRows
<1>3. checkout' = [checkout EXCEPT ![k] = e]
  BY <1>1 DEF Reserve, TypeOK
<1>4. /\ checkout' \in [Checkouts -> CheckoutRows] /\ checkout'[k] = e
      /\ \A j \in Checkouts \ {k} : checkout'[j] = checkout[j]
  BY <1>1, <1>2, <1>3 DEF TypeOK
<1>5. cart' = Extended(c, x)
  BY DEF Reserve
<1>6. /\ cart' \in [Carts -> CartRows]
      /\ \A d \in Carts : /\ RowStep(cart[d], cart'[d]) /\ RowKept(cart[d], cart'[d])
                          /\ RowOfOwner(cart[d], cart'[d])
      /\ cart'[c].status = cart[c].status /\ cart'[c].version = cart[c].version
      /\ cart'[c].owner = cart[c].owner /\ cart'[c].items = cart[c].items
      /\ cart'[c].expires >= x
  BY <1>1, <1>5, ExtendedFacts
<1>. PICK r : r = [status |-> "active", expires |-> x]
  OBVIOUS
<1>7. r \in ReservationRows /\ r.status = "active"
  BY DEF ReservationRows
<1>8. reservation' = [reservation EXCEPT ![k] = r]
  BY DEF Reserve
<1>9. /\ reservation' \in [Checkouts -> ReservationRows] /\ reservation'[k] = r
      /\ \A j \in Checkouts \ {k} : reservation'[j] = reservation[j]
  BY <1>1, <1>7, <1>8 DEF TypeOK
<1>10. redemption' = [redemption EXCEPT ![k] = "reserved"]
  BY DEF Reserve
<1>11. /\ redemption'[k] = "reserved"
       /\ \A j \in Checkouts \ {k} : redemption'[j] = redemption[j]
       /\ redemption' \in
             [Checkouts -> {"none", "reserved", "consumed", "released", "reversed"}]
  BY <1>1, <1>10 DEF TypeOK
<1>12. TypeOK'
  BY <1>1, <1>4, <1>6, <1>9, <1>11 DEF TypeOK, Reserve, historyVars, staffVars
<1>13. StagesInv' /\ TimesInv'
  <2>1. \A j \in Checkouts \ {k} : Frame(j)
    BY <1>4, <1>9, <1>11 DEF Frame, CheckoutFrame, Reserve, historyVars, staffVars
  <2>2. Stage(k)' /\ ListedDue(k)' /\ Stocked(k)'
    BY <1>1, <1>2, <1>4, <1>7, <1>9, <1>11 DEF Stage, ListedDue, Stocked, Reserve, Reserving
  <2>. QED BY <1>1, <2>1, <2>2, OthersKept
<1>14. CartsInv'
  <2>1. cart[c].status # "none" /\ cart[c].owner = o.owner /\ cart[c].items = o.items
    BY <1>1 DEF Quoted
  <2>2. Quoted(k)' /\ Holds(k)'
    <3>1. cart[c].version \in Nat
      BY <1>1 DEF TypeOK, CartRows
    <3>. QED BY <1>1, <1>2, <1>4, <1>6, <2>1, <3>1 DEF Quoted, Holds
  <2>3. Sole'
    <3>1. \A j \in Checkouts \ {k} : checkout[j].cart = c => checkout[j].status \notin Advanced
      BY <1>1 DEF NotAdvanced, Advanced
    <3>2. checkout'[k].cart = c
      BY <1>2, <1>4
    <3>. SUFFICES ASSUME NEW i \in Checkouts, NEW j \in Checkouts,
                         checkout'[i].status \in Advanced, checkout'[j].status \in Advanced,
                         checkout'[i].cart = checkout'[j].cart, i # j
                  PROVE  FALSE
      BY DEF Sole
    <3>3. i # k /\ j # k
      BY <1>4, <3>1, <3>2
    <3>. QED BY <1>4, <3>3 DEF Sole, Inv, CartsInv
  <2>4. \A j \in Checkouts : checkout[j].cart \in Carts
    BY <1>1 DEF TypeOK, CheckoutRows
  <2>. QED BY <1>1, <1>4, <1>6, <2>2, <2>3, <2>4, CartsAfter
<1>15. UsesInv'
  <2>1. \A j \in Checkouts : /\ checkout'[j].apps = checkout[j].apps
                            /\ checkout'[j].owner = checkout[j].owner
    BY <1>2, <1>4
  <2>2. Reservable(k)
    BY DEF Reserve
  <2>. QED BY <1>10, <2>1, <2>2, ReserveUses
<1>. QED BY <1>12, <1>13, <1>14, <1>15 DEF Inv

\* An order takes its checkout's place: the cart is converted, the stock and the redemptions stay.
LEMMA CreateOrderInv ==
    ASSUME Inv, NEW k \in Checkouts, NEW began \in Nat, CreateOrder(k, began)
    PROVE  Inv'
<1>. PICK c \in Carts : c = checkout[k].cart
  BY DEF Inv, TypeOK, CheckoutRows
<1>1. /\ TypeOK /\ now \in Nat /\ now + OrderTtl \in Nat /\ checkout[k].status = "reserved"
      /\ now' = now /\ Stage(k) /\ ListedDue(k) /\ Quoted(k) /\ Holds(k)
      /\ reservation[k].status \in Reserving /\ redemption[k] = "reserved"
  BY CheckoutAssumption DEF Inv, StagesInv, TimesInv, CartsInv, TypeOK, CreateOrder,
                            Reserving
<1>. PICK x \in Nat : x = now + OrderTtl
  BY <1>1
<1>. PICK o \in CheckoutRows : o = checkout[k]
  BY <1>1 DEF TypeOK
<1>. PICK e : e = [o EXCEPT !.status = "order_created"]
  OBVIOUS
<1>2. /\ e \in CheckoutRows /\ e.status = "order_created" /\ e.cart = c /\ e.owner = o.owner
      /\ e.version = o.version /\ e.items = o.items /\ e.apps = o.apps
  BY DEF CheckoutRows
<1>3. checkout' = [checkout EXCEPT ![k] = e]
  BY <1>1 DEF CreateOrder, TypeOK
<1>4. /\ checkout' \in [Checkouts -> CheckoutRows] /\ checkout'[k] = e
      /\ \A j \in Checkouts \ {k} : checkout'[j] = checkout[j]
  BY <1>1, <1>2, <1>3 DEF TypeOK
<1>. PICK a \in CartRows : a = cart[c]
  BY <1>1 DEF TypeOK
<1>5. a.version \in Nat
  BY DEF CartRows
<1>. PICK v \in Nat : v = a.version + 1
  BY <1>5
<1>. PICK b : b = [a EXCEPT !.status = "converted", !.version = v]
  OBVIOUS
<1>6. b \in CartRows /\ b.status = "converted" /\ b.version = v
  BY DEF CartRows
<1>7. cart' = [cart EXCEPT ![c] = b]
  BY <1>1 DEF CreateOrder, TypeOK
<1>8. RowStep(cart[c], b) /\ RowOfOwner(cart[c], b)
  BY <1>5, <1>6 DEF RowStep, RowOfOwner
<1>9. /\ cart' \in [Carts -> CartRows] /\ cart'[c] = b
      /\ \A d \in Carts : RowStep(cart[d], cart'[d])
      /\ \A d \in Carts \ {c} : cart'[d] = cart[d] /\ RowKept(cart[d], cart'[d])
  BY <1>1, <1>6, <1>7, <1>8, OneRow
<1>. PICK r : r = [status |-> "payment_pending", expires |-> x]
  OBVIOUS
<1>10. r \in ReservationRows /\ r.status = "payment_pending" /\ r.expires = x
  BY DEF ReservationRows
<1>11. reservation' = [reservation EXCEPT ![k] = r]
  BY DEF CreateOrder, Attached
<1>12. /\ reservation' \in [Checkouts -> ReservationRows] /\ reservation'[k] = r
       /\ \A j \in Checkouts \ {k} : reservation'[j] = reservation[j]
  BY <1>1, <1>10, <1>11 DEF TypeOK
<1>. PICK d : d = [status |-> "pending_confirmation", expires |-> x]
  OBVIOUS
<1>13. d \in OrderRows /\ d.status = "pending_confirmation" /\ d.expires = x
  BY DEF OrderRows
<1>14. order' = [order EXCEPT ![k] = d]
  BY DEF CreateOrder
<1>15. /\ order' \in [Checkouts -> OrderRows] /\ order'[k] = d
       /\ \A j \in Checkouts \ {k} : order'[j] = order[j]
  BY <1>1, <1>13, <1>14 DEF TypeOK
<1>16. /\ redemption'[k] = "consumed"
       /\ \A j \in Checkouts \ {k} : redemption'[j] = redemption[j]
       /\ redemption' \in
             [Checkouts -> {"none", "reserved", "consumed", "released", "reversed"}]
  BY <1>1 DEF TypeOK, CreateOrder
<1>17. /\ straddled' \subseteq Checkouts
       /\ \A j \in Checkouts \ {k} : (j \in straddled') = (j \in straddled)
       /\ reservation[k].expires <= now => k \in straddled'
       /\ UNCHANGED <<now, listed, late, givenBack, staffOps>>
  BY <1>1 DEF TypeOK, CreateOrder, staffVars
<1>18. TypeOK'
  BY <1>1, <1>4, <1>9, <1>12, <1>15, <1>16, <1>17 DEF TypeOK
<1>19. StagesInv' /\ TimesInv'
  <2>1. \A j \in Checkouts \ {k} : Frame(j)
    BY <1>4, <1>12, <1>15, <1>16, <1>17 DEF Frame, CheckoutFrame
  <2>2. Stage(k)'
    BY <1>2, <1>4, <1>10, <1>12, <1>13, <1>15, <1>16 DEF Stage
  <2>3. ListedDue(k)'
    BY <1>1, <1>2, <1>4, <1>10, <1>12, <1>17 DEF ListedDue
  <2>4. Stocked(k)'
    BY <1>10, <1>12 DEF Stocked
  <2>. QED BY <1>1, <2>1, <2>2, <2>3, <2>4, OthersKept
<1>20. CartsInv'
  <2>1. Quoted(k)' /\ Holds(k)'
    <3>1. cart[c].status # "none" /\ o.version <= a.version /\ o.version \in Nat
      BY <1>1 DEF Quoted, CheckoutRows
    <3>2. /\ checkout'[k].cart = c /\ checkout'[k].version = o.version
          /\ checkout'[k].status = "order_created"
          /\ cart'[c].status = "converted" /\ cart'[c].version = a.version + 1
      BY <1>2, <1>4, <1>6, <1>9
    <3>. QED BY <1>5, <3>1, <3>2 DEF Quoted, Holds
  <2>2. Sole'
    <3>1. \A j \in Checkouts : checkout'[j].status \in Advanced =>
             checkout[j].status \in Advanced /\ checkout'[j].cart = checkout[j].cart
      <4>1. checkout[k].status \in Advanced /\ checkout'[k].cart = checkout[k].cart
        BY <1>1, <1>2, <1>4 DEF Advanced
      <4>. QED BY <1>4, <4>1
    <3>. QED BY <3>1, SoleKept DEF Inv, CartsInv
  <2>3. \A j \in Checkouts \ {k} : checkout[j].status = "reserved" =>
           checkout[j].cart \in Carts /\ checkout[j].cart # c
    BY <1>1 DEF Inv, CartsInv, Sole, Advanced, TypeOK, CheckoutRows
  <2>4. \A j \in Checkouts \ {k} : checkout[j].status = "reserved" =>
           RowKept(cart[checkout[j].cart], cart'[checkout[j].cart])
    BY <1>9, <2>3
  <2>5. \A g \in Carts : RowOfOwner(cart[g], cart'[g])
    BY <1>8, <1>9 DEF RowOfOwner
  <2>. QED BY <1>1, <1>4, <1>9, <2>1, <2>2, <2>4, <2>5, CartsAfter
<1>21. UsesInv'
  <2>1. \A j \in Checkouts : /\ checkout'[j].apps = checkout[j].apps
                            /\ checkout'[j].owner = checkout[j].owner
    BY <1>2, <1>4
  <2>2. \A j \in Checkouts : redemption'[j] \in {"reserved", "consumed"} =>
           redemption[j] \in {"reserved", "consumed"}
    BY <1>1, <1>16
  <2>. QED BY <1>1, <2>1, <2>2, UsesKept DEF Inv
<1>. QED BY <1>18, <1>19, <1>20, <1>21 DEF Inv

-----------------------------------------------------------------------------
(* The ends of checkouts, reservations and orders.                                     *)

\* A release ends the reservation if it is open, and touches no other.
LEMMA ReleasedFacts ==
    ASSUME TypeOK, NEW k \in Checkouts, NEW to \in {"released", "expired", "cancelled"},
           reservation' = Released(k, to)
    PROVE  /\ reservation' \in [Checkouts -> ReservationRows]
           /\ \A j \in Checkouts \ {k} : reservation'[j] = reservation[j]
           /\ reservation'[k].status \notin Open
           /\ reservation[k].status \notin Open => reservation'[k] = reservation[k]
           /\ reservation'[k].status \in {reservation[k].status, to}
           /\ reservation[k].status = "none" => reservation'[k].status = "none"
<1>. PICK o \in ReservationRows : o = reservation[k]
  BY DEF TypeOK
<1>1. CASE o.status \in Open
  <2>. PICK e : e = [o EXCEPT !.status = to]
    OBVIOUS
  <2>1. e \in ReservationRows /\ e.status = to
    BY DEF ReservationRows
  <2>2. reservation' = [reservation EXCEPT ![k] = e]
    BY <1>1 DEF Released, Open, TypeOK
  <2>3. /\ reservation' \in [Checkouts -> ReservationRows] /\ reservation'[k] = e
        /\ \A j \in Checkouts \ {k} : reservation'[j] = reservation[j]
    BY <2>1, <2>2 DEF TypeOK
  <2>. QED BY <1>1, <2>1, <2>3 DEF Open
<1>2. CASE o.status \notin Open
  <2>1. reservation' = reservation
    BY <1>2 DEF Released, Open
  <2>. QED BY <1>2, <2>1 DEF TypeOK
<1>. QED BY <1>1, <1>2

\* A checkout that expires gives its stock and its redemptions back.
LEMMA ExpireCheckoutInv ==
    ASSUME Inv, NEW k \in Checkouts, ExpireCheckout(k)
    PROVE  Inv'
<1>1. /\ TypeOK /\ now \in Nat /\ now' = now /\ Stage(k) /\ Quoted(k)
      /\ checkout[k].status \in {"quoted", "reserved"}
      /\ cart' = cart /\ order' = order /\ listed' = listed
      /\ UNCHANGED <<straddled, late, givenBack, staffOps>>
  BY DEF Inv, StagesInv, CartsInv, TypeOK, ExpireCheckout, historyVars, staffVars
<1>. PICK o \in CheckoutRows : o = checkout[k]
  BY <1>1 DEF TypeOK
<1>. PICK e : e = [o EXCEPT !.status = "expired"]
  OBVIOUS
<1>2. /\ e \in CheckoutRows /\ e.status = "expired" /\ e.cart = o.cart /\ e.owner = o.owner
      /\ e.version = o.version /\ e.items = o.items /\ e.apps = o.apps
  BY DEF CheckoutRows
<1>3. checkout' = [checkout EXCEPT ![k] = e]
  BY <1>1 DEF ExpireCheckout, TypeOK
<1>4. /\ checkout' \in [Checkouts -> CheckoutRows] /\ checkout'[k] = e
      /\ \A j \in Checkouts \ {k} : checkout'[j] = checkout[j]
  BY <1>1, <1>2, <1>3 DEF TypeOK
<1>5. /\ reservation' \in [Checkouts -> ReservationRows]
      /\ \A j \in Checkouts \ {k} : reservation'[j] = reservation[j]
      /\ reservation'[k].status \notin Open
  <2>1. CASE checkout[k].status = "reserved"
    <3>1. reservation' = Released(k, "expired")
      BY <2>1 DEF ExpireCheckout
    <3>. QED BY <1>1, <3>1, ReleasedFacts
  <2>2. CASE checkout[k].status = "quoted"
    BY <1>1, <2>2 DEF ExpireCheckout, Stage, Open, TypeOK
  <2>. QED BY <1>1, <2>1, <2>2
<1>6. /\ redemption'[k] \notin {"reserved", "consumed"}
      /\ \A j \in Checkouts \ {k} : redemption'[j] = redemption[j]
      /\ redemption' \in
            [Checkouts -> {"none", "reserved", "consumed", "released", "reversed"}]
  BY <1>1 DEF TypeOK, ExpireCheckout, Stage
<1>7. order[k].status = "none"
  BY <1>1 DEF Stage
<1>8. TypeOK'
  BY <1>1, <1>4, <1>5, <1>6 DEF TypeOK
<1>9. StagesInv' /\ TimesInv'
  <2>1. \A j \in Checkouts \ {k} : Frame(j)
    BY <1>1, <1>4, <1>5, <1>6 DEF Frame, CheckoutFrame
  <2>2. Stage(k)' /\ ListedDue(k)' /\ Stocked(k)'
    BY <1>1, <1>2, <1>4, <1>5, <1>6, <1>7 DEF Stage, ListedDue, Stocked, Open, Reserving
  <2>. QED BY <1>1, <2>1, <2>2, OthersKept
<1>10. CartsInv'
  <2>1. \A d \in Carts : /\ RowStep(cart[d], cart'[d]) /\ RowKept(cart[d], cart'[d])
                         /\ RowOfOwner(cart[d], cart'[d])
    BY <1>1, RowSelf DEF TypeOK
  <2>2. Quoted(k)' /\ Holds(k)'
    BY <1>1, <1>2, <1>4 DEF Quoted, Holds
  <2>3. Sole'
    <3>1. \A j \in Checkouts : checkout'[j].status \in Advanced =>
             checkout[j].status \in Advanced /\ checkout'[j].cart = checkout[j].cart
      BY <1>2, <1>4 DEF Advanced
    <3>. QED BY <3>1, SoleKept DEF Inv, CartsInv
  <2>4. \A j \in Checkouts : checkout[j].cart \in Carts
    BY <1>1 DEF TypeOK, CheckoutRows
  <2>5. cart' \in [Carts -> CartRows]
    BY <1>1 DEF TypeOK
  <2>. QED BY <1>1, <1>4, <2>1, <2>2, <2>3, <2>4, <2>5, CartsAfter
<1>11. UsesInv'
  <2>1. \A j \in Checkouts : redemption'[j] \in {"reserved", "consumed"} =>
           /\ redemption[j] \in {"reserved", "consumed"}
           /\ checkout'[j].apps = checkout[j].apps /\ checkout'[j].owner = checkout[j].owner
    BY <1>4, <1>6
  <2>. QED BY <1>1, <2>1, UsesKept DEF Inv
<1>. QED BY <1>8, <1>9, <1>10, <1>11 DEF Inv

\* A step that leaves carts and checkouts alone, and adds no redemption.
LEMMA EndStepInv ==
    ASSUME Inv, TypeOK', NEW k \in Checkouts, cart' = cart, checkout' = checkout, now' = now,
           \A j \in Checkouts \ {k} : Frame(j),
           Stage(k)', ListedDue(k)', Stocked(k)',
           redemption'[k] \in {"reserved", "consumed"} =>
              redemption[k] \in {"reserved", "consumed"}
    PROVE  Inv'
<1>1. StagesInv' /\ TimesInv'
  BY OthersKept
<1>2. CartsInv'
  BY CartsSame DEF Inv
<1>3. UsesInv'
  <2>1. \A j \in Checkouts : redemption'[j] \in {"reserved", "consumed"} =>
           redemption[j] \in {"reserved", "consumed"}
    BY DEF Frame
  <2>. QED BY <2>1, UsesKept DEF Inv
<1>. QED BY <1>1, <1>2, <1>3 DEF Inv

\* What the sweep lists is due now.
LEMMA ListReservationInv ==
    ASSUME Inv, NEW k \in Checkouts, ListReservation(k)
    PROVE  Inv'
<1>1. TypeOK /\ Stage(k) /\ ListedDue(k) /\ Stocked(k)
  BY DEF Inv, StagesInv, TimesInv
<1>2. /\ reservation[k].status \in Reserving /\ reservation[k].expires <= now
      /\ listed' = {k} /\ now' = now
      /\ UNCHANGED <<cart, checkout, reservation, redemption, order, straddled, late,
                     givenBack, staffOps>>
  BY DEF ListReservation, Reserving, orderVars, historyVars, staffVars
<1>3. TypeOK'
  BY <1>1, <1>2 DEF TypeOK
<1>4. \A j \in Checkouts \ {k} : Frame(j)
  BY <1>2 DEF Frame, CheckoutFrame, ListReservation
<1>5. checkout[k].status \in {"reserved", "order_created"}
  BY <1>1, <1>2 DEF Stage, Reserving, TypeOK, CheckoutRows
<1>6. Stage(k)'
  BY <1>1, <1>2, <1>5 DEF Stage
<1>7. ListedDue(k)'
  <2>1. order[k].status = "pending_confirmation" =>
           reservation[k].status # "active" /\ checkout[k].status # "reserved"
    BY <1>1, <1>5 DEF Stage
  <2>2. order[k].status = "pending_confirmation" => reservation[k].expires = order[k].expires
    BY <1>1, <1>2, <2>1 DEF Stage, Reserving
  <2>. QED BY <1>2, <2>2 DEF ListedDue
<1>8. Stocked(k)'
  BY <1>1, <1>2 DEF Stocked
<1>. QED BY <1>2, <1>3, <1>4, <1>6, <1>7, <1>8, EndStepInv

\* What the sweep has listed it releases; an order not straddled is due by then.
LEMMA ExpireReservationInv ==
    ASSUME Inv, NEW k \in Checkouts, ExpireReservation(k)
    PROVE  Inv'
<1>1. /\ TypeOK /\ Stage(k) /\ ListedDue(k) /\ Stocked(k)
      /\ now \in Nat /\ order[k].expires \in Nat
  BY DEF Inv, StagesInv, TimesInv, TypeOK, OrderRows
<1>2. /\ k \in listed /\ listed' = listed \ {k} /\ now' = now
      /\ reservation' = Released(k, "expired")
      /\ UNCHANGED <<cart, checkout, redemption, order, straddled, late, givenBack, staffOps>>
  BY DEF ExpireReservation, orderVars, historyVars, staffVars
<1>3. /\ reservation' \in [Checkouts -> ReservationRows]
      /\ \A j \in Checkouts \ {k} : reservation'[j] = reservation[j]
      /\ reservation'[k].status \notin Open
      /\ reservation[k].status \notin Open => reservation'[k] = reservation[k]
      /\ reservation'[k].status \in {reservation[k].status, "expired"}
  BY <1>1, <1>2, ReleasedFacts
<1>4. TypeOK'
  BY <1>1, <1>2, <1>3 DEF TypeOK
<1>5. \A j \in Checkouts \ {k} : Frame(j)
  BY <1>2, <1>3 DEF Frame, CheckoutFrame
<1>6. Stage(k)'
  BY <1>1, <1>2, <1>3 DEF Stage, Open, Reserving
<1>7. ListedDue(k)'
  BY <1>2 DEF ListedDue
<1>8. Stocked(k)'
  BY <1>1, <1>2 DEF Stocked, ListedDue
<1>. QED BY <1>2, <1>4, <1>5, <1>6, <1>7, <1>8, EndStepInv

\* The end of an order that waits for its payment.
LEMMA EndInv ==
    ASSUME Inv, NEW k \in Checkouts, NEW status \in {"cancelled", "expired"},
           order[k].status = "pending_confirmation", End(k, status)
    PROVE  Inv'
<1>1. TypeOK /\ Stage(k) /\ ListedDue(k)
  BY DEF Inv, StagesInv, TimesInv
<1>. PICK o \in OrderRows : o = order[k]
  BY <1>1 DEF TypeOK
<1>. PICK e : e = [o EXCEPT !.status = status]
  OBVIOUS
<1>2. e \in OrderRows /\ e.status = status
  BY DEF OrderRows
<1>3. /\ order' = [order EXCEPT ![k] = e] /\ reservation' = Released(k, status)
      /\ redemption' = [redemption EXCEPT ![k] = "reversed"] /\ now' = now
      /\ UNCHANGED <<cart, checkout, listed, straddled, late, givenBack, staffOps>>
  BY <1>1 DEF End, TypeOK, historyVars, staffVars
<1>4. /\ order' \in [Checkouts -> OrderRows] /\ order'[k] = e
      /\ \A j \in Checkouts \ {k} : order'[j] = order[j]
  BY <1>1, <1>2, <1>3 DEF TypeOK
<1>5. /\ reservation' \in [Checkouts -> ReservationRows]
      /\ \A j \in Checkouts \ {k} : reservation'[j] = reservation[j]
      /\ reservation'[k].status \notin Open
  BY <1>1, <1>3, ReleasedFacts
<1>6. /\ redemption'[k] = "reversed"
      /\ \A j \in Checkouts \ {k} : redemption'[j] = redemption[j]
      /\ redemption' \in
            [Checkouts -> {"none", "reserved", "consumed", "released", "reversed"}]
  BY <1>1, <1>3 DEF TypeOK
<1>7. TypeOK'
  BY <1>1, <1>3, <1>4, <1>5, <1>6 DEF TypeOK
<1>8. \A j \in Checkouts \ {k} : Frame(j)
  BY <1>3, <1>4, <1>5, <1>6 DEF Frame, CheckoutFrame
<1>9. checkout[k].status = "order_created"
  BY <1>1 DEF Stage, TypeOK, CheckoutRows
<1>10. Stage(k)'
  BY <1>2, <1>3, <1>4, <1>5, <1>6, <1>9 DEF Stage, Open, Reserving
<1>11. ListedDue(k)' /\ Stocked(k)'
  BY <1>2, <1>3, <1>4, <1>5 DEF ListedDue, Stocked, Open, Reserving
<1>. QED BY <1>3, <1>6, <1>7, <1>8, <1>10, <1>11, EndStepInv

\* A confirmation keeps the redemptions of an order that has not expired, and is late for another.
LEMMA ConfirmInv ==
    ASSUME Inv, NEW k \in Checkouts, Confirm(k)
    PROVE  Inv'
<1>1. TypeOK /\ Stage(k) /\ ListedDue(k)
  BY DEF Inv, StagesInv, TimesInv
<1>. PICK o \in OrderRows : o = order[k]
  BY <1>1 DEF TypeOK
<1>. PICK e : e = [o EXCEPT !.status = "confirmed"]
  OBVIOUS
<1>2. e \in OrderRows /\ e.status = "confirmed"
  BY DEF OrderRows
<1>3. /\ order' = [order EXCEPT ![k] = e] /\ reservation[k].status = "converted"
      /\ o.status \in {"pending_confirmation", "expired"} /\ now' = now
      /\ UNCHANGED <<cart, checkout, reservation, redemption, listed, straddled, givenBack,
                     staffOps>>
  BY <1>1 DEF Confirm, TypeOK, staffVars
<1>4. /\ order' \in [Checkouts -> OrderRows] /\ order'[k] = e
      /\ \A j \in Checkouts \ {k} : order'[j] = order[j]
  BY <1>1, <1>2, <1>3 DEF TypeOK
<1>5. /\ late' \subseteq Checkouts
      /\ \A j \in Checkouts \ {k} : (j \in late') = (j \in late)
      /\ o.status = "expired" => k \in late'
  BY <1>1 DEF TypeOK, Confirm
<1>6. TypeOK'
  BY <1>1, <1>3, <1>4, <1>5 DEF TypeOK
<1>7. \A j \in Checkouts \ {k} : Frame(j)
  BY <1>3, <1>4, <1>5 DEF Frame, CheckoutFrame
<1>8. checkout[k].status = "order_created"
  BY <1>1, <1>3 DEF Stage, TypeOK, CheckoutRows
<1>9. o.status = "pending_confirmation" => redemption[k] = "consumed"
  BY <1>1 DEF Stage
<1>10. Stage(k)'
  BY <1>2, <1>3, <1>4, <1>5, <1>8, <1>9 DEF Stage
<1>11. ListedDue(k)' /\ Stocked(k)'
  BY <1>2, <1>3, <1>4, <1>8 DEF ListedDue, Stocked
<1>. QED BY <1>3, <1>6, <1>7, <1>10, <1>11, EndStepInv

-----------------------------------------------------------------------------
(* What the payment and staff do to a reservation.                                     *)

\* The moves of a reservation by its payment and by staff; an order's stock goes with a record.
Legal(k, to) ==
    \/ reservation[k].status = "expired" /\ to = "late_payment_review"
    \/ reservation[k].status \in Open /\ to = "converted"
    \/ reservation[k].status = "active" /\ to = "payment_pending"
    \/ /\ reservation[k].status \in Open /\ to \in {"released", "expired"}
       /\ order[k].status = "none" \/ k \in givenBack'
\* Only this reservation changes, and staff's records of it.
OnlyReservation(k, to) ==
    /\ reservation' = [reservation EXCEPT ![k].status = to]
    /\ UNCHANGED <<now, orderVars, listed, historyVars>>
    /\ givenBack' \subseteq Checkouts /\ staffOps' \in 0..MaxStaffOps
    /\ givenBack \subseteq givenBack' /\ givenBack' \subseteq givenBack \cup {k}

LEMMA MovedInv ==
    ASSUME Inv, NEW k \in Checkouts, NEW to, Legal(k, to), OnlyReservation(k, to)
    PROVE  Inv'
<1>1. TypeOK /\ Stage(k) /\ ListedDue(k) /\ Stocked(k)
  BY DEF Inv, StagesInv, TimesInv
<1>2. /\ now' = now /\ givenBack' \subseteq Checkouts /\ staffOps' \in 0..MaxStaffOps
      /\ UNCHANGED <<cart, checkout, redemption, order, listed, straddled, late>>
      /\ givenBack \subseteq givenBack' /\ givenBack' \subseteq givenBack \cup {k}
  BY DEF OnlyReservation, orderVars, historyVars
<1>. PICK o \in ReservationRows : o = reservation[k]
  BY <1>1 DEF TypeOK
<1>. PICK e : e = [o EXCEPT !.status = to]
  OBVIOUS
<1>3. e \in ReservationRows /\ e.status = to /\ e.expires = o.expires
  BY DEF ReservationRows, Legal
<1>4. reservation' = [reservation EXCEPT ![k] = e]
  BY <1>1 DEF OnlyReservation, TypeOK
<1>5. /\ reservation' \in [Checkouts -> ReservationRows] /\ reservation'[k] = e
      /\ \A j \in Checkouts \ {k} : reservation'[j] = reservation[j]
  BY <1>1, <1>3, <1>4 DEF TypeOK
<1>6. TypeOK'
  BY <1>1, <1>2, <1>5 DEF TypeOK
<1>7. \A j \in Checkouts \ {k} : Frame(j)
  BY <1>2, <1>5 DEF Frame, CheckoutFrame
<1>8. o.status = "active" => checkout[k].status = "reserved"
  BY <1>1 DEF Stage, Reserving, TypeOK, CheckoutRows
<1>9. o.status # "none" /\ (to \in Reserving => to = "payment_pending" /\ o.status = "active")
  BY DEF Legal, Open, Reserving
<1>10. Stage(k)'
  BY <1>1, <1>2, <1>3, <1>5, <1>8, <1>9 DEF Stage, Reserving
<1>11. ListedDue(k)'
  BY <1>1, <1>2, <1>3, <1>5, <1>8, <1>9 DEF ListedDue, Reserving
<1>12. Stocked(k)'
  BY <1>1, <1>2, <1>3, <1>5 DEF Stocked, Legal
<1>. QED BY <1>2, <1>6, <1>7, <1>10, <1>11, <1>12, EndStepInv

\* The payment's transactions move the reservation, and staff's records stay.
LEMMA PaymentInv ==
    ASSUME Inv, NEW k \in Checkouts, PaymentMarksLate(k) \/ PaymentConverts(k)
    PROVE  Inv'
<1>1. givenBack' = givenBack /\ staffOps' = staffOps /\ TypeOK
  BY DEF PaymentMarksLate, PaymentConverts, staffVars, Inv
<1>2. CASE PaymentMarksLate(k)
  <2>1. Legal(k, "late_payment_review") /\ OnlyReservation(k, "late_payment_review")
    BY <1>1, <1>2 DEF PaymentMarksLate, MarkLatePaymentReview, Legal, OnlyReservation, TypeOK
  <2>. QED BY <2>1, MovedInv
<1>3. CASE PaymentConverts(k)
  <2>1. Legal(k, "converted") /\ OnlyReservation(k, "converted")
    BY <1>1, <1>3 DEF PaymentConverts, Convert, Legal, OnlyReservation, TypeOK
  <2>. QED BY <2>1, MovedInv
<1>. QED BY <1>2, <1>3

\* Staff move the reservation too, or give back what is converted, which is recorded.
LEMMA StaffInv ==
    ASSUME Inv, NEW k \in Checkouts, StaffStep(k)
    PROVE  Inv'
<1>1. TypeOK /\ staffOps' \in 0..MaxStaffOps /\ UNCHANGED <<now, orderVars, listed, historyVars>>
  BY CheckoutAssumption DEF Inv, TypeOK, StaffStep
<1>2. CASE StaffBeginPayment(k)
  <2>1. Legal(k, "payment_pending") /\ OnlyReservation(k, "payment_pending")
    BY <1>1, <1>2 DEF StaffBeginPayment, Legal, OnlyReservation, TypeOK
  <2>. QED BY <2>1, MovedInv
<1>3. CASE StaffRelease(k)
  <2>1. PICK to \in {"released", "expired"} : reservation' = Released(k, to)
    BY <1>3 DEF StaffRelease
  <2>2. Legal(k, to) /\ OnlyReservation(k, to)
    BY <1>1, <1>3, <2>1 DEF StaffRelease, Released, Legal, OnlyReservation, TypeOK
  <2>. QED BY <2>2, MovedInv
<1>4. CASE StaffLateReview(k)
  <2>1. Legal(k, "late_payment_review") /\ OnlyReservation(k, "late_payment_review")
    BY <1>1, <1>4 DEF StaffLateReview, MarkLatePaymentReview, Legal, OnlyReservation, TypeOK
  <2>. QED BY <2>1, MovedInv
<1>5. CASE StaffConvert(k)
  <2>1. Legal(k, "converted") /\ OnlyReservation(k, "converted")
    BY <1>1, <1>5 DEF StaffConvert, Convert, Legal, OnlyReservation, TypeOK
  <2>. QED BY <2>1, MovedInv
<1>6. CASE ReleaseConvertedCommitment(k)
  <2>1. /\ now' = now /\ givenBack' = givenBack \cup {k}
        /\ UNCHANGED <<cart, checkout, reservation, redemption, order, listed, straddled, late>>
    BY <1>1, <1>6 DEF ReleaseConvertedCommitment, orderVars, historyVars
  <2>2. TypeOK'
    BY <1>1, <2>1 DEF TypeOK
  <2>3. \A j \in Checkouts \ {k} : Frame(j)
    BY <2>1 DEF Frame, CheckoutFrame
  <2>4. Stage(k) /\ ListedDue(k)
    BY DEF Inv, StagesInv, TimesInv
  <2>5. Stage(k)' /\ ListedDue(k)' /\ Stocked(k)'
    BY <2>1, <2>4 DEF Stage, ListedDue, Stocked
  <2>. QED BY <2>1, <2>2, <2>3, <2>5, EndStepInv
<1>. QED BY <1>2, <1>3, <1>4, <1>5, <1>6 DEF StaffStep

\* Time only makes more due.
LEMMA TickInv ==
    ASSUME Inv, Tick
    PROVE  Inv'
<1>1. /\ TypeOK /\ now' \in Nat /\ now <= now' /\ now \in Nat
      /\ UNCHANGED <<cart, checkout, reservation, redemption, order, listed, straddled, late,
                     givenBack, staffOps>>
  BY DEF Inv, TypeOK, Tick, orderVars, historyVars, staffVars
<1>2. TypeOK'
  BY <1>1 DEF TypeOK
<1>3. \A k \in Checkouts : Frame(k)
  BY <1>1 DEF Frame, CheckoutFrame
<1>4. StagesInv' /\ TimesInv'
  BY <1>1, <1>3, FrameKept DEF Inv, StagesInv, TimesInv
<1>5. ASSUME NEW k \in Checkouts PROVE Quoted(k)' /\ Holds(k)'
  <2>1. \A d \in Carts : RowStep(cart[d], cart'[d]) /\ RowKept(cart[d], cart'[d])
    BY <1>1, RowSelf DEF TypeOK
  <2>2. checkout[k].cart \in Carts /\ cart' \in [Carts -> CartRows] /\ CheckoutFrame(k)
    BY <1>1, <1>3 DEF TypeOK, CheckoutRows, Frame
  <2>3. Quoted(k) /\ Holds(k)
    BY DEF Inv, CartsInv
  <2>. QED BY <1>1, <2>1, <2>2, <2>3, CartKept
<1>6. Sole' /\ OneActive(cart')
  BY <1>1 DEF Inv, CartsInv, Sole
<1>7. UsesInv'
  BY <1>1, UsesKept DEF Inv
<1>. QED BY <1>2, <1>4, <1>5, <1>6, <1>7 DEF Inv, CartsInv

-----------------------------------------------------------------------------
(* The theorems.                                                                       *)

\* At first there is nothing.
LEMMA InitInv ==
    Init => Inv
<1>. SUFFICES ASSUME Init PROVE Inv
  OBVIOUS
<1>. PICK c \in Carts : c = CHOOSE x \in Carts : TRUE
  BY CheckoutAssumption
<1>. PICK row : row = [status |-> "none", cart |-> c, owner |-> Guest, version |-> 0,
                       items |-> 0, apps |-> {}, expires |-> 0]
  OBVIOUS
<1>1. row \in CheckoutRows /\ row.status = "none"
  BY DEF CheckoutRows, Owners
<1>2. \A k \in Checkouts : checkout[k] = row
  BY DEF Init
<1>3. TypeOK
  <2>1. checkout \in [Checkouts -> CheckoutRows]
    BY <1>1 DEF Init
  <2>2. cart \in [Carts -> CartRows]
    BY DEF Init, CartRows, Owners
  <2>. QED BY <2>1, <2>2, CheckoutAssumption DEF Init, TypeOK, ReservationRows, OrderRows
<1>4. StagesInv /\ TimesInv
  BY <1>1, <1>2 DEF Init, StagesInv, TimesInv, Stage, ListedDue, Stocked
<1>5. CartsInv
  <2>1. \A k \in Checkouts : Quoted(k) /\ Holds(k)
    BY <1>1, <1>2 DEF Quoted, Holds
  <2>2. Sole
    BY <1>1, <1>2 DEF Sole, Advanced
  <2>3. OneActive(cart)
    BY DEF Init, OneActive, ActiveOf
  <2>. QED BY <2>1, <2>2, <2>3 DEF CartsInv
<1>6. UsesInv
  <2>1. \A p : Uses(p) = {}
    BY DEF Init, Uses
  <2>2. Counted
    BY <2>1, FS_EmptySet, CheckoutAssumption DEF Counted
  <2>. QED BY <2>1, <2>2 DEF UsesInv, FirstOnly
<1>. QED BY <1>3, <1>4, <1>5, <1>6 DEF Inv

\* The next id is one of the free ones.
LEMMA NextOfFree ==
    ASSUME NEW S, NEW T, NEW x \in NextOf(S, T)
    PROVE  x \in S /\ x \notin T
BY DEF NextOf

\* No step breaks the invariant.
LEMMA NextInv ==
    ASSUME Inv, [Next]_vars
    PROVE  Inv'
<1>1. CASE UNCHANGED vars
  <2>1. TypeOK' /\ StagesInv' /\ TimesInv' /\ CartsInv'
    BY <1>1 DEF vars, orderVars, historyVars, staffVars, Inv, TypeOK, StagesInv, TimesInv, Stage, ListedDue, Stocked,
                CartsInv, Quoted, Holds, Sole
  <2>2. UsesInv'
    BY <1>1, UsesKept DEF vars, orderVars, Inv
  <2>. QED BY <2>1, <2>2 DEF Inv
<1>2. ASSUME NEW c \in NextCart, Create(c) \/ \E u \in Customers : CustomerAccess(u, c)
      PROVE  Inv'
  <2>1. c \in Carts
    BY NextOfFree DEF NextCart
  <2>. QED BY <1>2, <2>1, CreateInv, CustomerAccessInv
<1>3. ASSUME NEW c \in Carts, NEW k \in NextCheckout, NEW apps \in SUBSET Promotions,
             Quote(c, k, apps)
      PROVE  Inv'
  <2>1. k \in Checkouts
    BY NextOfFree DEF NextCheckout
  <2>. QED BY <1>3, <2>1, QuoteInv
<1>4. ASSUME NEW k \in Checkouts, NEW t \in Recent, CreateOrder(k, t)
      PROVE  Inv'
  <2>1. t \in Nat
    BY DEF Recent, Inv, TypeOK
  <2>. QED BY <1>4, <2>1, CreateOrderInv
<1>5. ASSUME NEW k \in Checkouts, CancelOrder(k) \/ ExpireOrder(k)
      PROVE  Inv'
  BY <1>5, EndInv DEF CancelOrder, ExpireOrder
<1>6. ASSUME NEW c \in Carts, (\E q \in 0..MaxQuantity : Edit(c, q)) \/ ExpireCart(c)
      PROVE  Inv'
  BY <1>6, EditInv, ExpireCartInv
<1>7. ASSUME NEW k \in Checkouts,
             \/ Reserve(k) \/ Confirm(k) \/ ExpireCheckout(k)
             \/ ListReservation(k) \/ ExpireReservation(k)
             \/ PaymentMarksLate(k) \/ PaymentConverts(k) \/ StaffStep(k)
      PROVE  Inv'
  BY <1>7, ReserveInv, ConfirmInv, ExpireCheckoutInv, ListReservationInv,
     ExpireReservationInv, PaymentInv, StaffInv
<1>. QED
  BY <1>1, <1>2, <1>3, <1>4, <1>5, <1>6, <1>7, MergeGuestInv, TickInv DEF Next, Sweep

\* The strengthened invariant holds in every state of every behaviour.
THEOREM Invariant == Spec => []Inv
<1>1. Init => Inv
  BY InitInv
<1>2. Inv /\ [Next]_vars => Inv'
  BY NextInv
<1>. QED BY <1>1, <1>2, PTL DEF Spec

\* Every reachable state has the types of the rows.
THEOREM TypeCorrect == Spec => []TypeOK
<1>1. Inv => TypeOK
  BY DEF Inv
<1>. QED BY <1>1, Invariant, PTL

\* A reserved checkout is the only live one of its cart, which still is what was quoted, and
\* until the checkout expires nothing can make the commit of its order fail.
THEOREM Orderable == Spec => []ReservedIsOrderable
<1>1. Inv => ReservedIsOrderable
  <2>. SUFFICES ASSUME Inv, NEW k \in Checkouts, checkout[k].status = "reserved"
                PROVE  LET c == checkout[k].cart IN
                       /\ cart[c].owner = checkout[k].owner
                       /\ cart[c].items = checkout[k].items
                       /\ checkout[k].expires > now => Linked(k) /\ cart[c].status = "active"
                       /\ \A j \in Checkouts \ {k} : checkout[j].cart = c =>
                             checkout[j].status \notin {"reserved", "order_created"}
    BY DEF ReservedIsOrderable
  <2>1. Holds(k) /\ Sole
    BY DEF Inv, CartsInv
  <2>2. \A j \in Checkouts \ {k} : checkout[j].cart = checkout[k].cart =>
           checkout[j].status \notin {"reserved", "order_created"}
    BY <2>1 DEF Sole, Advanced
  <2>. QED BY <2>1, <2>2 DEF Holds, Linked
<1>. QED BY <1>1, Invariant, PTL

\* A customer has one active cart at most, and a cart becomes one order at most.
THEOREM OneEach == Spec => []OneCartOneOrder
<1>1. Inv => OneCartOneOrder
  <2>. SUFFICES ASSUME Inv PROVE OneCartOneOrder
    OBVIOUS
  <2>1. ASSUME NEW u \in Customers PROVE Cardinality(ActiveOf(u, cart)) <= 1
    <3>. PICK A : A = ActiveOf(u, cart)
      OBVIOUS
    <3>1. A \subseteq Carts /\ \A c, d \in A : c = d
      BY DEF Inv, CartsInv, OneActive, ActiveOf
    <3>2. CASE A = {}
      BY <3>2, FS_EmptySet
    <3>3. ASSUME NEW c \in A PROVE Cardinality(A) = 1
      <4>1. A = {c}
        BY <3>1
      <4>. QED BY <4>1, FS_Singleton
    <3>. QED BY <3>2, <3>3
  <2>2. ASSUME NEW k \in Checkouts, NEW j \in Checkouts,
               order[k].status # "none", order[j].status # "none",
               checkout[k].cart = checkout[j].cart
        PROVE  k = j
    <3>1. \A i \in Checkouts : order[i].status # "none" => checkout[i].status \in Advanced
      BY DEF Inv, StagesInv, Stage, TypeOK, CheckoutRows, Advanced
    <3>. QED BY <2>2, <3>1 DEF Inv, CartsInv, Sole
  <2>. QED BY <2>1, <2>2 DEF OneCartOneOrder
<1>. QED BY <1>1, Invariant, PTL

\* An active or pending reservation is that of a reserved checkout or of an order that waits.
THEOREM Owed == Spec => []StockIsOwed
<1>1. Inv => StockIsOwed
  BY DEF Inv, StagesInv, Stage, StockIsOwed, TypeOK, CheckoutRows, Reserving
<1>. QED BY <1>1, Invariant, PTL

\* Until it is due an order that waits for its payment has its stock, whatever the sweeps, the
\* payment and staff do in any order, but for the orders of transactions that straddled the end
\* of their reservation and for stock that staff gave back.
THEOREM PendingKeepsStock == Spec => []PendingHasStock
<1>1. Inv => PendingHasStock
  BY DEF Inv, TimesInv, Stocked, PendingHasStock
<1>. QED BY <1>1, Invariant, PTL

\* No promotion is granted beyond its limit, and no customer has two first-purchase discounts,
\* counted by the checkouts and orders themselves, but for orders confirmed after they expired.
THEOREM Limited == Spec => []UsageWithinLimits
<1>1. Inv => UsageWithinLimits
  <2>. SUFFICES ASSUME Inv PROVE UsageWithinLimits
    OBVIOUS
  <2>1. \A p : Granted(p) \ late \subseteq Uses(p)
    BY DEF Inv, StagesInv, Stage, Granted, Uses
  <2>2. ASSUME NEW p \in Promotions PROVE Cardinality(Granted(p) \ late) <= Limit[p]
    <3>. PICK S : S = Uses(p)
      OBVIOUS
    <3>. PICK T : T = Granted(p) \ late
      OBVIOUS
    <3>1. T \subseteq S /\ IsFiniteSet(S) /\ Cardinality(S) <= Limit[p] /\ Limit[p] \in Nat
      BY <2>1, CheckoutAssumption DEF Inv, UsesInv, Counted
    <3>2. IsFiniteSet(T) /\ Cardinality(T) <= Cardinality(S)
      BY <3>1, FS_Subset
    <3>3. Cardinality(S) \in Nat /\ Cardinality(T) \in Nat
      BY <3>1, <3>2, FS_CardinalityType
    <3>. QED BY <3>1, <3>2, <3>3
  <2>3. \A p, q \in FirstPurchase : \A k \in Granted(p) \ late, j \in Granted(q) \ late :
           checkout[k].owner = checkout[j].owner => k = j
    BY <2>1 DEF Inv, UsesInv, FirstOnly
  <2>. QED BY <2>2, <2>3 DEF UsageWithinLimits
<1>. QED BY <1>1, Invariant, PTL

\* A redemption that counts against a limit is that of a reserved checkout or of an order that
\* waits or is confirmed: no use is lost to one that has ended.
THEOREM NoUseIsLost == Spec => []UsesAreGranted
<1>1. Inv => UsesAreGranted
  BY DEF Inv, StagesInv, Stage, UsesAreGranted, Uses, Granted
<1>. QED BY <1>1, Invariant, PTL
=============================================================================
