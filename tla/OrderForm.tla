----------------------------- MODULE OrderForm ------------------------------
(***************************************************************************)
(* The order form of a market page: its store (OrderFormStore), the form   *)
(* on the page of a wide window, the sheet with the same form in a narrow  *)
(* one (MobileOrderFormSheet), and the dialog that asks to confirm         *)
(* (OrderConfirmModal).  The store is shared; each form has its own dialog *)
(* and its own flag of a request under way.                                *)
(*                                                                         *)
(* Form 0 is the page's: mounted always, hidden in a narrow window.  The   *)
(* others are sheets, one for each time it is opened.  The server is       *)
(* external: it answers, refuses, or is not heard of again.  The window is *)
(* resized only while no field has the focus.                              *)
(***************************************************************************)
EXTENDS Integers

CONSTANTS
  Prices,        \* prices of the market
  Qtys,          \* quantities; 0 is what a share of no balance gives
  MIN_ORDER_KRW,
  MaxSheets      \* bound: sheets there have been while orders were under way

Empty  == -1      \* null, and the text of an empty field
Sides == {"BUY", "SELL"}

VARIABLES
  form,      \* OrderFormStore: side, price, qty, priceTouched
  typing,    \* text in a field that has the focus, and its form
  wide,      \* the window has 1000 pixels
  sheet,     \* mobileOrderSheetOpen: the sheet's form; 0 for closed
  confirm,   \* showConfirm, of each form
  busy,      \* isSubmitting, of each form
  flights,   \* orders under way, of each form
  reviewed,  \* history: what a form's dialog showed when it was asked for,
             \* until the user changes the entry under it
  dismissed  \* history: a dialog or sheet was closed, or the window resized,
             \* with an order under way

window   == <<wide, sheet>>
dialogs  == <<confirm, busy>>
history  == <<reviewed, dismissed>>
formVars == <<form, typing, window, dialogs, flights, history>>

Forms == 0..MaxSheets
NotTyping == [at |-> 0, field |-> "none", text |-> Empty]
NoEntry   == [side |-> "BUY", price |-> Empty, qty |-> Empty]
Entry     == [side |-> form.side, price |-> form.price, qty |-> form.qty]

FormInit ==
  /\ form = [side |-> "BUY", price |-> Empty, qty |-> Empty, touched |-> FALSE]
  /\ typing = NotTyping /\ wide \in BOOLEAN /\ sheet = 0
  /\ confirm = {} /\ busy = {} /\ flights = [i \in Forms |-> 0]
  /\ reviewed = [i \in Forms |-> NoEntry] /\ dismissed = FALSE

Visible(i) == IF wide THEN i = 0 ELSE i # 0 /\ i = sheet
Filled     == form.price # Empty /\ form.qty # Empty
CanSubmit  == Filled /\ form.price * form.qty >= MIN_ORDER_KRW
Asked(i)   == i \in confirm /\ Filled \* the dialog is mounted
Pending(S) == \E i \in S : flights[i] > 0

-----------------------------------------------------------------------------
(* The fields                                                               *)

\* The user sets values of the store.
Edit(f) == form' = f /\ reviewed' = [i \in Forms |-> NoEntry]

\* A click outside of a field takes its focus, which commits the text first.
Idle == typing = NotTyping

\* A field is focused and typed into.
Type(i, field, text) ==
  /\ Visible(i) /\ (Idle \/ (typing.at = i /\ typing.field = field))
  /\ typing' = [at |-> i, field |-> field, text |-> text]
  /\ UNCHANGED <<form, window, dialogs, flights, history>>

\* onBlur: PriceInput's and QtyInput's commit.
Commit ==
  /\ ~Idle /\ typing' = NotTyping
  /\ IF typing.field = "price"
     THEN Edit([form EXCEPT !.price = typing.text, !.touched = TRUE])
     ELSE Edit([form EXCEPT !.qty = typing.text])
  /\ UNCHANGED <<window, dialogs, flights, dismissed>>

\* A row of the order book.
PickPrice(p) ==
  /\ Idle
  /\ Edit([form EXCEPT !.price = p, !.touched = TRUE])
  /\ UNCHANGED <<typing, window, dialogs, flights, dismissed>>

\* handleStepUp, handleStepDown: the focus stays, the text is the new price.
StepPrice(i, p) ==
  /\ Visible(i)
  /\ Edit([form EXCEPT !.price = p, !.touched = TRUE])
  /\ typing' = IF typing.field = "price" THEN NotTyping ELSE typing
  /\ UNCHANGED <<window, dialogs, flights, dismissed>>

\* setQtyByRatio
ShareOfBalance(i, q) ==
  /\ Visible(i) /\ Idle
  /\ Edit([form EXCEPT !.qty = q])
  /\ UNCHANGED <<typing, window, dialogs, flights, dismissed>>

\* setSide
SetSide(i, s) ==
  /\ Visible(i) /\ Idle
  /\ Edit([form EXCEPT !.side = s, !.qty = Empty])
  /\ UNCHANGED <<typing, window, dialogs, flights, dismissed>>

\* Mutant: a price that is there already does not stop the first ticker.
PriceUntouched == ~form.touched
PriceUnset == ~form.touched /\ form.price = Empty

\* NewOrderFormInit's effect, initPriceOnce: the ticker's price.
InitPrice(p) ==
  /\ PriceUnset
  /\ form' = [form EXCEPT !.price = p]
  /\ UNCHANGED <<typing, window, dialogs, flights, history>>

-----------------------------------------------------------------------------
(* The dialog                                                               *)

Closed(S) == confirm' = confirm \ S /\ reviewed' = [i \in Forms |-> IF i \in S THEN NoEntry ELSE reviewed[i]]

\* onSubmit.  Enter submits while a field has the focus.
Submit(i) ==
  /\ Visible(i) /\ CanSubmit /\ i \notin confirm
  /\ confirm' = confirm \cup {i}
  /\ reviewed' = [reviewed EXCEPT ![i] = Entry]
  /\ UNCHANGED <<form, typing, window, busy, flights, dismissed>>

\* Mutant: nothing says that a request is under way.
BusyNever(i) == busy
BusyWith(i) == busy \cup {i}

\* handleConfirmOrder, up to its await.  What it sends is the store's.
Confirm(i) ==
  /\ Visible(i) /\ Asked(i) /\ Idle /\ i \notin busy
  /\ flights' = [flights EXCEPT ![i] = @ + 1]
  /\ busy' = BusyWith(i)
  /\ UNCHANGED <<form, typing, window, confirm, history>>

\* The cancel button; in a narrow window, the background and the drag too,
\* which do not ask whether a request is under way.
CloseModal(i) ==
  /\ Visible(i) /\ Asked(i) /\ Idle /\ (i \in busy => ~wide)
  /\ Closed({i})
  /\ dismissed' = (dismissed \/ Pending({i}))
  /\ UNCHANGED <<form, typing, window, busy, flights>>

-----------------------------------------------------------------------------
(* The window and the sheet                                                 *)

\* The 1000 pixels are passed: mounted dialogs close, the sheet too.
Resize ==
  LET open   == IF wide THEN {} ELSE {sheet} \ {0}
      closed == {i \in Forms : Asked(i)} \cup open
  IN /\ Idle /\ wide' = ~wide /\ sheet' = 0
     /\ Closed(closed)
     /\ busy' = busy \ open
     /\ dismissed' = (dismissed \/ Pending(Forms))
     /\ UNCHANGED <<form, typing, flights>>

\* QuickOrderBar, under no sheet.
OpenSheet(i, s) ==
  /\ ~wide /\ sheet = 0 /\ i # 0 /\ ~Pending({i}) /\ \A j \in 1..(i - 1) : Pending({j})
  /\ sheet' = i
  /\ Edit([form EXCEPT !.side = s, !.qty = Empty])
  /\ UNCHANGED <<typing, wide, dialogs, flights, dismissed>>

\* The sheet's form goes with its state; its request does not.
CloseSheet ==
  /\ sheet # 0 /\ sheet' = 0 /\ typing' = NotTyping
  /\ Closed({sheet}) /\ busy' = busy \ {sheet}
  /\ dismissed' = (dismissed \/ Pending({sheet}))
  /\ UNCHANGED <<form, wide, flights>>

-----------------------------------------------------------------------------
(* The answer                                                               *)

Landed(i) ==
  /\ flights[i] > 0 /\ flights' = [flights EXCEPT ![i] = @ - 1]
  /\ dismissed' = (dismissed /\ \E j \in Forms : flights'[j] > 0)

\* The store is reset; onOrderSuccess closes the sheet that is open, whichever
\* sheet's order it was.
Placed(i) ==
  LET gone == {i} \cup IF i = 0 THEN {} ELSE {sheet} \ {0}
  IN /\ Landed(i)
     /\ form' = [form EXCEPT !.price = Empty, !.qty = Empty, !.touched = FALSE]
     /\ sheet' = IF i = 0 THEN sheet ELSE 0
     /\ typing' = IF ~Idle /\ typing.at \in gone \ {0} THEN NotTyping ELSE typing
     /\ Closed(gone) /\ busy' = busy \ gone
     /\ UNCHANGED wide

\* Refused, or not answered: the dialog stays.
Failed(i) ==
  /\ Landed(i)
  /\ busy' = busy \ {i}
  /\ UNCHANGED <<form, typing, window, confirm, reviewed>>

FormNext ==
  \/ \E i \in Forms :
       \/ \E p \in {Empty} \cup Prices : Type(i, "price", p)
       \/ \E q \in {Empty} \cup (Qtys \ {0}) : Type(i, "qty", q)
       \/ \E p \in Prices : StepPrice(i, p)
       \/ \E q \in Qtys : ShareOfBalance(i, q)
       \/ \E s \in Sides : SetSide(i, s) \/ OpenSheet(i, s)
       \/ Submit(i) \/ Confirm(i) \/ CloseModal(i)
       \/ Placed(i) \/ Failed(i)
  \/ \E p \in Prices : PickPrice(p) \/ InitPrice(p)
  \/ Commit \/ Resize \/ CloseSheet

-----------------------------------------------------------------------------
(* Properties                                                               *)

\* An order is what its dialog showed when it was asked for, unless the user
\* changed the entry since: neither a ticker, nor the answer to another order,
\* nor another form changes what is about to be sent.
SentAsReviewed ==
  [][\A i \in Forms : flights'[i] > flights[i] => reviewed[i] \in {NoEntry, Entry}]_formVars

\* Two orders are under way at once only if the dialog or the sheet of one was
\* closed, or the window resized, before its answer.
OneAtATime ==
  (\E i, j \in Forms : flights[i] > 0 /\ flights[j] > 0 /\ (i # j \/ flights[i] > 1)) => dismissed
=============================================================================
