---------------------------- MODULE ControlPlane ----------------------------
(***************************************************************************)
(* The control plane of a single installation (src/control-plane.ts) and   *)
(* the routes that change it (src/server.ts): accounts and their sessions, *)
(* and the one billing state, which the bootstrap, checkouts and Stripe's  *)
(* webhooks write.  A route reads its body, and then runs from the lookup  *)
(* of its session to its answer without a pause, unless it asks Stripe:    *)
(* a checkout waits twice, and everything may happen meanwhile.            *)
(*                                                                         *)
(* Sessions of a person that cannot be told apart are one.  Time is a      *)
(* count, and what Stripe and the bootstrap set ends at the next one.      *)
(* Not in the model: the second factor, the throttling of failed logins,   *)
(* settings and secrets, the audit log, routes that read only.             *)
(***************************************************************************)
EXTENDS Naturals, FiniteSets

CONSTANTS
    Person,
    Role,        \* roles given to accounts, "owner" among them
    Checkout,    \* checkout requests; a Stripe customer is named by the one it was made for
    Unset,
    Passwords,   \* bound: passwords of an account
    Time,        \* bound: the time
    Events       \* bound: what Stripe has to report

\* The bootstrap makes an owner; "none" stands for no account, and Unset for no
\* customer and no date.
ASSUME ControlAssumption ==
    /\ "owner" \in Role /\ "none" \notin Role
    /\ Unset \notin Checkout /\ Unset \notin Nat
    /\ Passwords \in Nat \ {0}

VARIABLES
    account,     \* app_users: role, disabled, and which password it is
    sessions,    \* app_sessions: whose, and the password it was opened with
    billing,     \* billing_state: status, the ends of trial and period, the customer
    now,
    checkout,    \* a checkout request: where it is, the customer and billing it has read
    customers,   \* Stripe: what has become of the customer of a checkout request
    events,      \* Stripe: what it reports, in any order, and perhaps again
    heard        \* what the bootstrap, or the last subscription event received, has said

accountVars == <<account, sessions>>
billingVars == <<billing, now, checkout, customers, events, heard>>
controlVars == <<accountVars, billingVars>>

----------------------------------------------------------------------------
(* Accounts *)

Exists(p) == account[p].role # "none"
SignedIn(p) == \E s \in sessions : s.user = p
IsOwner(p) == SignedIn(p) /\ account[p].role = "owner"

\* createSessionForUser
NewSession(p) == [user |-> p, password |-> account[p].password]

\* destroyAllSessionsForUser
WithoutSessionsOf(p) == {s \in sessions : s.user # p}

Login(p) ==
    /\ Exists(p) /\ ~account[p].disabled
    /\ sessions' = sessions \cup {NewSession(p)}
    /\ UNCHANGED <<account, billingVars>>

\* logout, logout-all, and a session found expired.
Logout(p) ==
    /\ SignedIn(p)
    /\ sessions' = WithoutSessionsOf(p)
    /\ UNCHANGED <<account, billingVars>>

CreateUser(o, p, role) ==
    /\ IsOwner(o) /\ ~Exists(p)
    /\ account' = [account EXCEPT ![p].role = role]
    /\ UNCHANGED <<sessions, billingVars>>

\* An owner changes anybody, but does not disable or demote itself.
UpdateUser(o, p, role, disabled) ==
    /\ IsOwner(o) /\ Exists(p)
    /\ o = p => role = "owner" /\ ~disabled
    /\ account' = [account EXCEPT ![p].role = role, ![p].disabled = disabled]
    /\ sessions' = IF disabled THEN WithoutSessionsOf(p) ELSE sessions
    /\ UNCHANGED billingVars

\* changePassword by its user, resetUserPassword by an owner.
SetPassword(o, p) ==
    /\ Exists(p) /\ (IF o = p THEN SignedIn(o) ELSE IsOwner(o))
    /\ account[p].password < Passwords
    /\ account' = [account EXCEPT ![p].password = @ + 1]
    /\ sessions' = WithoutSessionsOf(p)
    /\ UNCHANGED billingVars

----------------------------------------------------------------------------
(* Billing *)

Future(t) == t # Unset /\ t > now

\* normalizeBillingState: a trial that is over is a cancellation.
Normalised(b) ==
    IF b.status = "trialing" /\ ~Future(b.trial) THEN [b EXCEPT !.status = "canceled"] ELSE b

\* billingAccessActive
AccessActive(b) ==
    CASE b.status = "active" -> TRUE
      [] b.status = "trialing" -> Future(b.trial)
      [] b.status = "canceled" -> Future(b.period)
      [] OTHER -> FALSE

\* getBillingState writes what it has normalised.
ReadBilling ==
    /\ billing # Normalised(billing)
    /\ billing' = Normalised(billing)
    /\ UNCHANGED <<accountVars, now, checkout, customers, events, heard>>

\* bootstrapOwner: the first account, and a trial.
Bootstrap(p) ==
    /\ \A q \in Person : ~Exists(q)
    /\ account' = [account EXCEPT ![p].role = "owner"]
    /\ sessions' = sessions \cup {NewSession(p)}
    /\ billing' = [status |-> "trialing", trial |-> now + 1, period |-> Unset, customer |-> Unset]
    /\ heard' = [status |-> "trialing", trial |-> now + 1, period |-> Unset]
    /\ UNCHANGED <<now, checkout, customers, events>>

\* A patch over the state as the request has read it, before it asked Stripe.
SaveCustomerAsRead(q, c) == billing' = [checkout[q].read EXCEPT !.customer = c]

\* updateBillingCheckoutState: a patch over the state as it is.
SaveCustomer(q, c) == billing' = [Normalised(billing) EXCEPT !.customer = c]

\* ensureStripeCustomer, up to its question.
StartCheckout(q, o) ==
    /\ IsOwner(o) /\ checkout[q].pc = "idle"
    /\ billing' = Normalised(billing)
    /\ checkout' = [checkout EXCEPT ![q] =
         [pc |-> IF billing.customer = Unset THEN "customer" ELSE "session",
          customer |-> billing.customer, read |-> Normalised(billing)]]
    /\ UNCHANGED <<accountVars, now, customers, events, heard>>

\* Stripe has made a customer; what it answers with is stored.
CustomerMade(q) ==
    /\ checkout[q].pc = "customer"
    /\ customers' = [customers EXCEPT ![q] = "made"]
    /\ SaveCustomer(q, q)
    /\ checkout' = [checkout EXCEPT ![q].pc = "session", ![q].customer = q]
    /\ UNCHANGED <<accountVars, now, events, heard>>

\* Stripe has made a checkout session for the customer.
SessionMade(q) ==
    LET c == checkout[q].customer
    IN  /\ checkout[q].pc = "session"
        /\ customers' = [customers EXCEPT ![c] = IF @ = "made" THEN "session" ELSE @]
        /\ SaveCustomer(q, c)
        /\ checkout' = [checkout EXCEPT ![q].pc = "ended"]
        /\ UNCHANGED <<accountVars, now, events, heard>>

\* Stripe refuses, or its answer is lost: a customer may have been made.
CheckoutFails(q) ==
    /\ checkout[q].pc \in {"customer", "session"}
    /\ \/ UNCHANGED customers
       \/ checkout[q].pc = "customer" /\ customers' = [customers EXCEPT ![q] = "made"]
    /\ checkout' = [checkout EXCEPT ![q].pc = "ended"]
    /\ UNCHANGED <<accountVars, billing, now, events, heard>>

\* The webhook: what an event says is stored, whenever it arrives.
Webhook(e) ==
    /\ IF e.kind = "completed"
       THEN /\ billing' = [Normalised(billing) EXCEPT !.customer = e.customer]
            /\ UNCHANGED heard
       ELSE /\ billing' = [status |-> e.status, trial |-> e.trial, period |-> e.period,
                           customer |-> e.customer]
            /\ heard' = [status |-> e.status, trial |-> e.trial, period |-> e.period]
    /\ UNCHANGED <<accountVars, now, checkout, customers, events>>

----------------------------------------------------------------------------
(* Stripe *)

Report(c, status, trial, period) ==
    [kind |-> "subscription", customer |-> c, status |-> status, trial |-> trial, period |-> period]

\* The owner completes the checkout session.
Subscribe(c) ==
    /\ customers[c] = "session"
    /\ customers' = [customers EXCEPT ![c] = "subscribed"]
    /\ events' = events \cup {Report(c, "trialing", now + 1, now + 1),
                              [kind |-> "completed", customer |-> c]}
    /\ UNCHANGED <<accountVars, billing, now, checkout, heard>>

\* It is paid, not paid or canceled.
Change(c) ==
    /\ customers[c] = "subscribed" /\ Cardinality(events) < Events
    /\ \E status \in {"active", "past_due", "canceled"} :
          events' = events \cup {Report(c, status, Unset, now + 1)}
    /\ UNCHANGED <<accountVars, billing, now, checkout, customers, heard>>

TimePasses ==
    /\ now < Time
    /\ now' = now + 1
    /\ UNCHANGED <<accountVars, billing, checkout, customers, events, heard>>

----------------------------------------------------------------------------
(* Specification *)

ControlInit ==
    /\ account = [p \in Person |-> [role |-> "none", disabled |-> FALSE, password |-> 1]]
    /\ sessions = {}
    /\ billing = [status |-> "setup", trial |-> Unset, period |-> Unset, customer |-> Unset]
    /\ heard = [status |-> "setup", trial |-> Unset, period |-> Unset]
    /\ now = 0 /\ events = {}
    /\ checkout = [q \in Checkout |-> [pc |-> "idle", customer |-> Unset, read |-> billing]]
    /\ customers = [q \in Checkout |-> "none"]

ControlNext ==
    \/ \E p \in Person : Bootstrap(p) \/ Login(p) \/ Logout(p)
    \/ \E o, p \in Person :
          \/ SetPassword(o, p)
          \/ \E role \in Role :
                \/ CreateUser(o, p, role)
                \/ \E disabled \in BOOLEAN : UpdateUser(o, p, role, disabled)
    \/ \E q \in Checkout :
          \/ \E o \in Person : StartCheckout(q, o)
          \/ CustomerMade(q) \/ SessionMade(q) \/ CheckoutFails(q)
          \/ Subscribe(q) \/ Change(q)
    \/ \E e \in events : Webhook(e)
    \/ ReadBilling \/ TimePasses

ControlSpec == ControlInit /\ [][ControlNext]_controlVars

----------------------------------------------------------------------------
(* Properties *)

Dates == Nat \cup {Unset}
Status == {"setup", "trialing", "active", "past_due", "canceled"}
Subscription == [status : Status, trial : Dates, period : Dates]
Billing == [status : Status, trial : Dates, period : Dates, customer : Checkout \cup {Unset}]

ControlTypeOK ==
    /\ account \in [Person -> [role : Role \cup {"none"}, disabled : BOOLEAN, password : 1..Passwords]]
    /\ sessions \subseteq [user : Person, password : 1..Passwords]
    /\ billing \in Billing /\ heard \in Subscription /\ now \in Nat
    /\ checkout \in [Checkout -> [pc : {"idle", "customer", "session", "ended"},
                                 customer : Checkout \cup {Unset}, read : Billing]]
    /\ customers \in [Checkout -> {"none", "made", "session", "subscribed"}]
    /\ events \subseteq [kind : {"completed"}, customer : Checkout] \cup
                       [kind : {"subscription"}, customer : Checkout,
                        status : Status, trial : Dates, period : Dates]

\* Once there is an owner there is always one who is not disabled, whoever
\* demotes or disables whom in whatever order.
OwnerRemains ==
    (\E p \in Person : Exists(p)) =>
      \E p \in Person : account[p].role = "owner" /\ ~account[p].disabled

\* A session is of an account that is enabled, and of its present password.
SessionsAreCurrent ==
    \A s \in sessions : Exists(s.user) /\ ~account[s.user].disabled
                        /\ s.password = account[s.user].password

\* However checkouts and webhooks overlap, the state of the subscription is
\* what was last heard of it, or the end of the trial that was: a checkout
\* never brings back what it had read before it waited for Stripe.
BillingIsLastHeard ==
    LET stored == [status |-> billing.status, trial |-> billing.trial, period |-> billing.period]
    IN  stored \in {heard, Normalised(heard)}

\* A customer that is stored exists at Stripe.
CustomerIsKnown == billing.customer # Unset => customers[billing.customer] # "none"

ControlIsSound ==
    /\ ControlTypeOK /\ OwnerRemains /\ SessionsAreCurrent
    /\ BillingIsLastHeard /\ CustomerIsKnown

----------------------------------------------------------------------------
(* The inductive invariant behind them *)

\* An account that has not been made yet is as it was at the beginning.
AccountsStartEnabled == \A p \in Person : ~Exists(p) => ~account[p].disabled

\* Whoever names a customer to Stripe, or is told of one by it, names one that
\* has been made.
CustomersAreMade ==
    /\ \A q \in Checkout :
          checkout[q].pc = "session" =>
            checkout[q].customer # Unset /\ customers[checkout[q].customer] # "none"
    /\ \A e \in events : customers[e.customer] # "none"

ControlInv == ControlIsSound /\ AccountsStartEnabled /\ CustomersAreMade
=============================================================================
