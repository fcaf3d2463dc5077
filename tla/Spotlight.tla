------------------------------ MODULE Spotlight -------------------------------
(***************************************************************************)
(* The light that follows the pointer over the cards of the landing page:  *)
(* GlobalSpotlight and MagicBento of                                       *)
(* front/src/components/ui/MagicBento.tsx, as GlowingGrid.tsx uses them.   *)
(*                                                                         *)
(* gsap is external: gsap.to starts a tween and stops none that runs, so   *)
(* several move the opacity at once and the one that ends last has the     *)
(* last word; of those that end together, the one that started last.  Time *)
(* is counted in tenths of a second.  A distance is one of three: within   *)
(* the proximity, within the fade distance, beyond it; the glow that goes  *)
(* with it is 2, 1 or 0.                                                   *)
(*                                                                         *)
(* A definition marked "a slip" is the next one with a mistake in it.  No  *)
(* other definition uses it: put in its place, it shows what a property    *)
(* catches.                                                                *)
(***************************************************************************)
EXTENDS Naturals, FiniteSetsExt

CONSTANTS
  Card,       \* the cards of the grid
  MaxEffects  \* bound: runs of the effect, and renders of the grid

ASSUME SpotlightAssumption ==
  /\ Card # {} /\ IsFiniteSet(Card)
  /\ MaxEffects \in Nat \ {0}

VARIABLES
  spots,     \* the spotlights in the body; one is its number
  handling, \* the handlers are set
  effects,   \* runs of the effect so far; the last one made spotlight number effects
  renders,   \* renders of the grid that mounted its cards anew
  tweens,    \* of the last spotlight's opacity: where to, by the time left; of those
             \* that end together only the last one counts
  opacity,   \* where the tween that ended last has left it
  glow,      \* --glow-intensity of each card
  inside,    \* the last event was a move inside the section (history)
  apart      \* why cards and spotlight may differ (history: no guard reads it)

spotlightVars == <<spots, handling, effects, renders, tweens, opacity, glow, inside, apart>>

Level == 0..2
Dark == [c \in Card |-> 0]
NoTween == [t \in {} |-> 0]
Still == DOMAIN tweens = {}

SpotlightInit ==
  /\ spots = {}
  /\ handling = FALSE
  /\ effects = 0
  /\ renders = 0
  /\ tweens = NoTween
  /\ opacity = 0
  /\ glow = Dark
  /\ inside = FALSE
  /\ apart = {}

-----------------------------------------------------------------------------
\* The clean-up of the effect, if it has run.
CleanUpSpot == spots \ {effects}

\* The effect: at first, and again when the colour of the glow is another one.
SpotlightEffect ==
  /\ effects < MaxEffects
  /\ effects' = effects + 1
  /\ spots' = CleanUpSpot \cup {effects'}
  /\ handling' = TRUE
  /\ tweens' = NoTween
  /\ opacity' = 0
  /\ apart' = {"new"}
  /\ UNCHANGED <<renders, glow, inside>>
Unmount ==
  /\ handling
  /\ handling' = FALSE
  /\ spots' = CleanUpSpot
  /\ tweens' = NoTween
  /\ opacity' = 0
  /\ glow' = Dark
  /\ inside' = FALSE
  /\ UNCHANGED <<effects, renders, apart>>

\* The grid renders again: its children have no keys of their own, so each card gets
\* a random one and is mounted anew, without a glow.
RenderGrid ==
  /\ handling
  /\ renders < MaxEffects
  /\ renders' = renders + 1
  /\ glow' = Dark
  /\ apart' = apart \cup {"rendered"}
  /\ UNCHANGED <<spots, handling, effects, tweens, opacity, inside>>

-----------------------------------------------------------------------------
(* The handlers *)

Tween(to, time) ==
  tweens' = [t \in DOMAIN tweens \cup {time} |-> IF t = time THEN to ELSE tweens[t]]
\* One tween that was started before ends after this one.
Overtaken(time) == \E t \in DOMAIN tweens : t > time

FadeTime(level) == IF level > 0 THEN 2 ELSE 5

\* updateCardGlowProperties for every card, from its distance; the spotlight from the
\* smallest one.
MouseMove(near) ==
  /\ handling
  /\ glow' = near
  /\ LET level == Max({near[c] : c \in Card})
     IN  /\ Tween(level, FadeTime(level))
         /\ apart' = IF Overtaken(FadeTime(level)) THEN {"overtaken"} ELSE {}
  /\ inside' = TRUE
  /\ UNCHANGED <<spots, handling, effects, renders, opacity>>

\* A move outside the section, or the pointer leaves the document.
MouseOutCards ==   \* a slip: only the cards go dark
  /\ handling
  /\ glow' = Dark
  /\ inside' = FALSE
  /\ UNCHANGED <<spots, handling, effects, renders, tweens, opacity, apart>>
MouseOut ==
  /\ handling
  /\ glow' = Dark
  /\ Tween(0, 3)
  /\ apart' = IF Overtaken(3) THEN {"overtaken"} ELSE {}
  /\ inside' = FALSE
  /\ UNCHANGED <<spots, handling, effects, renders, opacity>>

\* A tenth of a second passes.
Tick ==
  /\ ~Still
  /\ tweens' = [t \in {t - 1 : t \in DOMAIN tweens \ {1}} |-> tweens[t + 1]]
  /\ opacity' = IF 1 \in DOMAIN tweens THEN tweens[1] ELSE opacity
  /\ UNCHANGED <<spots, handling, effects, renders, glow, inside, apart>>

SpotlightNext ==
  \/ SpotlightEffect \/ Unmount \/ RenderGrid
  \/ \E near \in [Card -> Level] : MouseMove(near)
  \/ MouseOut
  \/ Tick

SpotlightSpec == SpotlightInit /\ [][SpotlightNext]_spotlightVars

-----------------------------------------------------------------------------
(* Properties *)

\* There is one spotlight in the page while the handlers are set, and none after,
\* however often the effect ran.
OneSpotlight == spots = IF handling THEN {effects} ELSE {}

\* Once the pointer is out of the section no card glows, and the spotlight goes dark:
\* no tween that made it brighter outlasts the one that fades it.
DarkOutside == ~inside => glow = Dark /\ (Still => opacity = 0)

\* When nothing moves the spotlight is as bright as the brightest card, unless it was
\* made after the last move, the cards were mounted anew (MagicBento.tsx:584), or the
\* last tween was shorter than one before it, which then had the last word (498).
GlowTogether == Still /\ apart = {} => opacity = Max({glow[c] : c \in Card})

\* The light is where the pointer is, in one spotlight, and as bright as the cards.
LightFollows == OneSpotlight /\ DarkOutside /\ GlowTogether
=============================================================================
