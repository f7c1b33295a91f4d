------------------------------- MODULE Banners -------------------------------
(***************************************************************************)
(* The carousel of the home page, from                                     *)
(* src/web/src/pages/videos/VideoListPage.tsx: the banners come when the   *)
(* browser is idle, turn by themselves every five seconds, and are turned  *)
(* by dragging, by the arrows and by the dots; a click opens one.          *)
(***************************************************************************)
EXTENDS Integers, FiniteSets

CONSTANTS
  Count,    \* active banners
  Habits,   \* "early": drags before the banners are there
  Losses,   \* a subset of {"list", "image"}
  MaxActs

VARIABLES
  banners,              \* how many there are
  current, autoplay,    \* currentBannerIndex, bannerTimerRef
  over,                 \* the pointer is over the carousel
  drag, dragged,        \* where the button was pressed (a banner, Beside, or Up), hasDraggedRef
  released,             \* the click that follows a release on the banner it was pressed on
  images, opened,       \* loadingBannersRef, the banner whose link was opened last
  fetching, acts

pointer == <<over, drag, dragged, released>>
vars == <<banners, current, autoplay, pointer, images, opened, fetching, acts>>

Beside == -1  \* on the carousel, not on a banner
Up == -2      \* not pressed
All(n) == 0 .. n - 1
Act == acts < MaxActs /\ acts' = acts + 1
\* The effect that starts the interval runs once, before there are any banners.
Init ==
  /\ banners = 0 /\ current = 0 /\ autoplay = (banners > 1) /\ over \in BOOLEAN
  /\ drag = Up /\ dragged = FALSE /\ released = Beside /\ images = {} /\ opened = Beside
  /\ fetching = TRUE /\ acts = 0

BannersTold ==
  /\ fetching /\ fetching' = FALSE /\ banners' = Count /\ images' = All(Count)
  /\ UNCHANGED <<current, autoplay, pointer, opened, acts>>
BannersFail ==
  /\ fetching /\ "list" \in Losses /\ fetching' = FALSE
  /\ UNCHANGED <<banners, current, autoplay, pointer, images, opened, acts>>
\* A picture that fails is shown as one that has come.
ImageTold(b) ==
  /\ b \in images /\ images' = images \ {b}
  /\ UNCHANGED <<banners, current, autoplay, pointer, opened, fetching, acts>>

Tick ==
  /\ autoplay /\ Act /\ current' = (current + 1) % banners
  /\ UNCHANGED <<banners, autoplay, pointer, images, opened, fetching>>
HandleBannerMouseEnter ==
  /\ ~over /\ Act /\ over' = TRUE /\ autoplay' = FALSE
  /\ UNCHANGED <<banners, current, drag, dragged, released, images, opened, fetching>>
HandleBannerMouseLeave ==
  /\ over /\ released = Beside /\ Act /\ over' = FALSE /\ autoplay' = (autoplay \/ banners > 1)
  /\ UNCHANGED <<banners, current, drag, dragged, released, images, opened, fetching>>

Backward == IF current = 0 THEN banners - 1 ELSE current - 1
Forward == IF current = banners - 1 THEN 0 ELSE current + 1
Shown == {b \in All(banners) : (b - current) \in {-1, 0, 1} \/ {b, current} = {0, banners - 1}}
\* Mutant: a press does not forget the drag before it.
DragStartStale(b) ==
  /\ over /\ released = Beside /\ (banners > 0 \/ "early" \in Habits) /\ Act
  /\ drag' = b
  /\ UNCHANGED <<banners, current, autoplay, over, dragged, released, images, opened, fetching>>
HandleDragStart(b) ==
  /\ over /\ released = Beside /\ (banners > 0 \/ "early" \in Habits) /\ Act
  /\ drag' = b /\ dragged' = FALSE
  /\ UNCHANGED <<banners, current, autoplay, over, released, images, opened, fetching>>
\* More than 50 pixels turn the carousel.
HandleDragEnd(far, to) ==
  /\ over /\ drag # Up /\ drag' = Up
  /\ IF far = 0 THEN UNCHANGED <<current, dragged>>
     ELSE dragged' = TRUE /\ current' = IF far > 0 THEN Backward ELSE Forward
  /\ released' = IF to = drag THEN to ELSE Beside
  /\ UNCHANGED <<banners, autoplay, over, images, opened, fetching, acts>>
\* The click that follows: one that ends a drag is not meant.
Click ==
  /\ released # Beside /\ released' = Beside /\ dragged' = FALSE
  /\ opened' = IF dragged THEN opened ELSE released
  /\ UNCHANGED <<banners, current, autoplay, over, drag, images, fetching, acts>>
PressArrow(to) ==
  /\ over /\ released = Beside /\ banners > 1 /\ drag = Up /\ Act /\ current' = to /\ dragged' = FALSE
  /\ UNCHANGED <<banners, autoplay, over, drag, released, images, opened, fetching>>

Next ==
  \/ BannersTold \/ BannersFail \/ Tick \/ HandleBannerMouseEnter \/ HandleBannerMouseLeave \/ Click
  \/ (\E b \in images : ImageTold(b))
  \/ (\E b \in Shown \cup {Beside} : HandleDragStart(b) \/ \E far \in -1 .. 1 : HandleDragEnd(far, b))
  \/ \E to \in {Backward, Forward} \cup All(banners) : PressArrow(to)
Spec == Init /\ [][Next]_vars

-----------------------------------------------------------------------------
\* One of the banners is the one in the middle (currentBannerIndex).
MiddleIsBanner == banners > 0 => current \in All(banners)

\* A press on a banner that goes nowhere opens it, and a drag opens nothing
\* (hasDraggedRef).
PressOpens ==
  /\ \A b \in Shown : HandleDragEnd(0, b) /\ released' # Beside => ~dragged'
  /\ opened' # opened => released = opened' /\ ~dragged

\* The banners turn by themselves while the pointer is elsewhere (Banner自动播放).
TurnsByItself == banners > 1 /\ ~over => autoplay
=============================================================================
