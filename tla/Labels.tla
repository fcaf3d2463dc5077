-------------------------------- MODULE Labels --------------------------------
(***************************************************************************)
(* The conversions the other modules leave out: what a room code becomes   *)
(* between the form, the URL and the server, which room an address names,  *)
(* how a file's name is shortened and how a size is shown                  *)
(* (libs/shared/src/functions/room.utils.ts, useRoomStore.ts,              *)
(* signal.gateway.ts, back/src/utils/ip.utils.ts,                          *)
(* front/src/utils/file.utils.ts, front/src/services/statService.ts).      *)
(*                                                                         *)
(* They are pure: one sample is chosen and looked at.  A text is a         *)
(* sequence of characters, of which a few stand for their kinds; the       *)
(* sharp s is the one whose upper case is two characters.                  *)
(*                                                                         *)
(* A definition marked "a slip" is the next one with a mistake in it.  No  *)
(* other definition uses it: put in its place, it shows what a property    *)
(* catches.                                                                *)
(***************************************************************************)
EXTENDS Integers, Sequences, SequencesExt

CONSTANTS
  CodeLength,   \* ROOM_CODE_LENGTH, 6 in the code
  MaxText,      \* bound: characters of a text
  Amounts       \* sizes, as multiples of a power of 1024

ASSUME LabelAssumption ==
  /\ CodeLength \in Nat \ {0} /\ MaxText \in Nat
  /\ Amounts \subseteq 0..4 * 1024 * 1024

VARIABLE sample

Texts(chars) == UNION {[1..n -> chars] : n \in 0..MaxText}

-----------------------------------------------------------------------------
(* Room codes *)

RoomCodeChars == {"A", "S", "2"}   \* ROOM_CODE_CHARS
Typed == RoomCodeChars \cup {"a", "sharp", "O", " "}
ToUpper(char) == CASE char = "a" -> <<"A">> [] char = "sharp" -> <<"S", "S">> [] OTHER -> <<char>>
toUpperCase(text) == FlattenSeq([i \in DOMAIN text |-> ToUpper(text[i])])
trim(text) ==
  LET inked == {i \in DOMAIN text : text[i] # " "}
      Within(i, j) == SubSeq(text, i, j)
  IN  IF inked = {} THEN <<>>
      ELSE Within(CHOOSE i \in inked : \A k \in inked : i <= k,
                  CHOOSE j \in inked : \A k \in inked : k <= j)

validateRoomCode(code) ==
  Len(code) = CodeLength /\ \A c \in ToSet(toUpperCase(code)) : c \in RoomCodeChars

NoCode == <<>>
\* The code the form, the URL or the page's first load puts into the store.
Entered(text) ==
  LET code == toUpperCase(trim(text)) IN IF validateRoomCode(code) THEN code ELSE NoCode

\* getRoomId of the gateway, and the code its join-success answers with.
getRoomId(code, home) == IF trim(code) # <<>> THEN <<"room", toUpperCase(trim(code))>>
                         ELSE <<"home", home>>
AnsweredCode(code) == toUpperCase(trim(code))

-----------------------------------------------------------------------------
(* Addresses *)

\* A request: through proxies that append what they saw to the header, or directly;
\* mapped: an IPv4 address is written as an IPv6 one.
HttpRequest == [host : {"h1", "h2"}, mapped : BOOLEAN, hops : 0..2]
Written(r) == IF r.mapped THEN <<"::ffff:", r.host>> ELSE <<r.host>>
\* The header has the client first, then the proxies.
Forwarded(r) == <<Written(r)>> \o [i \in 1..r.hops - 1 |-> <<"proxy">>]
extractIpMapped(r) == IF r.hops > 0 THEN Forwarded(r)[1] ELSE Written(r)
  \* a slip: the prefix is not cut off
extractIp(r) ==
  IF r.hops > 0 THEN Forwarded(r)[1]
  ELSE IF Written(r)[1] = "::ffff:" THEN Tail(Written(r)) ELSE Written(r)

-----------------------------------------------------------------------------
(* File names *)

LastDot(name) == SelectLastInSeq(name, LAMBDA c : c = ".")
Extension(name) == IF LastDot(name) = 0 THEN <<>> ELSE SubSeq(name, LastDot(name), Len(name))
BaseName(name) == IF LastDot(name) = 0 THEN name ELSE SubSeq(name, 1, LastDot(name) - 1)
Truncated(name, allowed) == SubSeq(BaseName(name), 1, allowed - 1) \o <<"...">> \o Extension(name)
getTruncatedFileName(name, maxLength) ==
  LET allowed == maxLength - Len(Extension(name)) IN
  IF Len(name) <= maxLength \/ allowed <= 0 THEN name ELSE Truncated(name, allowed)

-----------------------------------------------------------------------------
(* Sizes: amount * 1024^power bytes, shown in hundredths of a unit *)

\* The unit is as large as it can be, but no larger than the last one.
UnitOf(amount, power, last) ==
  IF amount >= 1024 * 1024 /\ power + 2 <= last THEN power + 2
  ELSE IF amount >= 1024 /\ power + 1 <= last THEN power + 1
  ELSE power
PowersOf1024 == <<1, 1024, 1024 * 1024>>
Per(amount, power, last) == PowersOf1024[UnitOf(amount, power, last) - power + 1]
\* amount / per, rounded half up to a multiple of step hundredths.
Rounded(amount, per, step) == ((200 * amount + step * per) \div (2 * step * per)) * step
\* Three significant digits.
Digits3(amount, per) ==
  LET whole == amount \div per
  IN  Rounded(amount, per, IF whole >= 1000 THEN 1000 ELSE IF whole >= 100 THEN 100
                           ELSE IF whole >= 10 THEN 10 ELSE 1)

\* statService.formatSize: B to TB, and TB with one decimal or none.
formatSize(amount, power) ==
  LET unit == UnitOf(amount, power, 4)
      per == Per(amount, power, 4)
  IN  [unit |-> unit,
       value |-> IF unit < 4 THEN Digits3(amount, per)
                 ELSE Rounded(amount, per, IF amount \div per <= 99 THEN 10 ELSE 100)]
\* formatFileSize: o to Go.
formatFileSize(amount, power) ==
  [unit |-> UnitOf(amount, power, 3), value |-> Digits3(amount, Per(amount, power, 3))]

-----------------------------------------------------------------------------
\* Up to 4 * 1024 GB, which the file sizes still show with four digits.
LabelsInit ==
  sample \in [kind : {"code"}, text : Texts(Typed)]
             \cup [kind : {"request"}, request : HttpRequest]
             \cup [kind : {"name"}, text : Texts({"x", "."}), limit : 1..MaxText]
             \cup {s \in [kind : {"size"}, amount : Amounts, power : 0..3] :
                     s.power = 3 => s.amount <= 4096}

\* A sample stays as it is.
LabelsSpec == LabelsInit /\ [][UNCHANGED sample]_sample

\* What the form and the URL accept is a code as the server knows it: so many of its
\* characters, and the answer to the join has the code of the store; and two texts lead
\* to one room exactly if they become the same code.
CodesMeet ==
  sample.kind = "code" =>
    LET code == Entered(sample.text) IN
    code # NoCode =>
      /\ Len(code) = CodeLength /\ ToSet(code) \subseteq RoomCodeChars
      /\ AnsweredCode(code) = code
      /\ getRoomId(sample.text, "h1") = getRoomId(code, "h2")

\* A host without a code is in one room, however its requests come in: unless a proxy
\* wrote its IPv4 address as an IPv6 one; and two hosts are in different rooms.
HomesMeet ==
  sample.kind = "request" =>
    \A r \in HttpRequest :
      LET q == sample.request
          same == getRoomId(NoCode, extractIp(q)) = getRoomId(NoCode, extractIp(r))
      IN  /\ same => q.host = r.host
          /\ q.host = r.host /\ ~(q.mapped /\ q.hops > 0) /\ ~(r.mapped /\ r.hops > 0) => same

\* A shown name fits, unless its extension alone is too long; a shortened one fills the
\* width, keeps its extension, and differs from the name.
NameFits ==
  sample.kind = "name" =>
    LET name == sample.text
        shown == getTruncatedFileName(name, sample.limit)
    IN  /\ Len(shown) <= sample.limit \/ Len(Extension(name)) >= sample.limit
        /\ shown # name => /\ Len(shown) = sample.limit /\ Len(name) > sample.limit
                           /\ IsSuffix(Extension(name), shown)

\* The statistics and the chat show one size alike below a terabyte, at most half a
\* percent off, a terabyte or more at most five; and more is never shown as less.
SizesAgree ==
  sample.kind = "size" =>
    LET shown == formatSize(sample.amount, sample.power)
        file == formatFileSize(sample.amount, sample.power)
        More(a) == formatSize(a, sample.power)
        off == shown.value * Per(sample.amount, sample.power, 4) - 100 * sample.amount
    IN  /\ shown.unit < 4 => shown = file
        /\ \A s \in {-1, 1} : s * off * 2 <= (IF shown.unit < 4 THEN 1 ELSE 10) * sample.amount
        /\ \A a \in Amounts : a > sample.amount /\ (sample.power < 3 \/ a <= 4096) =>
             \/ More(a).unit > shown.unit
             \/ More(a).unit = shown.unit /\ More(a).value >= shown.value

\* What people see and type means one thing on both ends: codes, addresses, names, sizes.
LabelsAgree == CodesMeet /\ HomesMeet /\ NameFits /\ SizesAgree
=============================================================================
