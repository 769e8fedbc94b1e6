------------------------------- MODULE Paths -------------------------------
(***************************************************************************)
(* The text of paths (lstd/path/path.nt.ixx and path.general.ixx): parts   *)
(* of them, joining and normalising.  A path is a sequence of characters.  *)
(* Offsets count from 0.  Where an index outside a string would be taken,  *)
(* which the assert of translate_index forbids, the result is Asserts.     *)
(***************************************************************************)
EXTENDS Calls, Integers, SequencesExt

CONSTANTS Chars,     \* what they go on with: ".", both separators and letters, but no ":"
          Drives,    \* what paths begin with: nothing, a drive or a UNC sharepoint
          MaxPath,   \* bound: the length of the rest of a path
          MaxPart    \* bound: the same, of the parts that are joined

Asserts == "asserts"
Backslash == "\\"
Separators == {Backslash, "/"}
Empty == <<>>

path_is_sep(ch) == ch \in Separators
StartsWithSep(s) == s # Empty /\ path_is_sep(s[1])
EndsWithSep(s) == s # Empty /\ path_is_sep(Last(s))

At(s, i) == s[i + 1]
Part(s, begin, end) == SubSeq(s, begin + 1, end)
Places(s, wanted, from) == {i \in from..Len(s) - 1 : At(s, i) \in wanted}
find_any_of(s, wanted, from) == LET hits == Places(s, wanted, from) IN IF hits = {} THEN -1 ELSE Min(hits)
find_reverse_any_of(s, wanted) == LET hits == Places(s, wanted, 0) IN IF hits = {} THEN -1 ELSE Max(hits)
find_reverse_not_any_of(s, banned) == find_reverse_any_of(s, Chars \ banned)
\* It never looks at the only character of a string.
find_cp_reverse(s, ch) == IF Len(s) = 1 THEN -1 ELSE find_reverse_any_of(s, {ch})

Lowered(s) == [i \in DOMAIN s |-> IF s[i] = "A" THEN "a" ELSE s[i]]

-----------------------------------------------------------------------------
NoDrive(p) == [DriveOrUNC |-> Empty, Path |-> p]
DriveUpTo(p, i) == [DriveOrUNC |-> Part(p, 0, i), Path |-> Part(p, i, Len(p))]

\* \\machine\mountpoint
SplitUNC(p) ==
    LET index == find_any_of(p, Separators, 2)
        index2 == find_any_of(p, Separators, index + 1)
    IN  IF index = -1 \/ index2 = index + 1 THEN NoDrive(p)
        ELSE DriveUpTo(p, IF index2 = -1 THEN Len(p) ELSE index2)

\* Two backslashes alone: the third character is looked at.
DriveAsserts(p) == p = <<Backslash, Backslash>>

path_split_drive(p) ==
    IF Len(p) < 2 THEN NoDrive(p)
    ELSE IF Part(p, 0, 2) = <<Backslash, Backslash>> /\ p[3] # Backslash THEN SplitUNC(p)
    ELSE IF p[2] = ":" THEN DriveUpTo(p, 2)
    ELSE NoDrive(p)

path_is_absolute(p) == StartsWithSep(path_split_drive(p).Path)

\* A separator at the front, which its caller has removed, is not seen.
RECURSIVE ComponentsFrom(_, _, _)
ComponentsFrom(p, prev, start) ==
    LET next == find_any_of(p, Separators, start + 1)
    IN  IF next # -1 THEN <<Part(p, prev, next)>> \o ComponentsFrom(p, next + 1, next)
        ELSE IF prev < Len(p) THEN <<Part(p, prev, Len(p))>> ELSE <<>>
path_split_into_components(p) == ComponentsFrom(p, 0, 0)

-----------------------------------------------------------------------------
\* One part after the other; parts relative to others are appended.
Joining(drive, result, p) ==
    LET q == path_split_drive(p)
        other == q.DriveOrUNC # Empty /\ q.DriveOrUNC # drive
        differs == Lowered(q.DriveOrUNC) # Lowered(drive)
        separator == IF result # Empty /\ ~EndsWithSep(result) THEN <<Backslash>> ELSE Empty
    IN  IF StartsWithSep(q.Path)
        THEN [drive |-> IF q.DriveOrUNC # Empty \/ drive = Empty THEN q.DriveOrUNC ELSE drive,
              result |-> q.Path]
        ELSE IF other /\ differs THEN [drive |-> q.DriveOrUNC, result |-> q.Path]
        ELSE [drive |-> IF other THEN q.DriveOrUNC ELSE drive, result |-> result \o separator \o q.Path]

RECURSIVE JoinedFrom(_, _, _)
JoinedFrom(drive, result, paths) ==
    IF paths = <<>> THEN [drive |-> drive, result |-> result]
    ELSE LET j == Joining(drive, result, Head(paths)) IN JoinedFrom(j.drive, j.result, Tail(paths))

\* Between a UNC path and a relative one the separator goes in place of the UNC path.
path_join(paths) ==
    LET first == path_split_drive(Head(paths))
        j == JoinedFrom(first.DriveOrUNC, first.Path, Tail(paths))
    IN  IF j.result # Empty /\ ~StartsWithSep(j.result) /\ j.drive # Empty /\ Last(j.drive) # ":"
        THEN <<Backslash>> \o j.result
        ELSE j.drive \o j.result

-----------------------------------------------------------------------------
IsLiteral(p) == Len(p) >= 4 /\ SubSeq(p, 1, 2) = <<Backslash, Backslash>> /\ p[3] \in {".", "?"} /\ p[4] = Backslash

RECURSIVE WithoutLeading(_)
WithoutLeading(p) == IF StartsWithSep(p) THEN WithoutLeading(Tail(p)) ELSE p

Dot == <<".">>
DotDot == <<".", ".">>

\* A faulty version takes a name together with a level up that was kept in front of it.
CancelsAny(components, i) == i > 0
CancelsPrevious(components, i) == i > 0 /\ At(components, i - 1) # DotDot

Without(s, begin, end) == Part(s, 0, begin) \o Part(s, end, Len(s))

RECURSIVE Collapsed(_, _, _)
Collapsed(components, i, rooted) ==
    IF i = Len(components) THEN components
    ELSE LET it == At(components, i)
         IN  IF it \in {Empty, Dot} THEN Collapsed(Without(components, i, i + 1), i, rooted)
             ELSE IF it # DotDot THEN Collapsed(components, i + 1, rooted)
             ELSE IF CancelsPrevious(components, i)
                  THEN Collapsed(Without(components, i - 1, i + 1), i - 1, rooted)
             ELSE IF i = 0 /\ rooted THEN Collapsed(Without(components, i, i + 1), i, rooted)
             ELSE Collapsed(components, i + 1, rooted)

\* The first character behind the drive is looked at, and the one behind leading separators.
NormalizeAsserts(p) ==
    ~IsLiteral(p) /\ (DriveAsserts(p) \/ WithoutLeading(path_split_drive(p).Path) = Empty)

\* The last character goes with the separator behind the last component, or without it.
path_normalize(p) ==
    LET split == path_split_drive(p)
        root == split.DriveOrUNC \o (IF StartsWithSep(split.Path) THEN <<Backslash>> ELSE Empty)
        components == Collapsed(path_split_into_components(WithoutLeading(split.Path)), 0, EndsWithSep(root))
        separated == [i \in DOMAIN components |-> components[i] \o <<Backslash>>]
    IN  IF IsLiteral(p) THEN p
        ELSE IF root = Empty /\ components = <<>> THEN Dot
        ELSE Front(root \o FlattenSeq(separated))

-----------------------------------------------------------------------------
path_split(p) ==
    LET split == path_split_drive(p)
        i == find_reverse_any_of(split.Path, Separators) + 1
        head == Part(split.Path, 0, i)
        trimmed == Part(head, 0, find_reverse_not_any_of(head, Separators) + 1)
        length == IF trimmed # Empty THEN Len(trimmed) ELSE Len(head)
    IN  [Head |-> Part(p, 0, length + Len(split.DriveOrUNC)), Tail |-> Part(split.Path, i, Len(split.Path))]

path_base_name(p) == path_split(p).Tail
path_directory(p) == path_split(p).Head

path_split_extension(p) ==
    LET sepIndex == Max({find_cp_reverse(p, "/"), find_cp_reverse(p, Backslash)})
        dotIndex == find_cp_reverse(p, ".")
        named == \E i \in sepIndex + 1..dotIndex - 1 : At(p, i) # "."
    IN  IF dotIndex > sepIndex /\ named
        THEN [Root |-> Part(p, 0, dotIndex), Extension |-> Part(p, dotIndex, Len(p))]
        ELSE [Root |-> p, Extension |-> Empty]

-----------------------------------------------------------------------------
PathsUpTo(n) == {drive \o rest : drive \in Drives, rest \in BoundedSeq(Chars, n)}

Normalize == \E p \in PathsUpTo(MaxPath) :
    Call("path_normalize", p, IF NormalizeAsserts(p) THEN Asserts ELSE path_normalize(p))
Split == \E p \in PathsUpTo(MaxPath) :
    /\ ~DriveAsserts(p)
    /\ Call("path_split", p, [directory |-> path_directory(p), name |-> path_base_name(p),
                              extension |-> path_split_extension(p), absolute |-> path_is_absolute(p)])
Join == \E p, q \in PathsUpTo(MaxPart) :
    /\ ~DriveAsserts(p) /\ ~DriveAsserts(q)
    /\ Call("path_join", <<p, q>>, path_join(<<p, q>>))

Next == Ready /\ (Normalize \/ Split \/ Join)

Spec == Init /\ [][Next]_call

-----------------------------------------------------------------------------
(***************************************************************************)
(* What a path means: a drive, whether it goes from the root of it, and    *)
(* names.  A name begins behind a separator.                               *)
(***************************************************************************)
Names(s) ==
    LET inside(i) == i \in DOMAIN s /\ ~path_is_sep(s[i])
        starts == SetToSortSeq({i \in DOMAIN s : inside(i) /\ ~inside(i - 1)}, <)
        end(i) == Max({j \in i..Len(s) : \A k \in i..j : inside(k)})
    IN  [n \in DOMAIN starts |-> SubSeq(s, starts[n], end(starts[n]))]

Place(p) == LET split == path_split_drive(p)
            IN  [drive |-> split.DriveOrUNC, rooted |-> StartsWithSep(split.Path), names |-> Names(split.Path)]

\* Where the names lead: levels up that lead above the start are kept, above the root they are not.
Led(place) ==
    LET step(names, name) ==
            IF name = Dot THEN names
            ELSE IF name # DotDot THEN Append(names, name)
            ELSE IF names # <<>> /\ Last(names) # DotDot THEN Front(names)
            ELSE IF place.rooted THEN names ELSE Append(names, name)
    IN  [place EXCEPT !.names = FoldLeft(step, <<>>, @)]

\* Where the code does otherwise than the comments at 71-78 and 336 say: it looks behind the end of
\* paths of nothing but a drive and separators (369, 260); takes the last character of a root whose
\* names cancel out with the trailing separator (406); and joins to a UNC sharepoint alone by
\* putting the separator in its place (337).
LooksBehindEnd(p) == DriveAsserts(p) \/ WithoutLeading(path_split_drive(p).Path) = Empty
LosesRoot(place) == place.names = <<>> /\ (place.drive # Empty \/ place.rooted)
ReplacesUNC(p, q) ==
    LET here == Place(p)
        there == Place(q)
    IN  /\ p = here.drive /\ here.drive # Empty /\ Last(here.drive) # ":"
        /\ there.drive = Empty \/ Lowered(there.drive) = Lowered(here.drive)
        /\ ~there.rooted /\ there.names # <<>>

\* path.nt.ixx, lines 71-78: a normalised path means the same and is not normalised further.
NormalizeAgrees(in, out) ==
    LET meant == Led(Place(in))
    IN  CASE IsLiteral(in) -> out = in
          [] ~IsLiteral(in) /\ (LooksBehindEnd(in) \/ LosesRoot(meant)) -> TRUE
          [] OTHER -> /\ out # Asserts
                      /\ IF meant.names = <<>> THEN out = Dot ELSE Place(out) = meant
                      /\ path_normalize(out) = out

\* A machine without a mountpoint is none, but becomes one with a separator behind it.
HalfUNC(p) == IsPrefix(<<Backslash, Backslash>>, p) /\ path_split_drive(p).DriveOrUNC = Empty

\* Lines 52-58: a path is absolute that begins with a separator, a volume or a UNC resource.  The code
\* asks for a separator behind the latter two (291).
AbsoluteAgrees(in, out) ==
    LET place == Place(in)
    IN  (place.drive # Empty /\ ~place.rooted) \/ out.absolute = (StartsWithSep(in) \/ place.drive # Empty)

SplitAgrees(in, out) ==
    /\ AbsoluteAgrees(in, out)
    /\ DriveAsserts(out.directory) \/ HalfUNC(out.directory) \/ Place(path_join(<<out.directory, out.name>>)) = Place(in)
    /\ out.name = Empty \/ out.name = Last(Place(in).names)
    /\ out.extension.Root \o out.extension.Extension = in
    /\ Places(out.extension.Extension, Separators, 0) = {}

\* The second path goes on from the first, unless it has a root or another drive.
JoinAgrees(p, q, out) ==
    LET here == Place(p)
        there == Place(q)
        elsewhere == there.drive # Empty /\ Lowered(there.drive) # Lowered(here.drive)
        drive == IF there.drive = Empty THEN here.drive ELSE there.drive
    IN  ReplacesUNC(p, q) \/ Place(out) =
            IF elsewhere THEN there
            ELSE IF there.rooted THEN [there EXCEPT !.drive = drive]
            ELSE [drive |-> drive, rooted |-> here.rooted, names |-> here.names \o there.names]

\* path.nt.ixx: paths mean after an operation what they should, but for the ones named above.
PathsAgree ==
    CASE call.of = "path_normalize" -> NormalizeAgrees(call.in, call.out)
      [] call.of = "path_split" -> SplitAgrees(call.in, call.out)
      [] call.of = "path_join" -> JoinAgrees(call.in[1], call.in[2], call.out)
      [] OTHER -> TRUE
=============================================================================
