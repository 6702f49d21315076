----------------------------- MODULE MediaSources -----------------------------
(***************************************************************************)
(* Which pictures of a post go to Telegram: the pictures in its Markdown,  *)
(* each once, as far as Telegram or this process can get at them, up to    *)
(* the size of an album.                                                   *)
(***************************************************************************)
EXTENDS Naturals, Sequences, SequencesExt

CONSTANTS
  Images,   \* addresses of pictures
  Place,    \* what an address looks like
  SiteUrl,  \* is server.base_url configured?
  GroupMax  \* telegramMediaGroupMax: the largest album

\* An address with a scheme; one below the upload route with its file there;
\* any other that begins with a slash; the rest.
Places == {"absolute", "upload", "rooted", "relative"}

ASSUME MediaAssumption ==
  /\ Place \in [Images -> Places]
  /\ SiteUrl \in BOOLEAN
  /\ GroupMax \in Nat \ {0}

ExtractImages(urls) ==
  FoldLeft(LAMBDA out, u : IF Contains(out, u) THEN out ELSE Append(out, u),
           <<>>, urls)

ResolveOne(u) ==
  CASE Place[u] = "absolute"              -> "url"
    [] Place[u] = "upload"                -> "file"
    [] Place[u] = "rooted" /\ SiteUrl     -> "url"
    [] OTHER                              -> "none"

\* Fault: pictures nobody can get at take up room in the album.
ResolveFirst(urls) ==
  SelectSeq(SubSeq(urls, 1, IF Len(urls) < GroupMax THEN Len(urls) ELSE GroupMax),
            LAMBDA u : ResolveOne(u) # "none")

ResolvePhotoSources(urls) ==
  FoldLeft(LAMBDA out, u : IF Len(out) >= GroupMax \/ ResolveOne(u) = "none"
                           THEN out ELSE Append(out, u),
           <<>>, urls)

Photos(urls) == ResolvePhotoSources(ExtractImages(urls))

-------------------------------------------------------------------------------
\* The place of the first occurrence of u in urls.
FirstAt(urls, u) == SelectInSeq(urls, LAMBDA v : v = u)

\* The photos of a message are the usable pictures of the post, each once, in
\* the order in which they first occur; those left out of a full album come
\* after all of them.
AreFirstPhotos(photos, urls) ==
  LET usable == {u \in ToSet(urls) : ResolveOne(u) # "none"} IN
  /\ ToSet(photos) \subseteq usable
  /\ Len(photos) = GroupMax \/ ToSet(photos) = usable
  /\ \A i \in DOMAIN photos :
       \A u \in usable \ {photos[j] : j \in 1..i} :
         FirstAt(urls, photos[i]) < FirstAt(urls, u)

===============================================================================
