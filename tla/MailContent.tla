------------------------------ MODULE MailContent ------------------------------
(***************************************************************************)
(* What a parser makes of the parts of a mail (utils/email/parsers): the   *)
(* text with a placeholder for each image, and the files of the            *)
(* attachments.  The images are found in one walk over the parts and saved *)
(* in another one, where each save may fail.  Where in the text an image   *)
(* stands, and the wording, are left out.                                  *)
(***************************************************************************)
EXTENDS Integers, FiniteSets, Sequences, SequencesExt

CONSTANTS Contents,     \* payloads, by their hash
          Names, Cids,  \* file names, content ids
          Kinds,        \* of a payload: what libmagic, the size and PIL say
          Alike,        \* names one of which is part of the other
          Mails,        \* the mails, each with the parser it is given to
          Scenes, None

VARIABLES mail, work, budget

vars == <<mail, work, budget>>

(* A part has a payload c, says it is an image or not, and has a name and a  *)
(* content id; a body refers to images by tags, which give one of these.     *)

Spend(k) ==
  /\ k \in DOMAIN budget
  /\ budget[k] > 0
  /\ budget' = [budget EXCEPT ![k] = @ - 1]

Signed(c) == Kinds[c].signed      \* libmagic calls it an image
Decorative(c) == Kinds[c].small   \* _validate_image_attachment refuses it
-----------------------------------------------------------------------------
(* The first walk: the images of a mail, in order, by content id and hash *)

Put(d, k, e) ==
  LET at == {i \in DOMAIN d : d[i].key = k} IN
  IF at = {} THEN Append(d, [e EXCEPT !.key = k])
  ELSE [i \in DOMAIN d |-> IF i \in at THEN [e EXCEPT !.key = k] ELSE d[i]]
PutNew(d, k, e) == IF \E i \in DOMAIN d : d[i].key = k THEN d ELSE Put(d, k, e)

Entry(p) == [key |-> p.c, c |-> p.c, name |-> p.name, cid |-> p.cid]

IsImage(p) == p.image \/ Signed(p.c)

(* _extract_inline_images: each image once, decorative ones left out; a part *)
(* that is no image does not stand for a later one with its content.         *)
Takes(parts, i) ==
  /\ IsImage(parts[i]) /\ ~Decorative(parts[i].c)
  /\ \A j \in 1..(i - 1) : IsImage(parts[j]) => parts[j].c # parts[i].c
Add(d, e) ==
  IF e.cid = None THEN Put(d, e.c, e) ELSE PutNew(Put(d, e.cid, e), e.c, e)
Walked(parts) ==
  LET found[n \in 0..Len(parts)] ==
        IF n = 0 THEN <<>>
        ELSE IF Takes(parts, n) THEN Add(found[n - 1], Entry(parts[n])) ELSE found[n - 1]
  IN found
Inline(parts) == Walked(parts)[Len(parts)]

(* EmailParser._process_multipart_email: any attachment with a name or id. *)
LegacyInline(parts) ==
  FoldLeft(LAMBDA d, p :
             IF (p.attached \/ p.image) /\ (p.name # None \/ p.cid # None)
             THEN Put(d, p.c, Entry(p)) ELSE d, <<>>, parts)
-----------------------------------------------------------------------------
(* The text and the images in it *)

PlainWords(m) == IF m.plain = None THEN {} ELSE {"plain"}

(* _normalize_html_img_tags: an entry replaces the tags of the first of its  *)
(* names that occurs: file name, content id, hash; the legacy parser also    *)
(* looks at file:// and id.                                                  *)
Claims(parser, e) ==
  LET cid == <<[by |-> "cid", ref |-> e.name], [by |-> "cid", ref |-> e.cid],
               [by |-> "cid", ref |-> e.c]>>
      more == <<[by |-> "file", ref |-> e.name], [by |-> "id", ref |-> e.name]>>
  IN IF parser = "legacy" THEN cid \o more ELSE cid

Replaced(parser, s, e) ==
  LET claims == Claims(parser, e)
      mine == {j \in DOMAIN claims : claims[j] \in s.left}
  IN IF mine = {} THEN s
     ELSE [left |-> s.left \ {claims[Min(mine)]}, shown |-> s.shown \cup {e.c}]
Replacing(parser, tags, entries) ==
  LET done[n \in 0..Len(entries)] ==
        IF n = 0 THEN [left |-> tags, shown |-> {}]
        ELSE Replaced(parser, done[n - 1], entries[n])
  IN done
Tagged(parser, tags, entries) == Replacing(parser, tags, entries)[Len(entries)].shown

(* _find_by_cid, _find_by_filename, _find_by_id, _find_image_by_filename:    *)
(* the first entry whose name contains the reference or is part of it; an    *)
(* entry without a name raises.                                              *)
Found(entries, ref) ==
  LET hits == {i \in DOMAIN entries :
                 entries[i].name = None \/ <<entries[i].name, ref>> \in Alike}
      e == entries[Min(hits)]
  IN CASE hits = {} -> {}
       [] hits # {} /\ e.name = None -> {None}
       [] OTHER -> {e.c}

(* _process_with_html: the images the tags stand for, else those the text of *)
(* the HTML names; none when a lookup raises.                                *)
HtmlPlaces(html, entries) ==
  LET byTag == UNION {Found(entries, t.ref) : t \in html.tags}
      byName == UNION {Found(entries, n) : n \in html.names}
  IN IF None \in byTag \cup byName THEN {}
     ELSE IF byTag # {} THEN byTag ELSE byName

(* _intelligently_position_images: each entry finds a place, at the end if   *)
(* there is no other.                                                        *)
InOrder(entries) == {entries[i].c : i \in DOMAIN entries}

(* _embed_images_in_text, process_images: with the words of the plain part. *)
Embed(m, entries) ==
  LET places == IF m.html = None \/ m.html.tags = {} THEN {}
                ELSE HtmlPlaces(m.html, entries)
  IN [words |-> PlainWords(m),
      shown |-> IF places = {} THEN InOrder(entries) ELSE places]

(* EmailFlankerParser._extract_text_with_images *)
FlankerText(m, entries) ==
  LET t == Tagged("flanker", m.html.tags, entries) IN
  CASE m.html # None /\ entries # <<>> /\ t # {} ->
         [words |-> {"html"}, shown |-> t]
    [] m.html # None /\ entries = <<>> ->
         [words |-> {"html"}, shown |-> {}]
    [] m.html = None /\ (m.plain = None \/ entries = <<>>) ->
         [words |-> PlainWords(m), shown |-> {}]
    [] OTHER -> Embed(m, entries)

(* EmailParser._extract_text_with_images: the plain text gets the file       *)
(* names, HTML without images the references themselves.                     *)
LegacyText(m, entries) ==
  CASE m.html # None /\ entries # <<>> ->
         [words |-> {"html"},
          shown |-> Tagged("legacy", m.html.tags, entries)]
    [] m.html # None /\ entries = <<>> ->
         [words |-> {"html"},
          shown |-> {t.ref : t \in {u \in m.html.tags : u.by = "cid"}}]
    [] OTHER ->
         [words |-> PlainWords(m),
          shown |-> IF m.plain = None THEN {}
                    ELSE {entries[i].name : i \in DOMAIN entries}]

(* Mutant of Cleaned: the placeholders stay as they were put. *)
NotCleaned(text, images) == text
(* _clean_invalid_image_placeholders *)
Cleaned(text, images) ==
  [text EXCEPT !.shown = @ \cap images]
-----------------------------------------------------------------------------
(* The second walk: files *)

Unread == [pc |-> "rest", at |-> 0, text |-> [words |-> {}, shown |-> {}],
           files |-> {}, images |-> {}]

Init ==
  /\ mail \in Mails
  /\ work = Unread
  /\ budget \in Scenes

Here == mail.parts[work.at]

(* parse_from_bytes up to the attachments *)
Read ==
  /\ work.pc = "rest"
  /\ "disk" \in DOMAIN budget
  /\ work' = [work EXCEPT !.pc = "walk", !.at = 1,
       !.text = IF mail.parser = "flanker"
                THEN FlankerText(mail, Inline(mail.parts))
                ELSE LegacyText(mail, LegacyInline(mail.parts))]
  /\ UNCHANGED <<mail, budget>>

(* _process_attachments: a content once; what claims to be an image is       *)
(* filtered, a payload that only is one is not.                              *)
IsFile(m, i) ==
  LET p == m.parts[i] IN
  IF m.parser = "flanker"
  THEN /\ \A j \in 1..(i - 1) : m.parts[j].c # p.c
       /\ p.image => ~Decorative(p.c)
  ELSE p.name # None /\ (p.attached \/ p.image)

Skip ==
  /\ work.pc = "walk" /\ work.at \in DOMAIN mail.parts
  /\ ~IsFile(mail, work.at)
  /\ work' = [work EXCEPT !.at = @ + 1]
  /\ UNCHANGED <<mail, budget>>

(* _save_attachment.  is_image: by signature, else by the type it claims.    *)
Save ==
  /\ work.pc = "walk" /\ work.at \in DOMAIN mail.parts
  /\ IsFile(mail, work.at)
  /\ \/ /\ work' = [work EXCEPT !.at = @ + 1, !.files = @ \cup {Here.c},
            !.images = @ \cup IF IsImage(Here) THEN {Here.c} ELSE {}]
        /\ UNCHANGED budget
     \/ Spend("disk") /\ work' = [work EXCEPT !.at = @ + 1]
  /\ UNCHANGED mail

(* Only the flanker parser cleans the text. *)
Finish ==
  /\ work.pc = "walk" /\ work.at \notin DOMAIN mail.parts
  /\ work' = [work EXCEPT !.pc = "done",
       !.text = IF mail.parser = "flanker" THEN Cleaned(work.text, work.images)
                ELSE work.text]
  /\ UNCHANGED <<mail, budget>>

Next == Read \/ Skip \/ Save \/ Finish

Spec == Init /\ [][Next]_vars
-----------------------------------------------------------------------------
(* Properties *)

Parsed == work.pc = "done" /\ mail.parser = "flanker"
AllSaved == \A i \in DOMAIN mail.parts : IsFile(mail, i) => mail.parts[i].c \in work.files
(* No payload comes as an image and again as something else. *)
ToldOneWay ==
  \A i, j \in DOMAIN mail.parts :
    mail.parts[i].c = mail.parts[j].c /\ IsImage(mail.parts[i]) => IsImage(mail.parts[j])

(* The two walks of the parser filter and name the images each for itself    *)
(* (_extract_inline_images, _process_attachments): whatever fails, the text  *)
(* refers to no image that was not saved; without HTML it refers to every    *)
(* saved image that is not decorative, and with HTML to one at least unless  *)
(* a save failed, or a payload came twice and only the first walk took it    *)
(* for an image.                                                             *)
TextShowsSavedImages ==
  Parsed =>
    LET shown == work.text.shown
        worth == {c \in work.images : ~Decorative(c)}
    IN /\ shown \subseteq work.images
       /\ mail.html = None /\ mail.plain # None => worth \subseteq shown
       /\ worth # {} /\ mail.html # None /\ AllSaved /\ ToldOneWay => shown # {}
=============================================================================
