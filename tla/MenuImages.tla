------------------------------- MODULE MenuImages -------------------------------
(***************************************************************************)
(* The pictures of the menu: the files in storage (storage.service.js),    *)
(* the menu items that refer to them (menu.controller.js) and the nightly  *)
(* pass that deletes the files nobody came to use (image-cleanup.cron.js). *)
(*                                                                         *)
(* A picture is uploaded first and bound to an item when the form is       *)
(* saved.  A handler that takes the last reference away deletes the file   *)
(* in further steps: it counts who else refers to it, then removes it;     *)
(* the rows are not locked in between.  Of an item only the picture is     *)
(* kept.  The local driver is modelled.                                    *)
(***************************************************************************)
EXTENDS Integers, FiniteSets

CONSTANTS
  Shop,         \* restaurants
  Dish,         \* MenuItem rows
  Image,        \* storage keys, never given out twice
  Editor,       \* requests being answered
  NoShop, NoImage,
  Unsent,       \* what a form sends for the picture when it leaves it out
  ImageFaults   \* schemas may be unreadable and handlers may die

ASSUME ImageAssumption == NoImage \notin Image

VARIABLES
  dish,    \* the restaurant a row belongs to, and its picture
  file,    \* who uploaded a picture, and whether its file is there and a day old
  active,  \* restaurants whose status is ACTIVE
  edit,    \* the request an editor is answering
  sweep,   \* the nightly pass
  late     \* pictures bound while somebody was about to remove them

imageVars == <<dish, file, active, edit, sweep, late>>

-----------------------------------------------------------------------------
(* Rows *)

NoDish == [shop |-> NoShop, image |-> NoImage]

NoFile == [shop |-> NoShop, stored |-> FALSE, old |-> FALSE]

NoEdit == [phase |-> "idle"]

NoSweep == [phase |-> "idle", keys |-> {}, shops |-> {}]

ImageTypeOK ==
  /\ dish \in [Dish -> [shop : Shop \cup {NoShop}, image : Image \cup {NoImage}]]
  /\ file \in [Image -> [shop : Shop \cup {NoShop}, stored : BOOLEAN, old : BOOLEAN]]
  /\ active \subseteq Shop
  /\ edit \in [Editor ->
       {NoEdit} \cup [phase : {"update", "delete", "copy", "count", "remove"},
                      dish : Dish, shop : Shop, image : Image \cup {NoImage}]
                \cup [phase : {"remove"}, image : Image]]
  /\ sweep \in [phase : {"idle", "listed", "checking"}, keys : SUBSET Image,
                shops : SUBSET Shop]
          \cup [phase : {"removing"}, keys : SUBSET Image, shops : SUBSET Shop,
                image : Image]
  /\ late \subseteq Image

ImageInit ==
  /\ dish = [d \in Dish |-> NoDish]
  /\ file = [i \in Image |-> NoFile]
  /\ active = Shop
  /\ edit = [e \in Editor |-> NoEdit]
  /\ sweep = NoSweep
  /\ late = {}

-----------------------------------------------------------------------------
(* Helpers *)

Shows(d, i) == dish[d].image = i

Bound(i) == \E d \in Dish : Shows(d, i)

\* Mutant: the pictures of other items are not looked for.
ReferencedElsewhere_Never(i, d) == FALSE

\* isImageReferencedElsewhere
ReferencedElsewhere(i, d) == \E x \in Dish \ {d} : Shows(x, i)

\* The file of i is gone, or somebody has made up his mind to remove it: who is
\* counting does not look at d itself.
Endangered(i, d) ==
  \/ ~file[i].stored
  \/ sweep.phase = "removing" /\ sweep.image = i
  \/ \E x \in Editor : edit[x].phase = "remove" /\ edit[x].image = i
  \/ \E x \in Editor : edit[x].phase = "count" /\ edit[x].image = i /\ edit[x].dish = d

\* The item d of s is given a picture, or none.
Bind(d, s, i) ==
  /\ dish' = [dish EXCEPT ![d] = [shop |-> s, image |-> i]]
  /\ late' = late \cup {x \in {i} \cap Image : Endangered(x, d)}

\* An id that no row has, nor is given out again.
Fresh(d) == dish[d] = NoDish /\ \A x \in Editor : "dish" \in DOMAIN edit[x] => edit[x].dish # d

Answered(e) == edit' = [edit EXCEPT ![e] = NoEdit]

deleteByPublicId(i) == file' = [file EXCEPT ![i].stored = FALSE]

\* sanitizeImageInput: none, or a key with the restaurant's own id in it
Own(s) == {NoImage} \cup {i \in Image : file[i].shop = s}

-----------------------------------------------------------------------------
(* Requests; protect answers those of ACTIVE restaurants only. *)

UploadImage(s, i) ==
  /\ s \in active
  /\ file[i] = NoFile
  /\ file' = [file EXCEPT ![i] = [shop |-> s, stored |-> TRUE, old |-> FALSE]]
  /\ UNCHANGED <<dish, active, edit, sweep, late>>

CreateDish(e, s, d, i) ==
  /\ s \in active /\ edit[e] = NoEdit
  /\ Fresh(d)
  /\ i \in Own(s)
  /\ Bind(d, s, i)
  /\ UNCHANGED <<file, active, edit, sweep>>

\* The update, deletion or duplication of an item reads its row first.
ReadDish(e, d, phase) ==
  /\ dish[d].shop \in active /\ edit[e] = NoEdit
  /\ phase \in {"update", "delete", "copy"}
  /\ edit' = [edit EXCEPT ![e] = [phase |-> phase, dish |-> d, shop |-> dish[d].shop,
                                  image |-> dish[d].image]]
  /\ UNCHANGED <<dish, file, active, sweep, late>>

\* The row has been written: the picture it had when it was read goes, if there
\* was one.
Discard(e, keeps) ==
  edit' = [edit EXCEPT ![e] = IF keeps \/ @.image = NoImage THEN NoEdit
                              ELSE [@ EXCEPT !.phase = "count"]]

\* imageChanged
Changed(sent) == sent # Unsent

\* An item that has been deleted since fails the update.
WriteDish(e, sent) ==
  /\ edit[e].phase = "update"
  /\ LET d == edit[e].dish
         s == edit[e].shop IN
       IF dish[d] = NoDish
       THEN Answered(e) /\ UNCHANGED <<dish, late>>
       ELSE /\ sent \in Own(s) \cup {Unsent}
            /\ IF sent = Unsent THEN UNCHANGED <<dish, late>> ELSE Bind(d, s, sent)
            /\ Discard(e, ~Changed(sent) \/ sent = edit[e].image)
  /\ UNCHANGED <<file, active, sweep>>

DeleteDish(e) ==
  /\ edit[e].phase = "delete"
  /\ LET d == edit[e].dish IN
       IF dish[d] = NoDish THEN Answered(e) /\ UNCHANGED dish
       ELSE dish' = [dish EXCEPT ![d] = NoDish] /\ Discard(e, FALSE)
  /\ UNCHANGED <<file, active, sweep, late>>

\* The copy shares the picture of the original, as it was read.
CopyDish(e, d) ==
  /\ edit[e].phase = "copy"
  /\ Fresh(d)
  /\ Bind(d, edit[e].shop, edit[e].image)
  /\ Answered(e)
  /\ UNCHANGED <<file, active, sweep>>

CountOthers(e) ==
  /\ edit[e].phase = "count"
  /\ IF ReferencedElsewhere(edit[e].image, edit[e].dish) THEN Answered(e)
     ELSE edit' = [edit EXCEPT ![e].phase = "remove"]
  /\ UNCHANGED <<dish, file, active, sweep, late>>

\* deleteMenuItemImage: the picture of a form that is closed without saving
DropImage(e, s, i) ==
  /\ s \in active /\ edit[e] = NoEdit
  /\ file[i].shop = s
  /\ ~Bound(i)
  /\ edit' = [edit EXCEPT ![e] = [phase |-> "remove", image |-> i]]
  /\ UNCHANGED <<dish, file, active, sweep, late>>

RemoveFile(e) ==
  /\ edit[e].phase = "remove"
  /\ deleteByPublicId(edit[e].image)
  /\ Answered(e)
  /\ UNCHANGED <<dish, active, sweep, late>>

\* The process dies, or storage refuses, which is only warned about.
DieEditing(e) ==
  /\ ImageFaults /\ edit[e] # NoEdit
  /\ Answered(e)
  /\ UNCHANGED <<dish, file, active, sweep, late>>

-----------------------------------------------------------------------------
(* cleanupOrphanImages *)

\* A file more than 24 hours old
Orphanable(i) == file[i].stored /\ file[i].old

ListFiles ==
  /\ sweep.phase = "idle"
  /\ LET keys == {i \in Image : Orphanable(i)} IN
       keys # {} /\ sweep' = [NoSweep EXCEPT !.phase = "listed", !.keys = keys]
  /\ UNCHANGED <<dish, file, active, edit, late>>

ListShops ==
  /\ sweep.phase = "listed"
  /\ sweep' = [sweep EXCEPT !.phase = "checking", !.shops = active]
  /\ UNCHANGED <<dish, file, active, edit, late>>

\* The references to a key in the schemas the pass looks at and can read
Counted(i, shops) == \E d \in Dish : dish[d].shop \in shops /\ Shows(d, i)

\* A restaurant that is not looked at, or whose count fails, counts as none.
CheckFile(i) ==
  /\ sweep.phase = "checking" /\ i \in sweep.keys
  /\ \E unread \in SUBSET sweep.shops :
       /\ unread = {} \/ ImageFaults
       /\ sweep' = IF Counted(i, sweep.shops \ unread)
                   THEN [sweep EXCEPT !.keys = @ \ {i}]
                   ELSE [phase |-> "removing", keys |-> sweep.keys \ {i},
                         shops |-> sweep.shops, image |-> i]
       /\ late' = IF Bound(i) /\ ~Counted(i, sweep.shops \ unread)
                  THEN late \cup {i} ELSE late
  /\ UNCHANGED <<dish, file, active, edit>>

SweepFile(i) ==
  /\ sweep.phase = "removing" /\ sweep.image = i
  /\ deleteByPublicId(i)
  /\ sweep' = [phase |-> "checking", keys |-> sweep.keys, shops |-> sweep.shops]
  /\ UNCHANGED <<dish, active, edit, late>>

EndSweep ==
  /\ sweep.phase = "checking" /\ sweep.keys = {}
  /\ sweep' = NoSweep
  /\ UNCHANGED <<dish, file, active, edit, late>>

DieSweeping ==
  /\ ImageFaults /\ sweep.phase # "idle"
  /\ sweep' = NoSweep
  /\ UNCHANGED <<dish, file, active, edit, late>>

-----------------------------------------------------------------------------
(* The rest of the system *)

\* A day passes for a file.
GrowOld(i) ==
  /\ file[i].stored /\ ~file[i].old
  /\ file' = [file EXCEPT ![i].old = TRUE]
  /\ UNCHANGED <<dish, active, edit, sweep, late>>

\* The Super Admin, or the subscription, stops a restaurant and lets it go on.
ChangeStatus(s) ==
  /\ active' = IF s \in active THEN active \ {s} ELSE active \cup {s}
  /\ UNCHANGED <<dish, file, edit, sweep, late>>

EditStep(e) ==
  \/ \E s \in Shop, d \in Dish, i \in Image \cup {NoImage} : CreateDish(e, s, d, i)
  \/ \E d \in Dish, phase \in {"update", "delete", "copy"} : ReadDish(e, d, phase)
  \/ \E sent \in Image \cup {NoImage, Unsent} : WriteDish(e, sent)
  \/ DeleteDish(e)
  \/ \E d \in Dish : CopyDish(e, d)
  \/ CountOthers(e)
  \/ \E s \in Shop, i \in Image : DropImage(e, s, i)
  \/ RemoveFile(e)
  \/ DieEditing(e)

SweepStep ==
  \/ ListFiles
  \/ ListShops
  \/ \E i \in Image : CheckFile(i) \/ SweepFile(i)
  \/ EndSweep
  \/ DieSweeping

ImageNext ==
  \/ \E e \in Editor : EditStep(e)
  \/ \E s \in Shop, i \in Image : UploadImage(s, i)
  \/ SweepStep
  \/ \E i \in Image : GrowOld(i)
  \/ \E s \in Shop : ChangeStatus(s)

ImageSpec == ImageInit /\ [][ImageNext]_imageVars

-----------------------------------------------------------------------------
(* Properties *)

\* The picture of an item is there, whoever replaces, clears, deletes or copies
\* items that share it and however often the pass runs; but for pictures that
\* were bound while somebody was removing them, and those the pass could not
\* see to be bound (isImageReferencedElsewhere, cleanupOrphanImages).
ImagesAreThere ==
  \A d \in Dish : dish[d].image \in Image \ late => file[dish[d].image].stored

\* The nightly pass chooses to delete only files no menu item refers to
\* (image-cleanup.cron.js: "not referenced by any MenuItem").
SweepSparesMenus ==
  [][\A i \in Image : CheckFile(i) /\ sweep'.phase = "removing" => ~Bound(i)]_imageVars
=============================================================================
