--------------------------- MODULE PublishPayload ---------------------------
(***************************************************************************)
(* createInventoryPublishPayload: what the client makes of a parsed save   *)
(* before it leaves the host, and assertPublicSyncPayload, with which the  *)
(* route handler accepts it.                                               *)
(*                                                                         *)
(* A snapshot here has one player, one pal, one base and one item stack,   *)
(* whose references may be absent, known or dangling: the code treats each *)
(* record on its own.  A uid is redacted by tagging it.                    *)
(***************************************************************************)
EXTENDS Naturals, FiniteSets

CONSTANTS Guilds,   \* uids of guilds; not all of them are in a snapshot
          Player,   \* the player of the snapshot
          Stranger, \* a player it does not hold
          Base, UnknownBase, Place,
          None

VARIABLES snapshot, payload
vars == <<snapshot, payload>>

PalInputs ==
  [owner : {None, Player, Stranger}, guild : Guilds \cup {None},
   location : {"palbox", "base", "dimensional_storage", "unknown"},
   scope : {"player", "guild", "unresolved"}, place : {None, Place}]

StackInputs ==
  [base : {None, Base, UnknownBase}, guild : Guilds \cup {None},
   container : {"chest", "guild_chest"}, status : {"resolved", "unresolved", "unsupported"}]

SomePal == [owner |-> None, guild |-> None, location |-> "palbox", scope |-> "player", place |-> None]
SomeStack == [base |-> None, guild |-> None, container |-> "chest", status |-> "unsupported"]

Redacted(uid) == IF uid = None THEN None ELSE <<"pb1", uid>>

\* A redacted uid is told from the uids of a save by its form.
UidsAssumption ==
  LET uids == Guilds \cup {Player, Stranger, Base, UnknownBase, Place} IN
  /\ None \notin uids
  /\ \A u \in uids : Redacted(u) \notin uids \cup {None}

\* isNamedGuild
NamedGuilds(s) == s.guilds \cap s.named

InGuilds(s, g) == g # None /\ g \in NamedGuilds(s)

-----------------------------------------------------------------------------
\* A pal is its owner's, or, if nobody owns it and it works at a base, its guild's.
GuildOwned(s) == s.pal.owner = None /\ s.pal.location = "base" /\ InGuilds(s, s.pal.guild)

OwnerResolved(s) == s.pal.owner = Player \/ GuildOwned(s)

\* Mutation: the guild of the owner is not compared.
GuildResolvedByPal(s) == InGuilds(s, s.pal.guild)

\* The guild of an owned pal is that of its owner.
GuildResolved(s) ==
  /\ InGuilds(s, s.pal.guild)
  /\ s.pal.owner = Player => s.playerGuild = s.pal.guild

AccessResolved(s) == s.pal.location = "dimensional_storage" => s.pal.scope = "guild"

\* Mutation: a pal without owner is not mentioned.
WarningsButOwner(s) ==
  {w \in {"UNKNOWN_LOCATION", "LOCATION_ACCESS_UNRESOLVED", "GUILD_UNRESOLVED"} :
     \/ w = "UNKNOWN_LOCATION" /\ s.pal.location = "unknown"
     \/ /\ w = "LOCATION_ACCESS_UNRESOLVED"
        /\ s.pal.location = "dimensional_storage" /\ s.pal.scope = "unresolved"
     \/ w = "GUILD_UNRESOLVED" /\ ~GuildResolved(s)}

Warnings(s) ==
  {w \in {"UNKNOWN_LOCATION", "LOCATION_ACCESS_UNRESOLVED", "OWNER_UNRESOLVED", "GUILD_UNRESOLVED"} :
     \/ w = "UNKNOWN_LOCATION" /\ s.pal.location = "unknown"
     \/ /\ w = "LOCATION_ACCESS_UNRESOLVED"
        /\ s.pal.location = "dimensional_storage" /\ s.pal.scope = "unresolved"
     \/ w = "OWNER_UNRESOLVED" /\ ~OwnerResolved(s)
     \/ w = "GUILD_UNRESOLVED" /\ ~GuildResolved(s)}

\* Mutation: the place of a pal keeps its uid.
PublishedPalAtPlace(s) ==
  [owner |-> Redacted(s.pal.owner),
   guild |-> IF InGuilds(s, s.pal.guild) THEN Redacted(s.pal.guild) ELSE None,
   place |-> s.pal.place, location |-> s.pal.location, scope |-> s.pal.scope,
   shared |-> OwnerResolved(s) /\ GuildResolved(s) /\ AccessResolved(s),
   warnings |-> Warnings(s)]

\* Mutation: the guild of a pal is published though the guild itself is not.
PublishedPalOfAnyGuild(s) ==
  [owner |-> Redacted(s.pal.owner), guild |-> Redacted(s.pal.guild),
   place |-> Redacted(s.pal.place), location |-> s.pal.location, scope |-> s.pal.scope,
   shared |-> OwnerResolved(s) /\ GuildResolved(s) /\ AccessResolved(s),
   warnings |-> Warnings(s)]

PublishedPal(s) ==
  [owner |-> Redacted(s.pal.owner),
   guild |-> IF InGuilds(s, s.pal.guild) THEN Redacted(s.pal.guild) ELSE None,
   place |-> Redacted(s.pal.place), location |-> s.pal.location, scope |-> s.pal.scope,
   shared |-> OwnerResolved(s) /\ GuildResolved(s) /\ AccessResolved(s),
   warnings |-> Warnings(s)]

-----------------------------------------------------------------------------
\* A stack is found if it is in a base of its guild, or in the chest of its guild.
BaseResolved(s) ==
  /\ s.stack.base = Base
  /\ s.stack.guild # None /\ s.baseGuild = s.stack.guild
  /\ InGuilds(s, s.stack.guild)

\* Mutation: the chest of a guild is known even if the guild is not.
ChestOfAnyGuild(s) ==
  s.stack.container = "guild_chest" /\ s.stack.base = None /\ s.stack.guild # None

ChestResolved(s) ==
  /\ s.stack.container = "guild_chest" /\ s.stack.base = None
  /\ InGuilds(s, s.stack.guild)

PublishedStack(s) ==
  [base |-> Redacted(s.stack.base), guild |-> Redacted(s.stack.guild),
   container |-> s.stack.container,
   status |-> IF s.stack.status = "resolved" /\ ~BaseResolved(s) /\ ~ChestResolved(s)
              THEN "unresolved" ELSE s.stack.status]

Payload(s) ==
  [guilds |-> {Redacted(g) : g \in NamedGuilds(s)},
   players |-> {[uid |-> Redacted(Player),
                 guild |-> IF InGuilds(s, s.playerGuild) THEN Redacted(s.playerGuild) ELSE None]},
   bases |-> {[uid |-> Redacted(Base), guild |-> Redacted(s.baseGuild)]},
   pal |-> PublishedPal(s), stack |-> PublishedStack(s)]

-----------------------------------------------------------------------------
IsRedacted(uid) == uid # None /\ uid \notin Guilds \cup {Player, Stranger, Place}

\* assertPublicSyncPayload at the route handler.
Accepted(p) ==
  /\ \A g \in p.guilds : IsRedacted(g)
  /\ \A q \in p.players : IsRedacted(q.uid) /\ (q.guild # None => IsRedacted(q.guild))
  /\ \A uid \in {p.pal.owner, p.pal.guild, p.pal.place} : uid # None => IsRedacted(uid)

\* Either the pal or the stack is varied.  "named" are the guilds that have a
\* name of their own.
Init ==
  /\ payload = None
  /\ \E guilds \in SUBSET Guilds : \E named \in SUBSET guilds :
     \E g, h \in Guilds \cup {None} :
     \E choice \in (PalInputs \X {SomeStack}) \cup ({SomePal} \X StackInputs) :
       snapshot = [guilds |-> guilds, named |-> named, playerGuild |-> g, baseGuild |-> h,
                   pal |-> choice[1], stack |-> choice[2]]

Create == payload = None /\ payload' = Payload(snapshot) /\ UNCHANGED snapshot

Spec == Init /\ [][Create]_vars

-----------------------------------------------------------------------------
Made == payload # None

\* A pal that others may breed with is in a guild that is published, with its
\* owner, and nobody is promised a pal in a storage only its owner reaches.
SharedIsReachable ==
  Made /\ payload.pal.shared =>
    /\ payload.pal.guild \in payload.guilds
    /\ payload.pal.owner # None => [uid |-> payload.pal.owner, guild |-> payload.pal.guild] \in payload.players
    /\ payload.pal.owner = None => payload.pal.location = "base"
    /\ payload.pal.location = "dimensional_storage" => payload.pal.scope = "guild"

\* A pal that is not shared has a warning that says why, unless it is in the
\* dimensional storage of a player.
UnsharedIsExplained ==
  Made /\ ~payload.pal.shared =>
    \/ payload.pal.warnings \ {"UNKNOWN_LOCATION"} # {}
    \/ payload.pal.location = "dimensional_storage" /\ payload.pal.scope = "player"

\* No player or pal is published as of a guild that is not published.
NoDanglingGuild ==
  Made => \A g \in {payload.pal.guild} \cup {q.guild : q \in payload.players} :
            g # None => g \in payload.guilds

\* A stack that counts as found is in a published base of a published guild, or
\* in the chest of a published guild.
ResolvedStackIsFound ==
  Made /\ payload.stack.status = "resolved" =>
    /\ payload.stack.guild \in payload.guilds
    /\ \/ [uid |-> payload.stack.base, guild |-> payload.stack.guild] \in payload.bases
       \/ payload.stack.base = None /\ payload.stack.container = "guild_chest"

\* The server accepts whatever the client makes: no uid of the save is left in
\* what it looks at.
ClientIsAccepted == Made => Accepted(payload)

\* What is published is accepted, agrees with itself, and says why a pal is not
\* shared.
PayloadAgrees ==
  /\ SharedIsReachable /\ UnsharedIsExplained
  /\ NoDanglingGuild /\ ResolvedStackIsFound /\ ClientIsAccepted
=============================================================================
