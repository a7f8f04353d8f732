------------------------------- MODULE Ui4 -------------------------------
(***************************************************************************)
(* The classes of a Designer form, tools/duic/ui4.h and ui4.cpp: 61        *)
(* classes generated from one schema, one for each kind of element of a    *)
(* .ui file.  DomXDecl is the class declaration (the attributes and child  *)
(* elements it stores, and their types), DomX how ui4.cpp treats it: its   *)
(* element name, the attributes and the children in the order in which     *)
(* they are written.  ui4.cpp compares tags in lower case, so a field is   *)
(* named by its tag in lower case.  Ui4Dom gives the rows their meaning.   *)
(***************************************************************************)
(* The types of a field: the text of an attribute or of a child that holds *)
(* text only, a list of such children, and owned child objects.            *)
Text  == [is |-> "text",  of |-> "QString"]
Whole == [is |-> "text",  of |-> "int"]
Real  == [is |-> "text",  of |-> "double"]
Flag  == [is |-> "text",  of |-> "bool"]
Texts == [is |-> "texts", of |-> "QString"]
One(class)  == [is |-> "one",  of |-> class]
Many(class) == [is |-> "many", of |-> class]

None == <<>>

(* A class keeps any of its children, a "choice" class (enum Kind) one.    *)
Record(attrs, elems) == [choice |-> FALSE, attrs |-> attrs, elems |-> elems]
Choice(attrs, elems) == [choice |-> TRUE, attrs |-> attrs, elems |-> elems]

(* What clear and the destructor delete, read accepts and write produces.  *)
ClassOf(decl, tag, attrs, owned, reads, writes) ==
  [choice |-> decl.choice, attrs |-> decl.attrs, elems |-> decl.elems, tag |-> tag,
   attrWrites |-> attrs, owned |-> owned, reads |-> reads, writes |-> writes]

(* The classes short enough to say it once: every child that is an object  *)
(* is owned, and read accepts exactly what write produces.                 *)
Class(decl, tag, attrs, elems) ==
  ClassOf(decl, tag, attrs, {e \in DOMAIN decl.elems : decl.elems[e].is \in {"one", "many"}},
          DOMAIN decl.elems, elems)

DomUIDecl ==
  Record([version |-> Text, language |-> Text, stdsetdef |-> Whole],
         [author |-> Text, comment |-> Text, exportmacro |-> Text, class |-> Text,
          widget |-> One("DomWidget"), layoutdefault |-> One("DomLayoutDefault"),
          layoutfunction |-> One("DomLayoutFunction"), pixmapfunction |-> Text,
          customwidgets |-> One("DomCustomWidgets"), tabstops |-> One("DomTabStops"),
          images |-> One("DomImages"), includes |-> One("DomIncludes"),
          resources |-> One("DomResources"), connections |-> One("DomConnections"),
          designerdata |-> One("DomDesignerData"), slots |-> One("DomSlots")])
DomUIOwned == {"widget", "layoutdefault", "layoutfunction", "customwidgets", "tabstops", "images",
               "includes", "resources", "connections", "designerdata", "slots"}
DomUIReads == {"author", "comment", "exportmacro", "class", "widget", "layoutdefault",
               "layoutfunction", "pixmapfunction", "customwidgets", "tabstops", "images",
               "includes", "resources", "connections", "designerdata", "slots"}
DomUIWrites == <<"author", "comment", "exportmacro", "class", "widget", "layoutdefault",
                 "layoutfunction", "pixmapfunction", "customwidgets", "tabstops", "images",
                 "includes", "resources", "connections", "designerdata", "slots">>
DomUI == ClassOf(DomUIDecl, "ui", <<"version", "language", "stdsetdef">>,
  DomUIOwned, DomUIReads, DomUIWrites)

DomIncludesDecl ==
  Record(None, [include |-> Many("DomInclude")])
DomIncludes == Class(DomIncludesDecl, "includes", <<>>, <<"include">>)

DomIncludeDecl ==
  Record([location |-> Text, impldecl |-> Text], None)
DomInclude == Class(DomIncludeDecl, "include", <<"location", "impldecl">>, <<>>)

DomResourcesDecl ==
  Record([name |-> Text], [include |-> Many("DomResource")])
DomResources == Class(DomResourcesDecl, "resources", <<"name">>, <<"include">>)

DomResourceDecl ==
  Record([location |-> Text], None)
DomResource == Class(DomResourceDecl, "resource", <<"location">>, <<>>)

DomActionGroupDecl ==
  Record([name |-> Text],
         [action |-> Many("DomAction"), actiongroup |-> Many("DomActionGroup"),
          property |-> Many("DomProperty"), attribute |-> Many("DomProperty")])
DomActionGroup == Class(DomActionGroupDecl, "actiongroup", <<"name">>,
  <<"action", "actiongroup", "property", "attribute">>)

DomActionDecl ==
  Record([name |-> Text, menu |-> Text],
         [property |-> Many("DomProperty"), attribute |-> Many("DomProperty")])
DomAction == Class(DomActionDecl, "action", <<"name", "menu">>, <<"property", "attribute">>)

DomActionRefDecl ==
  Record([name |-> Text], None)
DomActionRef == Class(DomActionRefDecl, "actionref", <<"name">>, <<>>)

DomImagesDecl ==
  Record(None, [image |-> Many("DomImage")])
DomImages == Class(DomImagesDecl, "images", <<>>, <<"image">>)

DomImageDecl ==
  Record([name |-> Text], [data |-> One("DomImageData")])
DomImage == Class(DomImageDecl, "image", <<"name">>, <<"data">>)

DomImageDataDecl ==
  Record([format |-> Text, length |-> Whole], None)
DomImageData == Class(DomImageDataDecl, "imagedata", <<"format", "length">>, <<>>)

DomCustomWidgetsDecl ==
  Record(None, [customwidget |-> Many("DomCustomWidget")])
DomCustomWidgets == Class(DomCustomWidgetsDecl, "customwidgets", <<>>, <<"customwidget">>)

DomHeaderDecl ==
  Record([location |-> Text], None)
DomHeader == Class(DomHeaderDecl, "header", <<"location">>, <<>>)

DomCustomWidgetDecl ==
  Record(None,
         [class |-> Text, extends |-> Text, header |-> One("DomHeader"),
          sizehint |-> One("DomSize"), addpagemethod |-> Text, container |-> Whole,
          sizepolicy |-> One("DomSizePolicyData"), pixmap |-> Text, script |-> One("DomScript"),
          properties |-> One("DomProperties"), slots |-> One("DomSlots")])
DomCustomWidgetOwned == {"header", "sizehint", "sizepolicy", "script", "properties", "slots"}
DomCustomWidgetReads == {"class", "extends", "header", "sizehint", "addpagemethod", "container",
                         "sizepolicy", "pixmap", "script", "properties", "slots"}
DomCustomWidgetWrites == <<"class", "extends", "header", "sizehint", "addpagemethod", "container",
                           "sizepolicy", "pixmap", "script", "properties", "slots">>
DomCustomWidget == ClassOf(DomCustomWidgetDecl, "customwidget", <<>>,
  DomCustomWidgetOwned, DomCustomWidgetReads, DomCustomWidgetWrites)

DomPropertiesDecl ==
  Record(None, [property |-> Many("DomPropertyData")])
DomProperties == Class(DomPropertiesDecl, "properties", <<>>, <<"property">>)

DomPropertyDataDecl ==
  Record([type |-> Text], None)
DomPropertyData == Class(DomPropertyDataDecl, "propertydata", <<"type">>, <<>>)

DomSizePolicyDataDecl ==
  Record(None, [hordata |-> Whole, verdata |-> Whole])
DomSizePolicyData == Class(DomSizePolicyDataDecl, "sizepolicydata", <<>>,
  <<"hordata", "verdata">>)

DomLayoutDefaultDecl ==
  Record([spacing |-> Whole, margin |-> Whole], None)
DomLayoutDefault == Class(DomLayoutDefaultDecl, "layoutdefault", <<"spacing", "margin">>, <<>>)

DomLayoutFunctionDecl ==
  Record([spacing |-> Text, margin |-> Text], None)
DomLayoutFunction == Class(DomLayoutFunctionDecl, "layoutfunction", <<"spacing", "margin">>,
  <<>>)

DomTabStopsDecl ==
  Record(None, [tabstop |-> Texts])
DomTabStops == Class(DomTabStopsDecl, "tabstops", <<>>, <<"tabstop">>)

DomLayoutDecl ==
  Record([class |-> Text, name |-> Text],
         [property |-> Many("DomProperty"), attribute |-> Many("DomProperty"),
          item |-> Many("DomLayoutItem")])
DomLayout == Class(DomLayoutDecl, "layout", <<"class", "name">>,
  <<"property", "attribute", "item">>)

DomLayoutItemDecl ==
  Choice([row |-> Whole, column |-> Whole, rowspan |-> Whole, colspan |-> Whole],
         [widget |-> One("DomWidget"), layout |-> One("DomLayout"), spacer |-> One("DomSpacer")])
DomLayoutItem_SpanNotWritten ==
  Class(DomLayoutItemDecl, "layoutitem", <<"row", "column", "rowspan">>, <<"widget", "layout", "spacer">>)
DomLayoutItem == Class(DomLayoutItemDecl, "layoutitem", <<"row", "column", "rowspan", "colspan">>,
  <<"widget", "layout", "spacer">>)

DomRowDecl ==
  Record(None, [property |-> Many("DomProperty")])
DomRow == Class(DomRowDecl, "row", <<>>, <<"property">>)

DomColumnDecl ==
  Record(None, [property |-> Many("DomProperty")])
DomColumn == Class(DomColumnDecl, "column", <<>>, <<"property">>)

DomItemDecl ==
  Record([row |-> Whole, column |-> Whole],
         [property |-> Many("DomProperty"), item |-> Many("DomItem")])
DomItem == Class(DomItemDecl, "item", <<"row", "column">>, <<"property", "item">>)

DomWidgetDecl ==
  Record([class |-> Text, name |-> Text, native |-> Flag],
         [class |-> Texts, property |-> Many("DomProperty"), script |-> Many("DomScript"),
          widgetdata |-> Many("DomWidgetData"), attribute |-> Many("DomProperty"),
          row |-> Many("DomRow"), column |-> Many("DomColumn"), item |-> Many("DomItem"),
          layout |-> Many("DomLayout"), widget |-> Many("DomWidget"),
          action |-> Many("DomAction"), actiongroup |-> Many("DomActionGroup"),
          addaction |-> Many("DomActionRef"), zorder |-> Texts])
DomWidgetOwned == {"property", "script", "widgetdata", "attribute", "row", "column", "item",
                   "layout", "widget", "action", "actiongroup", "addaction"}
DomWidgetReads == {"class", "property", "script", "widgetdata", "attribute", "row", "column",
                   "item", "layout", "widget", "action", "actiongroup", "addaction", "zorder"}
DomWidgetWrites == <<"class", "property", "script", "widgetdata", "attribute", "row", "column",
                     "item", "layout", "widget", "action", "actiongroup", "addaction", "zorder">>
DomWidget == ClassOf(DomWidgetDecl, "widget", <<"class", "name", "native">>,
  DomWidgetOwned, DomWidgetReads, DomWidgetWrites)

DomSpacerDecl ==
  Record([name |-> Text], [property |-> Many("DomProperty")])
DomSpacer == Class(DomSpacerDecl, "spacer", <<"name">>, <<"property">>)

DomColorDecl ==
  Record([alpha |-> Whole], [red |-> Whole, green |-> Whole, blue |-> Whole])
DomColor == Class(DomColorDecl, "color", <<"alpha">>, <<"red", "green", "blue">>)

DomGradientStopDecl ==
  Record([position |-> Real], [color |-> One("DomColor")])
DomGradientStop == Class(DomGradientStopDecl, "gradientstop", <<"position">>, <<"color">>)

DomGradientDecl ==
  Record([startx |-> Real, starty |-> Real, endx |-> Real, endy |-> Real, centralx |-> Real,
          centraly |-> Real, focalx |-> Real, focaly |-> Real, radius |-> Real, angle |-> Real,
          type |-> Text, spread |-> Text, coordinatemode |-> Text],
         [gradientstop |-> Many("DomGradientStop")])
DomGradientOwned == {"gradientstop"}
DomGradientReads == {"gradientstop"}
DomGradientWrites == <<"gradientstop">>
DomGradient == ClassOf(DomGradientDecl, "gradient", <<"startx", "starty", "endx", "endy",
                                                      "centralx", "centraly", "focalx", "focaly",
                                                      "radius", "angle", "type", "spread",
                                                      "coordinatemode">>,
  DomGradientOwned, DomGradientReads, DomGradientWrites)

DomBrushDecl ==
  Choice([brushstyle |-> Text],
         [color |-> One("DomColor"), texture |-> One("DomProperty"),
          gradient |-> One("DomGradient")])
DomBrush == Class(DomBrushDecl, "brush", <<"brushstyle">>, <<"color", "texture", "gradient">>)

DomColorRoleDecl ==
  Record([role |-> Text], [brush |-> One("DomBrush")])
DomColorRole == Class(DomColorRoleDecl, "colorrole", <<"role">>, <<"brush">>)

DomColorGroupDecl ==
  Record(None, [colorrole |-> Many("DomColorRole"), color |-> Many("DomColor")])
DomColorGroup == Class(DomColorGroupDecl, "colorgroup", <<>>, <<"colorrole", "color">>)

DomPaletteDecl ==
  Record(None,
         [active |-> One("DomColorGroup"), inactive |-> One("DomColorGroup"),
          disabled |-> One("DomColorGroup")])
DomPalette == Class(DomPaletteDecl, "palette", <<>>, <<"active", "inactive", "disabled">>)

DomFontDecl ==
  Record(None,
         [family |-> Text, pointsize |-> Whole, weight |-> Whole, italic |-> Flag, bold |-> Flag,
          underline |-> Flag, strikeout |-> Flag, antialiasing |-> Flag, stylestrategy |-> Text,
          kerning |-> Flag])
DomFontOwned == {}
DomFontReads == {"family", "pointsize", "weight", "italic", "bold", "underline", "strikeout",
                 "antialiasing", "stylestrategy", "kerning"}
DomFontWrites == <<"family", "pointsize", "weight", "italic", "bold", "underline", "strikeout",
                   "antialiasing", "stylestrategy", "kerning">>
DomFont == ClassOf(DomFontDecl, "font", <<>>,
  DomFontOwned, DomFontReads, DomFontWrites)

DomPointDecl ==
  Record(None, [x |-> Whole, y |-> Whole])
DomPoint == Class(DomPointDecl, "point", <<>>, <<"x", "y">>)

DomRectDecl ==
  Record(None, [x |-> Whole, y |-> Whole, width |-> Whole, height |-> Whole])
DomRect == Class(DomRectDecl, "rect", <<>>, <<"x", "y", "width", "height">>)

DomLocaleDecl ==
  Record([language |-> Text, country |-> Text], None)
DomLocale == Class(DomLocaleDecl, "locale", <<"language", "country">>, <<>>)

DomSizePolicyDecl ==
  Record([hsizetype |-> Text, vsizetype |-> Text],
         [hsizetype |-> Whole, vsizetype |-> Whole, horstretch |-> Whole, verstretch |-> Whole])
DomSizePolicy == Class(DomSizePolicyDecl, "sizepolicy", <<"hsizetype", "vsizetype">>,
  <<"hsizetype", "vsizetype", "horstretch", "verstretch">>)

DomSizeDecl ==
  Record(None, [width |-> Whole, height |-> Whole])
DomSize == Class(DomSizeDecl, "size", <<>>, <<"width", "height">>)

DomDateDecl ==
  Record(None, [year |-> Whole, month |-> Whole, day |-> Whole])
DomDate == Class(DomDateDecl, "date", <<>>, <<"year", "month", "day">>)

DomTimeDecl ==
  Record(None, [hour |-> Whole, minute |-> Whole, second |-> Whole])
DomTime == Class(DomTimeDecl, "time", <<>>, <<"hour", "minute", "second">>)

DomDateTimeDecl ==
  Record(None,
         [hour |-> Whole, minute |-> Whole, second |-> Whole, year |-> Whole, month |-> Whole,
          day |-> Whole])
DomDateTimeOwned == {}
DomDateTimeReads == {"hour", "minute", "second", "year", "month", "day"}
DomDateTimeWrites == <<"hour", "minute", "second", "year", "month", "day">>
DomDateTime == ClassOf(DomDateTimeDecl, "datetime", <<>>,
  DomDateTimeOwned, DomDateTimeReads, DomDateTimeWrites)

DomStringListDecl ==
  Record(None, [string |-> Texts])
DomStringList == Class(DomStringListDecl, "stringlist", <<>>, <<"string">>)

DomResourcePixmapDecl ==
  Record([resource |-> Text, alias |-> Text], None)
DomResourcePixmap == Class(DomResourcePixmapDecl, "resourcepixmap", <<"resource", "alias">>,
  <<>>)

DomResourceIconDecl ==
  Record([resource |-> Text],
         [normaloff |-> One("DomResourcePixmap"), normalon |-> One("DomResourcePixmap"),
          disabledoff |-> One("DomResourcePixmap"), disabledon |-> One("DomResourcePixmap"),
          activeoff |-> One("DomResourcePixmap"), activeon |-> One("DomResourcePixmap"),
          selectedoff |-> One("DomResourcePixmap"), selectedon |-> One("DomResourcePixmap")])
DomResourceIconOwned == {"normaloff", "normalon", "disabledoff", "disabledon", "activeoff",
                         "activeon", "selectedoff", "selectedon"}
DomResourceIconReads == {"normaloff", "normalon", "disabledoff", "disabledon", "activeoff",
                         "activeon", "selectedoff", "selectedon"}
DomResourceIconWrites == <<"normaloff", "normalon", "disabledoff", "disabledon", "activeoff",
                           "activeon", "selectedoff", "selectedon">>
DomResourceIcon == ClassOf(DomResourceIconDecl, "resourceicon", <<"resource">>,
  DomResourceIconOwned, DomResourceIconReads, DomResourceIconWrites)

DomStringDecl ==
  Record([notr |-> Text, comment |-> Text], None)
DomString == Class(DomStringDecl, "string", <<"notr", "comment">>, <<>>)

DomPointFDecl ==
  Record(None, [x |-> Real, y |-> Real])
DomPointF == Class(DomPointFDecl, "pointf", <<>>, <<"x", "y">>)

DomRectFDecl ==
  Record(None, [x |-> Real, y |-> Real, width |-> Real, height |-> Real])
DomRectF == Class(DomRectFDecl, "rectf", <<>>, <<"x", "y", "width", "height">>)

DomSizeFDecl ==
  Record(None, [width |-> Real, height |-> Real])
DomSizeF == Class(DomSizeFDecl, "sizef", <<>>, <<"width", "height">>)

DomCharDecl ==
  Record(None, [unicode |-> Whole])
DomChar == Class(DomCharDecl, "char", <<>>, <<"unicode">>)

DomUrlDecl ==
  Record(None, [string |-> One("DomString")])
DomUrl == Class(DomUrlDecl, "url", <<>>, <<"string">>)

DomPropertyDecl ==
  Choice([name |-> Text, stdset |-> Whole],
         [bool |-> Text, color |-> One("DomColor"), cstring |-> Text, cursor |-> Whole,
          cursorshape |-> Text, enum |-> Text, font |-> One("DomFont"),
          iconset |-> One("DomResourceIcon"), pixmap |-> One("DomResourcePixmap"),
          palette |-> One("DomPalette"), point |-> One("DomPoint"), rect |-> One("DomRect"),
          set |-> Text, locale |-> One("DomLocale"), sizepolicy |-> One("DomSizePolicy"),
          size |-> One("DomSize"), string |-> One("DomString"),
          stringlist |-> One("DomStringList"), number |-> Whole, float |-> Real, double |-> Real,
          date |-> One("DomDate"), time |-> One("DomTime"), datetime |-> One("DomDateTime"),
          pointf |-> One("DomPointF"), rectf |-> One("DomRectF"), sizef |-> One("DomSizeF"),
          longlong |-> Whole, char |-> One("DomChar"), url |-> One("DomUrl"), uint |-> Whole,
          ulonglong |-> Whole, brush |-> One("DomBrush")])
DomPropertyOwned == {"color", "font", "iconset", "pixmap", "palette", "point", "rect", "locale",
                     "sizepolicy", "size", "string", "stringlist", "date", "time", "datetime",
                     "pointf", "rectf", "sizef", "char", "url", "brush"}
DomPropertyReads == {"bool", "color", "cstring", "cursor", "cursorshape", "enum", "font",
                     "iconset", "pixmap", "palette", "point", "rect", "set", "locale",
                     "sizepolicy", "size", "string", "stringlist", "number", "float", "double",
                     "date", "time", "datetime", "pointf", "rectf", "sizef", "longlong", "char",
                     "url", "uint", "ulonglong", "brush"}
DomPropertyWrites == <<"bool", "color", "cstring", "cursor", "cursorshape", "enum", "font",
                       "iconset", "pixmap", "palette", "point", "rect", "set", "locale",
                       "sizepolicy", "size", "string", "stringlist", "number", "float", "double",
                       "date", "time", "datetime", "pointf", "rectf", "sizef", "longlong", "char",
                       "url", "uint", "ulonglong", "brush">>
DomProperty == ClassOf(DomPropertyDecl, "property", <<"name", "stdset">>,
  DomPropertyOwned, DomPropertyReads, DomPropertyWrites)

DomConnectionsDecl ==
  Record(None, [connection |-> Many("DomConnection")])
DomConnections == Class(DomConnectionsDecl, "connections", <<>>, <<"connection">>)

DomConnectionDecl ==
  Record(None,
         [sender |-> Text, signal |-> Text, receiver |-> Text, slot |-> Text,
          hints |-> One("DomConnectionHints")])
DomConnection == Class(DomConnectionDecl, "connection", <<>>,
  <<"sender", "signal", "receiver", "slot", "hints">>)

DomConnectionHintsDecl ==
  Record(None, [hint |-> Many("DomConnectionHint")])
DomConnectionHints == Class(DomConnectionHintsDecl, "connectionhints", <<>>, <<"hint">>)

DomConnectionHintDecl ==
  Record([type |-> Text], [x |-> Whole, y |-> Whole])
DomConnectionHint == Class(DomConnectionHintDecl, "connectionhint", <<"type">>, <<"x", "y">>)

DomScriptDecl ==
  Record([source |-> Text, language |-> Text], None)
DomScript == Class(DomScriptDecl, "script", <<"source", "language">>, <<>>)

DomWidgetDataDecl ==
  Record(None, [property |-> Many("DomProperty")])
DomWidgetData == Class(DomWidgetDataDecl, "widgetdata", <<>>, <<"property">>)

DomDesignerDataDecl ==
  Record(None, [property |-> Many("DomProperty")])
DomDesignerData == Class(DomDesignerDataDecl, "designerdata", <<>>, <<"property">>)

DomSlotsDecl ==
  Record(None, [slot |-> Texts, signal |-> Texts])
DomSlots == Class(DomSlotsDecl, "slots", <<>>, <<"slot", "signal">>)

DomClasses == [DomUI |-> DomUI, DomIncludes |-> DomIncludes, DomInclude |-> DomInclude,
               DomResources |-> DomResources, DomResource |-> DomResource,
               DomActionGroup |-> DomActionGroup, DomAction |-> DomAction,
               DomActionRef |-> DomActionRef, DomImages |-> DomImages, DomImage |-> DomImage,
               DomImageData |-> DomImageData, DomCustomWidgets |-> DomCustomWidgets,
               DomHeader |-> DomHeader, DomCustomWidget |-> DomCustomWidget,
               DomProperties |-> DomProperties, DomPropertyData |-> DomPropertyData,
               DomSizePolicyData |-> DomSizePolicyData, DomLayoutDefault |-> DomLayoutDefault,
               DomLayoutFunction |-> DomLayoutFunction, DomTabStops |-> DomTabStops,
               DomLayout |-> DomLayout, DomLayoutItem |-> DomLayoutItem, DomRow |-> DomRow,
               DomColumn |-> DomColumn, DomItem |-> DomItem, DomWidget |-> DomWidget,
               DomSpacer |-> DomSpacer, DomColor |-> DomColor,
               DomGradientStop |-> DomGradientStop, DomGradient |-> DomGradient,
               DomBrush |-> DomBrush, DomColorRole |-> DomColorRole,
               DomColorGroup |-> DomColorGroup, DomPalette |-> DomPalette, DomFont |-> DomFont,
               DomPoint |-> DomPoint, DomRect |-> DomRect, DomLocale |-> DomLocale,
               DomSizePolicy |-> DomSizePolicy, DomSize |-> DomSize, DomDate |-> DomDate,
               DomTime |-> DomTime, DomDateTime |-> DomDateTime, DomStringList |-> DomStringList,
               DomResourcePixmap |-> DomResourcePixmap, DomResourceIcon |-> DomResourceIcon,
               DomString |-> DomString, DomPointF |-> DomPointF, DomRectF |-> DomRectF,
               DomSizeF |-> DomSizeF, DomChar |-> DomChar, DomUrl |-> DomUrl,
               DomProperty |-> DomProperty, DomConnections |-> DomConnections,
               DomConnection |-> DomConnection, DomConnectionHints |-> DomConnectionHints,
               DomConnectionHint |-> DomConnectionHint, DomScript |-> DomScript,
               DomWidgetData |-> DomWidgetData, DomDesignerData |-> DomDesignerData,
               DomSlots |-> DomSlots]

========================================================================
